------------------------- MODULE LiveTopologyProofs -------------------------
(***************************************************************************)
(* What holds of a running network for any number of nodes, links and      *)
(* threads, and any number of calls and failures: the types; what the       *)
(* scenario files and bundles that are written meanwhile say of it; what    *)
(* overlapping reconciliations of a node's exits leave behind, although     *)
(* their listings are out of date by the time they delete and add           *)
(* (docker_manager.py:1035-1101), and that bundles then arrive; and why the  *)
(* status of a link says what tc does at its ends, although threads disrupt, *)
(* restore, make and remove links at the same time, deletions fail half-way  *)
(* and containers exit (docker_manager.py:339-644).                         *)
(***************************************************************************)
EXTENDS LiveTopology, NextHopsProofs

-----------------------------------------------------------------------------
(* Types *)

NodeState == {"absent", "creating", "named", "exited"}
LinkState == {"up", "down", "degraded", "error"}
AnyNetem == Netem \union {NoNetem}
Qdisc == {TcArgs(m) : m \in Netem} \union {NoNetem, Cut}
LinkRec == [made : Nat, idx : Index, cl : CL, st : LinkState, netem : AnyNetem]
Aims == [sets : SUBSET SUBSET Exit, pure : BOOLEAN]
Book == [Node -> SUBSET Exit]

FileDraft == [kind : {"file"}, nodes : SUBSET Node, exits : Book]
Neighbour == [peer : Node, cl : CL, ip : Index \X Side]
ConfigDraft == [nbs : SUBSET Neighbour, exits : Book]
NodesDraft == [nodes : SUBSET Node]
BundleDraft == [nodes : SUBSET Node, net : SUBSET [pr : Pair, cl : CL], exits : Book]
Draft == {<<>>} \union FileDraft \union ConfigDraft \union NodesDraft \union BundleDraft

LocalSet ==
  [n : Node \union {0}, pr : Pair \union {<<>>}, made : Nat, idx : Index, side : Side,
   netem : AnyNetem, todo : SUBSET Node, rest : SUBSET Pair, known : SUBSET Node,
   want : SUBSET Exit, del : SUBSET Exit, add : SUBSET Exit, bad : BOOLEAN, doc : Draft]

OnLink == {"made_link", "tc_replace", "tc_del", "disrupted", "restored", "gone_net", "gone_pop"}
OnNode == {"made_node", "rt_list", "rt_del", "rt_add", "rt_verify", "hand_add", "hand_del",
           "clear_del", "config", "gone_next", "gone_node"}
Elsewhere == {"idle", "rt_next", "clear_next", "export", "bundle_links", "bundle"}

\* What the local variables of a thread are when it is at `label`.
Fits(label, l) ==
  /\ label = "idle" => l = NoLocal
  /\ label \in OnLink <=> l.pr \in Pair
  /\ label \in OnNode => l.n \in Node
  /\ label \in {"tc_del", "restored"} => l.netem = NoNetem
  /\ label = "export" => l.doc \in FileDraft
  /\ label = "config" => l.doc \in ConfigDraft
  /\ label = "bundle_links" => l.doc \in NodesDraft
  /\ label = "bundle" => l.doc \in BundleDraft

TablesOK == nodes \in [Node -> NodeState] /\ links \in [Pair -> LinkRec]
ExitsOK == exits \in Book /\ aims \in [Node -> Aims]
TcOK == tc \in [Pair -> [Side -> Qdisc]]
DocumentOK == document # <<>> /\ document.kind = "file" => document.exits \in Book
ThreadsOK ==
  /\ pc \in [Proc -> OnLink \union OnNode \union Elsewhere]
  /\ loc \in [Proc -> LocalSet]
  /\ \A p \in Proc : Fits(pc[p], loc[p])
CountsOK == started \in 0..MaxOps /\ faults \in 0..MaxFaults /\ may \in {s.may : s \in Scenes}
StampsOK == \A pr \in Pair : links[pr].made <= started + 1

Shape == TablesOK /\ ExitsOK /\ TcOK /\ DocumentOK /\ ThreadsOK /\ CountsOK /\ StampsOK

-----------------------------------------------------------------------------
(* Constants and helpers *)

LEMMA PairFacts ==
  /\ IsFiniteSet(Pair) /\ Cardinality(Pair) \in Nat
  /\ Index \subseteq Nat /\ 0 \in Index
  /\ <<>> \notin Pair
<1>1. IsFiniteSet(Node \X Node)
  BY FS_Product, LiveNodeAssumption
<1>2. IsFiniteSet(Pair)
  BY <1>1, FS_Subset, LivePairAssumption
<1>3. Cardinality(Pair) \in Nat
  BY <1>2, FS_CardinalityType
<1>4. <<>> \notin Pair
  BY LivePairAssumption
<1> QED
  BY <1>2, <1>3, <1>4 DEF Index

LEMMA NoLocalTyped == NoLocal \in LocalSet
<1>1. <<>> \in Draft /\ NoNetem \in AnyNetem /\ "a" \in Side
  BY DEF Draft, AnyNetem, Side
<1> QED
  BY <1>1, PairFacts DEF NoLocal, LocalSet

LEMMA NoLocalFits == Fits("idle", NoLocal)
  BY PairFacts DEF Fits, NoLocal, OnLink, OnNode

LEMMA NoLinkTyped == NoLink \in LinkRec
<1>1. NoNetem \in AnyNetem
  BY DEF AnyNetem
<1> QED
  BY <1>1, PairFacts, LiveClAssumption DEF NoLink, LinkRec, LinkState

LEMMA QdiscTyped ==
  /\ NoTc \in [Side -> Qdisc]
  /\ \A m \in AnyNetem : TcArgs(m) \in Qdisc
<1>1. TcArgs(NoNetem) = NoNetem
  BY DEF TcArgs, NoNetem
<1> QED
  BY <1>1 DEF NoTc, Qdisc, AnyNetem

\* The pool always has an index that no link has.
LEMMA FreeIndexIsFree ==
  ASSUME TablesOK
  PROVE  FreeIndex \in Index /\ \A pr \in LinkNames : links[pr].idx # FreeIndex
<1> DEFINE Used == {links[pr].idx : pr \in LinkNames}
           f == [pr \in LinkNames |-> links[pr].idx]
<1>1. IsFiniteSet(LinkNames) /\ Cardinality(LinkNames) <= Cardinality(Pair) /\ Cardinality(LinkNames) \in Nat
  BY PairFacts, FS_Subset, FS_CardinalityType DEF LinkNames
<1>2. f \in Surjection(LinkNames, Used)
  BY DEF Surjection
<1>3. Used \subseteq Index
  BY DEF LinkNames, TablesOK, LinkRec
<1> HIDE DEF f
<1>4. IsFiniteSet(Used) /\ Cardinality(Used) <= Cardinality(LinkNames)
  BY <1>1, <1>2, FS_Surjection
<1>5. Cardinality(Index) = Cardinality(Pair) + 1
  BY PairFacts, FS_Interval DEF Index
<1>6. Cardinality(Used) \in Nat
  BY <1>4, FS_CardinalityType
<1> HIDE DEF Used
<1>7. Index # Used
  BY <1>1, <1>4, <1>5, <1>6, PairFacts
<1>8. Index \ Used # {} /\ Index \ Used \subseteq Nat
  BY <1>3, <1>7, PairFacts
<1>9. Min(Index \ Used) \in Index \ Used
  BY <1>8, MinIsLeast
<1> QED
  BY <1>9 DEF FreeIndex, Used

\* An order gives a first hop, or none, for each node.
LEMMA WantedTyped ==
  ASSUME NEW n \in Node, NEW there \in SUBSET Node, NEW adj \in [Node -> SUBSET Node],
         NEW order \in Orders
  PROVE  Wanted(n, there, adj, order) \in SUBSET Exit
<1>1. NextHop(n, adj, order) \in [Node -> Node \union {NoGateway}]
  BY NextHopType, LiveNodeAssumption, OrderAssumption
<1> QED
  BY <1>1 DEF Wanted, Exit

LEMMA SetsTyped ==
  /\ There \in SUBSET Node /\ Named \in SUBSET Node /\ Running \in SUBSET Node
  /\ Adjacent \in [Node -> SUBSET Node]
  /\ LinkNames \in SUBSET Pair
  BY DEF There, Named, Running, Adjacent, Neighbors, LinkNames

LEMMA LeastNode ==
  ASSUME NEW todo \in SUBSET Node, todo # {}
  PROVE  Min(todo) \in todo /\ Min(todo) \in Node
  BY MinIsLeast, LiveNodeAssumption

\* A pair has its ends in Node.
LEMMA EndTyped ==
  ASSUME NEW pr \in Pair, NEW s \in Side
  PROVE  At(pr, s) \in Node /\ pr[1] \in Node /\ pr[2] \in Node /\ pr = <<pr[1], pr[2]>>
  BY LivePairAssumption DEF At, Side

-----------------------------------------------------------------------------
(* Threads *)

LEMMA GotoKeepsThreads ==
  ASSUME ThreadsOK, NEW p \in Proc, NEW label, NEW l, Goto(p, label, l),
         label \in OnLink \union OnNode \union Elsewhere, l \in LocalSet, Fits(label, l)
  PROVE  ThreadsOK'
<1>1. pc' \in [Proc -> OnLink \union OnNode \union Elsewhere] /\ loc' \in [Proc -> LocalSet]
  BY DEF ThreadsOK, Goto
<1>2. ASSUME NEW q \in Proc PROVE Fits(pc'[q], loc'[q])
  BY DEF ThreadsOK, Goto
<1> QED
  BY <1>1, <1>2 DEF ThreadsOK

LEMMA FinishKeepsThreads ==
  ASSUME ThreadsOK, NEW p \in Proc, Finish(p)
  PROVE  ThreadsOK'
<1>1. "idle" \in OnLink \union OnNode \union Elsewhere
  BY DEF Elsewhere
<1> QED
  BY <1>1, NoLocalTyped, NoLocalFits, GotoKeepsThreads DEF Finish

\* Local variables of p are typed, and those of one label fit another of its kind.
LEMMA OwnLocals ==
  ASSUME ThreadsOK, NEW p \in Proc
  PROVE  loc[p] \in LocalSet /\ Fits(pc[p], loc[p])
  BY DEF ThreadsOK

LEMMA BeginKeepsCounts ==
  ASSUME CountsOK, NEW p, NEW o, Begin(p, o)
  PROVE  started' \in 0..MaxOps /\ may' \in {s.may : s \in Scenes} /\ started' = started + 1
  BY BoundAssumption DEF CountsOK, Begin

LEMMA FailsKeepsCounts ==
  ASSUME CountsOK, NEW label, NoFault \/ Fails(label)
  PROVE  faults' \in 0..MaxFaults
  BY BoundAssumption DEF CountsOK, Fails, NoFault

-----------------------------------------------------------------------------
(* Every step keeps the types *)

LEMMA DisturbedTyped ==
  ASSUME ExitsOK, NEW ns
  PROVE  Disturbed(ns) \in [Node -> Aims]
<1>1. \A n \in Node : aims[n] \in Aims
  BY DEF ExitsOK
<1>2. ASSUME NEW a \in Aims PROVE [a EXCEPT !.pure = FALSE] \in Aims
  BY DEF Aims
<1> QED
  BY <1>1, <1>2 DEF Disturbed

LEMMA NodeReservedTyped ==
  ASSUME Shape, NEW p \in Proc, NEW n \in Node, NodeReserved(p, n)
  PROVE  Shape'
<1> USE DEF NodeReserved, liveOnly
<1>1. CountsOK'
  BY BeginKeepsCounts DEF Shape, CountsOK
<1>2. ThreadsOK'
  <2> DEFINE l == [NoLocal EXCEPT !.n = n]
  <2>1. l \in LocalSet
    BY NoLocalTyped DEF LocalSet
  <2>2. Fits("made_node", l)
    BY PairFacts DEF Fits, NoLocal, OnLink, OnNode
  <2> QED
    BY <2>1, <2>2, GotoKeepsThreads DEF Shape, OnNode
<1>3. TablesOK'
  BY DEF Shape, TablesOK, NodeState
<1>4. StampsOK'
  BY BeginKeepsCounts DEF Shape, StampsOK, CountsOK, TablesOK, LinkRec
<1> QED
  BY <1>1, <1>2, <1>3, <1>4 DEF Shape, ExitsOK, TcOK, DocumentOK

LEMMA UnpluggedTyped ==
  ASSUME TcOK, NEW n
  PROVE  Unplugged(n) \in [Pair -> [Side -> Qdisc]]
  BY DEF TcOK, Unplugged, Qdisc

LEMMA NodeMadeTyped ==
  ASSUME Shape, NEW p \in Proc, NodeMade(p)
  PROVE  Shape'
<1> USE DEF NodeMade
<1>0. loc[p].n \in Node
  BY DEF Shape, ThreadsOK, Fits, OnNode
<1>1. CountsOK'
  BY FailsKeepsCounts DEF Shape, CountsOK
<1>2. ThreadsOK'
  BY FinishKeepsThreads DEF Shape
<1>3. TablesOK'
  BY <1>0 DEF Shape, TablesOK, NodeState
<1>4. ExitsOK'
  BY <1>0, DisturbedTyped DEF Shape, ExitsOK, Book
<1>5. TcOK'
  BY UnpluggedTyped DEF Shape, TcOK
<1> QED
  BY <1>1, <1>2, <1>3, <1>4, <1>5 DEF Shape, DocumentOK, StampsOK

LEMMA StoppedTyped ==
  ASSUME Shape, NEW n \in Node, Stopped(n)
  PROVE  nodes' \in [Node -> NodeState] /\ ExitsOK' /\ TcOK'
<1>1. nodes' \in [Node -> NodeState]
  BY DEF Shape, TablesOK, NodeState, Stopped
<1>2. ExitsOK'
  BY DisturbedTyped DEF Shape, ExitsOK, Book, Stopped
<1>3. TcOK'
  BY UnpluggedTyped DEF Shape, TcOK, Stopped
<1> QED
  BY <1>1, <1>2, <1>3

LEMMA ContainerExitsTyped ==
  ASSUME Shape, NEW n \in Node, ContainerExits(n)
  PROVE  Shape'
<1> USE DEF ContainerExits
<1>1. CountsOK'
  BY FailsKeepsCounts DEF Shape, CountsOK
<1>2. TablesOK'
  BY StoppedTyped DEF Shape, TablesOK
<1> QED
  BY <1>1, <1>2, StoppedTyped DEF Shape, DocumentOK, ThreadsOK, StampsOK

LEMMA LinkReservedTyped ==
  ASSUME Shape, NEW p \in Proc, NEW pr \in Pair, NEW cl \in CL, LinkReserved(p, pr, cl)
  PROVE  Shape'
<1> USE DEF LinkReserved, liveOnly
<1>1. CountsOK'
  BY BeginKeepsCounts DEF Shape, CountsOK
<1>2. ThreadsOK'
  <2> DEFINE l == [NoLocal EXCEPT !.pr = pr, !.known = Named]
  <2>1. l \in LocalSet
    BY NoLocalTyped, SetsTyped DEF LocalSet
  <2>2. Fits("made_link", l)
    BY DEF Fits, NoLocal, OnLink, OnNode
  <2> QED
    BY <2>1, <2>2, GotoKeepsThreads DEF Shape, OnLink
<1> DEFINE k == [NoLink EXCEPT !.made = started + 2, !.idx = FreeIndex, !.cl = cl]
<1>3. k \in LinkRec /\ k.made = started + 2
  <2>1. FreeIndex \in Index /\ started + 2 \in Nat
    BY FreeIndexIsFree, BoundAssumption DEF Shape, CountsOK
  <2> QED
    BY <2>1, NoLinkTyped DEF LinkRec
<1>4. TablesOK'
  BY <1>3 DEF Shape, TablesOK
<1>5. StampsOK'
  BY <1>3, BeginKeepsCounts DEF Shape, StampsOK, CountsOK, TablesOK, LinkRec
<1> QED
  BY <1>1, <1>2, <1>4, <1>5 DEF Shape, ExitsOK, TcOK, DocumentOK

LEMMA LinkMadeTyped ==
  ASSUME Shape, NEW p \in Proc, LinkMade(p)
  PROVE  Shape'
<1> DEFINE pr == loc[p].pr
<1>0. pr \in Pair
  BY DEF Shape, ThreadsOK, Fits, OnLink, LinkMade
<1>1. CountsOK'
  BY FailsKeepsCounts DEF Shape, CountsOK, LinkMade
<1>2. ThreadsOK'
  BY FinishKeepsThreads DEF Shape, LinkMade
<1>3. \/ \E st \in LinkState : \E C \in SUBSET Side :
           /\ links' = [links EXCEPT ![pr].st = st]
           /\ tc' = [tc EXCEPT ![pr] = [s \in Side |-> IF s \in C THEN Cut
                                                       ELSE IF @[s] = Cut THEN NoNetem ELSE @[s]]]
      \/ links' = [links EXCEPT ![pr] = NoLink] /\ tc' = [tc EXCEPT ![pr] = NoTc]
  BY DEF LinkMade, LinkState, CutSides
<1>4. TablesOK' /\ StampsOK' /\ TcOK'
  <2>0. nodes' = nodes /\ started' = started
    BY DEF LinkMade
  <2>1. ASSUME NEW st \in LinkState, NEW C \in SUBSET Side,
               links' = [links EXCEPT ![pr].st = st],
               tc' = [tc EXCEPT ![pr] = [s \in Side |-> IF s \in C THEN Cut
                                                        ELSE IF @[s] = Cut THEN NoNetem ELSE @[s]]]
        PROVE  TablesOK' /\ StampsOK' /\ TcOK'
    <3>1. TablesOK' /\ StampsOK'
      BY <1>0, <2>0, <2>1 DEF Shape, TablesOK, StampsOK, LinkRec
    <3>2. TcOK'
      BY <1>0, <2>1 DEF Shape, TcOK, Qdisc
    <3> QED
      BY <3>1, <3>2
  <2>2. CASE links' = [links EXCEPT ![pr] = NoLink] /\ tc' = [tc EXCEPT ![pr] = NoTc]
    <3>1. NoLink.made = 0
      BY DEF NoLink
    <3> QED
      BY <1>0, <2>0, <2>2, <3>1, NoLinkTyped, QdiscTyped
      DEF Shape, TablesOK, StampsOK, TcOK, CountsOK
  <2> QED
    BY <1>3, <2>1, <2>2
<1> QED
  BY <1>1, <1>2, <1>4 DEF Shape, ExitsOK, DocumentOK, LinkMade

\* A step of the exit routes touches neither tables nor tc nor documents.
LEMMA ExitStepTyped ==
  ASSUME Shape, UNCHANGED <<tables, tc, document>>,
         may' = may, started' = started, faults' \in 0..MaxFaults, ExitsOK', ThreadsOK'
  PROVE  Shape'
  BY DEF Shape, TablesOK, TcOK, DocumentOK, CountsOK, StampsOK, tables

\* A call that only looks things up.
LEMMA CallTyped ==
  ASSUME Shape, NEW p \in Proc, NEW o, Begin(p, o), UNCHANGED <<tables, liveOnly, aims>>,
         ThreadsOK'
  PROVE  Shape'
<1>1. CountsOK' /\ started' = started + 1
  BY BeginKeepsCounts DEF Shape, CountsOK, liveOnly
<1>2. StampsOK'
  BY <1>1 DEF Shape, StampsOK, CountsOK, tables, TablesOK, LinkRec
<1> QED
  BY <1>1, <1>2 DEF Shape, TablesOK, ExitsOK, TcOK, DocumentOK, tables, liveOnly

LEMMA DeleteLinkTyped ==
  ASSUME Shape, NEW p \in Proc, NEW pr \in Pair, DeleteLink(p, pr)
  PROVE  Shape'
<1> DEFINE l == [NoLocal EXCEPT !.pr = pr, !.made = links[pr].made]
<1>1. l \in LocalSet
  BY NoLocalTyped DEF LocalSet, Shape, TablesOK, LinkRec
<1>2. Fits("gone_net", l)
  BY DEF Fits, NoLocal, OnLink, OnNode
<1>3. ThreadsOK'
  BY <1>1, <1>2, GotoKeepsThreads DEF Shape, OnLink, DeleteLink
<1> QED
  BY <1>3, CallTyped DEF DeleteLink

LEMMA DeleteNodeTyped ==
  ASSUME Shape, NEW p \in Proc, NEW n \in Node, DeleteNode(p, n)
  PROVE  Shape'
<1> DEFINE mine == {pr \in LinkNames : n \in Ends(pr)}
           l == [NoLocal EXCEPT !.n = n, !.known = Named, !.rest = mine]
<1>1. l \in LocalSet
  <2>1. mine \in SUBSET Pair
    BY DEF LinkNames
  <2> HIDE DEF mine
  <2> QED
    BY <2>1, NoLocalTyped, SetsTyped DEF LocalSet
<1>2. Fits("gone_next", l)
  BY PairFacts DEF Fits, NoLocal, OnLink, OnNode
<1>3. ThreadsOK'
  <2> HIDE DEF l
  <2>1. Goto(p, "gone_next", l)
    BY DEF DeleteNode, l
  <2> QED
    BY <1>1, <1>2, <2>1, GotoKeepsThreads DEF Shape, OnNode
<1> QED
  BY <1>3, CallTyped DEF DeleteNode

\* A step of a deletion that leaves the tables, exits and documents alone.
LEMMA DeletionTyped ==
  ASSUME Shape, UNCHANGED <<tables, exits, document, may, started, aims>>,
         faults' \in 0..MaxFaults, TcOK', ThreadsOK'
  PROVE  Shape'
  BY DEF Shape, TablesOK, ExitsOK, DocumentOK, CountsOK, StampsOK, tables

LEMMA GoneNextTyped ==
  ASSUME Shape, NEW p \in Proc, GoneNext(p)
  PROVE  Shape'
<1> DEFINE l == loc[p]
<1>1. l \in LocalSet /\ Fits("gone_next", l)
  BY OwnLocals DEF Shape, GoneNext
<1>2. PICK pr \in l.rest :
        \/ pr \in LinkNames /\ Goto(p, "gone_net", [l EXCEPT !.rest = @ \ {pr}, !.pr = pr,
                                                             !.made = links[pr].made])
        \/ pr \notin LinkNames /\ Goto(p, "gone_next", [l EXCEPT !.rest = @ \ {pr}])
  BY DEF GoneNext
<1>3. pr \in Pair /\ links[pr].made \in Nat
  BY <1>1 DEF LocalSet, Shape, TablesOK, LinkRec
<1>4. ThreadsOK'
  <2> HIDE DEF l
  <2>1. ASSUME Goto(p, "gone_net", [l EXCEPT !.rest = @ \ {pr}, !.pr = pr, !.made = links[pr].made])
        PROVE  ThreadsOK'
    <3> DEFINE k == [l EXCEPT !.rest = @ \ {pr}, !.pr = pr, !.made = links[pr].made]
    <3>1. k \in LocalSet /\ k.pr = pr
      BY <1>1, <1>3 DEF LocalSet
    <3>2. Fits("gone_net", k)
      BY <1>3, <3>1 DEF Fits, OnLink, OnNode
    <3> HIDE DEF k
    <3>3. Goto(p, "gone_net", k)
      BY <2>1 DEF k
    <3> QED
      BY <3>1, <3>2, <3>3, GotoKeepsThreads DEF Shape, OnLink
  <2>2. ASSUME Goto(p, "gone_next", [l EXCEPT !.rest = @ \ {pr}])
        PROVE  ThreadsOK'
    <3> DEFINE k == [l EXCEPT !.rest = @ \ {pr}]
    <3>1. k \in LocalSet /\ k.pr = l.pr /\ k.n = l.n
      BY <1>1 DEF LocalSet
    <3>2. Fits("gone_next", k)
      BY <1>1, <3>1 DEF Fits, OnLink, OnNode
    <3> HIDE DEF k
    <3>3. Goto(p, "gone_next", k)
      BY <2>2 DEF k
    <3> QED
      BY <3>1, <3>2, <3>3, GotoKeepsThreads DEF Shape, OnNode
  <2> QED
    BY <1>2, <2>1, <2>2
<1> QED
  BY <1>4, DeletionTyped DEF GoneNext, liveOnly, Shape, TcOK, CountsOK

LEMMA LinkDoneTyped ==
  ASSUME Shape, NEW p \in Proc, LinkDone(p)
  PROVE  ThreadsOK'
<1> DEFINE l == loc[p]
           k == [l EXCEPT !.pr = <<>>]
<1>1. CASE l.n = 0
  BY <1>1, FinishKeepsThreads DEF Shape, LinkDone
<1>2. CASE l.n # 0
  <2>1. l \in LocalSet
    BY OwnLocals DEF Shape
  <2>2. Goto(p, "gone_next", k)
    BY <1>2 DEF LinkDone
  <2> HIDE DEF l
  <2>3. k \in LocalSet /\ k.pr = <<>> /\ k.n \in Node
    BY <1>2, <2>1 DEF LocalSet
  <2>4. Fits("gone_next", k)
    BY <2>3, PairFacts DEF Fits, OnLink, OnNode
  <2> HIDE DEF k
  <2> QED
    BY <2>2, <2>3, <2>4, GotoKeepsThreads DEF Shape, OnNode
<1> QED
  BY <1>1, <1>2

LEMMA CutEndsTyped ==
  ASSUME TcOK, NEW pr \in Pair, NEW C
  PROVE  CutEnds(pr, C) \in [Pair -> [Side -> Qdisc]]
  BY DEF TcOK, CutEnds, Qdisc

LEMMA NetGoneTyped ==
  ASSUME Shape, NEW p \in Proc, NetGone(p)
  PROVE  Shape'
<1> DEFINE pr == loc[p].pr
<1>1. loc[p] \in LocalSet /\ Fits("gone_net", loc[p]) /\ pr \in Pair
  BY OwnLocals DEF Shape, NetGone, Fits, OnLink
<1>2. faults' \in 0..MaxFaults
  BY FailsKeepsCounts DEF Shape, NetGone
<1>3. TcOK'
  <2>1. tc' = tc \/ \E C \in SUBSET Side : tc' = CutEnds(pr, C)
    BY DEF NetGone
  <2> QED
    BY <1>1, <2>1, CutEndsTyped DEF Shape, TcOK
<1>4. ThreadsOK'
  <2>1. Goto(p, "gone_pop", loc[p]) \/ LinkDone(p)
    BY DEF NetGone
  <2>2. Fits("gone_pop", loc[p])
    BY <1>1 DEF Fits, OnLink, OnNode
  <2> QED
    BY <1>1, <2>1, <2>2, GotoKeepsThreads, LinkDoneTyped DEF Shape, OnLink
<1> QED
  BY <1>2, <1>3, <1>4, DeletionTyped DEF NetGone

LEMMA LinkPoppedTyped ==
  ASSUME Shape, NEW p \in Proc, LinkPopped(p)
  PROVE  Shape'
<1>1. loc[p].pr \in Pair
  BY OwnLocals DEF Shape, LinkPopped, Fits, OnLink
<1>2. TablesOK' /\ TcOK'
  BY <1>1, NoLinkTyped, QdiscTyped DEF Shape, TablesOK, TcOK, LinkPopped
<1>3. StampsOK'
  BY <1>1, BoundAssumption DEF Shape, StampsOK, CountsOK, TablesOK, LinkRec, NoLink, LinkPopped
<1>4. ThreadsOK'
  BY LinkDoneTyped DEF LinkPopped
<1> QED
  BY <1>2, <1>3, <1>4 DEF Shape, ExitsOK, DocumentOK, CountsOK, LinkPopped

LEMMA ContainerGoneTyped ==
  ASSUME Shape, NEW p \in Proc, ContainerGone(p)
  PROVE  Shape'
<1> DEFINE n == loc[p].n
<1>1. loc[p] \in LocalSet /\ Fits("gone_next", loc[p]) /\ n \in Node
  BY OwnLocals DEF Shape, ContainerGone, Fits, OnNode
<1>2. CountsOK'
  BY FailsKeepsCounts DEF Shape, CountsOK, ContainerGone
<1>3. nodes' \in [Node -> NodeState] /\ ExitsOK' /\ TcOK'
  <2>1. Stopped(n) \/ UNCHANGED <<nodes, exits, tc, aims>>
    BY DEF ContainerGone
  <2> QED
    BY <1>1, <2>1, StoppedTyped DEF Shape, TablesOK, ExitsOK, TcOK
<1>4. ThreadsOK'
  <2>1. Goto(p, "gone_node", loc[p]) \/ Finish(p)
    BY DEF ContainerGone
  <2>2. Fits("gone_node", loc[p])
    BY <1>1 DEF Fits, OnLink, OnNode
  <2> QED
    BY <1>1, <2>1, <2>2, GotoKeepsThreads, FinishKeepsThreads DEF Shape, OnNode
<1> QED
  BY <1>2, <1>3, <1>4 DEF Shape, TablesOK, DocumentOK, StampsOK, ContainerGone

LEMMA NodeDroppedTyped ==
  ASSUME Shape, NEW p \in Proc, NodeDropped(p)
  PROVE  Shape'
<1> USE DEF NodeDropped
<1>0. loc[p].n \in Node
  BY DEF Shape, ThreadsOK, Fits, OnNode
<1>1. ThreadsOK'
  BY FinishKeepsThreads DEF Shape
<1>2. TablesOK'
  BY <1>0 DEF Shape, TablesOK, NodeState
<1>3. ExitsOK'
  BY <1>0, DisturbedTyped DEF Shape, ExitsOK, Book
<1> QED
  BY <1>1, <1>2, <1>3 DEF Shape, TcOK, DocumentOK, CountsOK, StampsOK

LEMMA SetAllExitsTyped ==
  ASSUME Shape, NEW p \in Proc, SetAllExits(p)
  PROVE  Shape'
<1> DEFINE l == [NoLocal EXCEPT !.todo = There]
<1>1. l \in LocalSet
  BY NoLocalTyped, SetsTyped DEF LocalSet
<1>2. Fits("rt_next", l)
  BY PairFacts DEF Fits, NoLocal, OnLink, OnNode
<1>3. ThreadsOK'
  BY <1>1, <1>2, GotoKeepsThreads DEF Shape, Elsewhere, SetAllExits
<1> QED
  BY <1>3, CallTyped DEF SetAllExits

LEMMA SetNodeExitsTyped ==
  ASSUME Shape, NEW p \in Proc, NEW n \in Node, SetNodeExits(p, n)
  PROVE  Shape'
<1> DEFINE l == [NoLocal EXCEPT !.todo = {n}]
<1>1. l \in LocalSet
  BY NoLocalTyped DEF LocalSet
<1>2. Fits("rt_next", l)
  BY PairFacts DEF Fits, NoLocal, OnLink, OnNode
<1>3. ThreadsOK'
  BY <1>1, <1>2, GotoKeepsThreads DEF Shape, Elsewhere, SetNodeExits
<1> QED
  BY <1>3, CallTyped DEF SetNodeExits

LEMMA AimedTyped ==
  ASSUME ExitsOK, NEW n \in Node, NEW want \in SUBSET Exit
  PROVE  Aimed(n, want) \in [Node -> Aims]
<1> DEFINE new == [sets |-> {want} \union (IF Working(n) = {} THEN {} ELSE aims[n].sets),
                   pure |-> Working(n) = {} \/ aims[n].pure]
<1>1. aims \in [Node -> Aims]
  BY DEF ExitsOK
<1>2. new \in Aims
  <2>1. aims[n] \in Aims
    BY <1>1
  <2>2. aims[n].sets \in SUBSET SUBSET Exit
    BY <2>1 DEF Aims
  <2>3. {want} \union (IF Working(n) = {} THEN {} ELSE aims[n].sets) \in SUBSET SUBSET Exit
    BY <2>2
  <2>4. (Working(n) = {} \/ aims[n].pure) \in BOOLEAN
    OBVIOUS
  <2> QED
    BY <2>3, <2>4 DEF Aims
<1>3. Aimed(n, want) = [aims EXCEPT ![n] = new]
  BY DEF Aimed
<1> HIDE DEF new
<1> QED
  BY <1>1, <1>2, <1>3

LEMMA RtNextTyped ==
  ASSUME Shape, NEW p \in Proc, RtNext(p)
  PROVE  Shape'
<1> DEFINE l == loc[p]
           n == Min(l.todo)
           rest == [l EXCEPT !.todo = @ \ {n}, !.n = n, !.bad = FALSE]
<1>1. l \in LocalSet /\ Fits("rt_next", l)
  BY OwnLocals DEF Shape, RtNext
<1>2. l.todo \in SUBSET Node /\ l.pr \notin Pair
  BY <1>1 DEF LocalSet, Fits, OnLink
<1>3. ASSUME l.todo # {} PROVE n \in Node /\ rest \in LocalSet /\ Fits("rt_next", rest)
  <2>1. n \in Node
    BY <1>2, <1>3, LeastNode
  <2> HIDE DEF n
  <2> DEFINE rest2 == [l EXCEPT !.todo = @ \ {n}, !.n = n, !.bad = FALSE]
  <2>2. rest2 \in LocalSet /\ rest2.pr = l.pr
    BY <1>1, <2>1 DEF LocalSet
  <2>3. Fits("rt_next", rest2)
    BY <1>2, <2>2 DEF Fits, OnLink, OnNode
  <2> QED
    BY <2>1, <2>2, <2>3 DEF n
<1>4. ASSUME NEW want \in SUBSET Exit, l.todo # {}
      PROVE  /\ [rest EXCEPT !.known = Named, !.want = want] \in LocalSet
             /\ Fits("rt_list", [rest EXCEPT !.known = Named, !.want = want])
  <2>1. rest \in LocalSet /\ rest.n = n /\ rest.pr = l.pr /\ n \in Node
    BY <1>1, <1>3, <1>4 DEF LocalSet
  <2> HIDE DEF rest, n, l
  <2>2. [rest EXCEPT !.known = Named, !.want = want] \in LocalSet
    BY <2>1, SetsTyped DEF LocalSet
  <2>3. /\ [rest EXCEPT !.known = Named, !.want = want].n = n
        /\ [rest EXCEPT !.known = Named, !.want = want].pr = l.pr
    BY <2>1 DEF LocalSet
  <2> QED
    BY <1>2, <2>1, <2>2, <2>3 DEF Fits, OnLink
<1>5. CASE Finish(p) /\ UNCHANGED aims
  BY <1>5, FinishKeepsThreads, ExitStepTyped DEF Shape, ExitsOK, CountsOK, RtNext, exitOnly
<1>6. CASE l.todo # {} /\ Goto(p, "rt_next", rest) /\ UNCHANGED aims
  <2>1. ThreadsOK'
    <3> HIDE DEF rest
    <3> QED
      BY <1>3, <1>6, GotoKeepsThreads DEF Shape, Elsewhere
  <2> QED
    BY <1>6, <2>1, ExitStepTyped DEF Shape, ExitsOK, CountsOK, RtNext, exitOnly
<1>7. CASE /\ l.todo # {}
           /\ \E order \in Orders :
                LET want == Wanted(n, There, Adjacent, order)
                IN /\ aims' = Aimed(n, want)
                   /\ Goto(p, "rt_list", [rest EXCEPT !.known = Named, !.want = want])
  <2>1. PICK order \in Orders :
                   /\ aims' = Aimed(n, Wanted(n, There, Adjacent, order))
                   /\ Goto(p, "rt_list", [rest EXCEPT !.known = Named,
                                                      !.want = Wanted(n, There, Adjacent, order)])
    BY <1>7
  <2> DEFINE want == Wanted(n, There, Adjacent, order)
             k == [rest EXCEPT !.known = Named, !.want = want]
  <2>2. want \in SUBSET Exit /\ n \in Node
    BY <1>3, <1>7, WantedTyped, SetsTyped
  <2>3. ExitsOK'
    <3>1. aims' \in [Node -> Aims]
      BY <2>1, <2>2, AimedTyped DEF Shape
    <3> QED
      BY <3>1 DEF Shape, ExitsOK, RtNext
  <2>4. k \in LocalSet /\ Fits("rt_list", k)
    BY <1>4, <1>7, <2>2
  <2>5. Goto(p, "rt_list", k)
    BY <2>1
  <2>6. ThreadsOK'
    <3> HIDE DEF k
    <3> QED
      BY <2>4, <2>5, GotoKeepsThreads DEF Shape, OnNode
  <2> QED
    BY <2>3, <2>6, ExitStepTyped DEF Shape, CountsOK, RtNext, exitOnly
<1> QED
  BY <1>5, <1>6, <1>7 DEF RtNext

\* A set of exits stays one after `a exit` and `d exit`.
LEMMA CommandTyped ==
  ASSUME NEW S \in SUBSET Exit, NEW e \in Exit
  PROVE  WithExit(S, e) \in SUBSET Exit /\ WithoutKey(S, e) \in SUBSET Exit
  BY DEF WithExit, WithoutKey

\* Local variables change, the label does or does not, and the link stays.
LEMMA NewLocals ==
  ASSUME Shape, NEW p \in Proc, NEW label, NEW l, Goto(p, label, l),
         label \in {"rt_next", "rt_list", "rt_del", "rt_add", "rt_verify", "hand_add", "hand_del",
                    "clear_next", "clear_del"},
         l \in LocalSet, l.pr \notin Pair, label \in OnNode => l.n \in Node
  PROVE  ThreadsOK'
<1>1. Fits(label, l)
  BY DEF Fits, OnLink
<1>2. label \in OnLink \union OnNode \union Elsewhere
  BY DEF OnNode, Elsewhere
<1> QED
  BY <1>1, <1>2, GotoKeepsThreads DEF Shape

\* The thread works on the exits of its node n.
LEMMA AtNode ==
  ASSUME Shape, NEW p \in Proc,
         pc[p] \in {"rt_list", "rt_del", "rt_add", "rt_verify", "hand_add", "hand_del", "clear_del"}
  PROVE  /\ loc[p] \in LocalSet /\ loc[p].n \in Node /\ loc[p].pr \notin Pair
         /\ loc[p].want \in SUBSET Exit /\ loc[p].del \in SUBSET Exit /\ loc[p].add \in SUBSET Exit
         /\ exits[loc[p].n] \in SUBSET Exit
<1>1. loc[p] \in LocalSet /\ Fits(pc[p], loc[p])
  BY OwnLocals DEF Shape
<1>2. loc[p].n \in Node /\ loc[p].pr \notin Pair
  BY <1>1 DEF Fits, OnNode, OnLink
<1> QED
  BY <1>1, <1>2 DEF LocalSet, Shape, ExitsOK, Book

LEMMA RtListTyped ==
  ASSUME Shape, NEW p \in Proc, RtList(p)
  PROVE  Shape'
<1> DEFINE l == loc[p]
           k(live) == [l EXCEPT !.del = Stale(live, l.want), !.add = l.want \ live]
           Diff(live) == Goto(p, "rt_del", k(live))
<1>1. /\ l \in LocalSet /\ l.n \in Node /\ l.pr \notin Pair
      /\ l.want \in SUBSET Exit /\ exits[l.n] \in SUBSET Exit
  BY AtNode DEF RtList
<1>2. ASSUME NEW live \in SUBSET Exit, Diff(live)
      PROVE  ThreadsOK'
  <2>1. k(live) \in LocalSet /\ k(live).pr = l.pr /\ k(live).n = l.n
    BY <1>1 DEF LocalSet, Stale
  <2> HIDE DEF k
  <2> QED
    BY <1>1, <1>2, <2>1, NewLocals
<1>3. ThreadsOK'
  <2>1. CASE Diff(exits[l.n])
    BY <1>1, <1>2, <2>1
  <2>2. CASE Diff({})
    <3>1. {} \in SUBSET Exit
      OBVIOUS
    <3> HIDE DEF Diff
    <3> QED
      BY <1>2, <2>2, <3>1
  <2>3. CASE Finish(p)
    BY <2>3, FinishKeepsThreads DEF Shape
  <2>4. Diff(exits[l.n]) \/ Diff({}) \/ Finish(p)
    BY DEF RtList
  <2> HIDE DEF Diff
  <2> QED
    BY <2>1, <2>2, <2>3, <2>4
<1>4. ExitsOK'
  BY DisturbedTyped DEF Shape, ExitsOK, RtList
<1>5. faults' \in 0..MaxFaults
  BY FailsKeepsCounts DEF RtList, Shape
<1> QED
  BY <1>3, <1>4, <1>5, ExitStepTyped DEF RtList, exitOnly

LEMMA ApplyTyped ==
  ASSUME Shape, NEW p \in Proc, NEW label, NEW l, NEW after \in SUBSET Exit, Apply(p, label, after, l),
         label \in {"rt_del", "rt_add"}, l \in LocalSet, l.pr \notin Pair, l.n \in Node
  PROVE  ThreadsOK' /\ ExitsOK' /\ faults' \in 0..MaxFaults
<1>1. [l EXCEPT !.bad = TRUE] \in LocalSet
  BY DEF LocalSet
<1>2. [l EXCEPT !.bad = TRUE].pr = l.pr /\ [l EXCEPT !.bad = TRUE].n = l.n
  BY DEF LocalSet
<1>3. ThreadsOK'
  <2>1. CASE Goto(p, label, l)
    BY <2>1, NewLocals
  <2>2. CASE Goto(p, label, [l EXCEPT !.bad = TRUE])
    BY <2>2, <1>1, <1>2, NewLocals
  <2>3. CASE Finish(p)
    BY <2>3, FinishKeepsThreads DEF Shape
  <2> QED
    BY <2>1, <2>2, <2>3 DEF Apply
<1>4. ExitsOK'
  <2>1. aims' \in [Node -> Aims]
    BY DisturbedTyped DEF Shape, ExitsOK, Apply
  <2>2. exits' \in Book
    BY DEF Shape, ExitsOK, Apply, Book
  <2> QED
    BY <2>1, <2>2 DEF ExitsOK
<1> QED
  BY <1>3, <1>4, FailsKeepsCounts DEF Apply, Shape

LEMMA RtDeleteTyped ==
  ASSUME Shape, NEW p \in Proc, RtDelete(p)
  PROVE  Shape'
<1> DEFINE l == loc[p]
<1>1. /\ l \in LocalSet /\ l.n \in Node /\ l.pr \notin Pair
      /\ l.del \in SUBSET Exit /\ exits[l.n] \in SUBSET Exit
  BY AtNode DEF RtDelete
<1>2. ThreadsOK' /\ ExitsOK' /\ faults' \in 0..MaxFaults
  <2>1. ASSUME NEW e \in l.del,
               Apply(p, "rt_del", WithoutKey(exits[l.n], e), [l EXCEPT !.del = @ \ {e}])
        PROVE  ThreadsOK' /\ ExitsOK' /\ faults' \in 0..MaxFaults
    <3> DEFINE k == [l EXCEPT !.del = @ \ {e}]
    <3>1. k \in LocalSet /\ k.pr = l.pr /\ k.n = l.n
      BY <1>1 DEF LocalSet
    <3>2. WithoutKey(exits[l.n], e) \in SUBSET Exit
      BY <1>1, CommandTyped
    <3>3. Apply(p, "rt_del", WithoutKey(exits[l.n], e), k)
      BY <2>1
    <3> HIDE DEF k
    <3> QED
      BY <1>1, <3>1, <3>2, <3>3, ApplyTyped
  <2>2. ASSUME Goto(p, "rt_add", l) /\ NoFault /\ UNCHANGED <<exits, aims>>
        PROVE  ThreadsOK' /\ ExitsOK' /\ faults' \in 0..MaxFaults
    <3>1. ThreadsOK'
      BY <1>1, <2>2, NewLocals
    <3> QED
      BY <2>2, <3>1 DEF Shape, ExitsOK, CountsOK, NoFault
  <2> QED
    BY <2>1, <2>2 DEF RtDelete
<1> QED
  BY <1>2, ExitStepTyped DEF RtDelete, exitOnly

LEMMA RtAddTyped ==
  ASSUME Shape, NEW p \in Proc, RtAdd(p)
  PROVE  Shape'
<1> DEFINE l == loc[p]
<1>1. /\ l \in LocalSet /\ l.n \in Node /\ l.pr \notin Pair
      /\ l.add \in SUBSET Exit /\ exits[l.n] \in SUBSET Exit
  BY AtNode DEF RtAdd
<1>2. ThreadsOK' /\ ExitsOK' /\ faults' \in 0..MaxFaults
  <2>1. ASSUME NEW e \in l.add,
               Apply(p, "rt_add", WithExit(exits[l.n], e), [l EXCEPT !.add = @ \ {e}])
        PROVE  ThreadsOK' /\ ExitsOK' /\ faults' \in 0..MaxFaults
    <3> DEFINE k == [l EXCEPT !.add = @ \ {e}]
    <3>1. k \in LocalSet /\ k.pr = l.pr /\ k.n = l.n
      BY <1>1 DEF LocalSet
    <3>2. WithExit(exits[l.n], e) \in SUBSET Exit
      BY <1>1, CommandTyped
    <3>3. Apply(p, "rt_add", WithExit(exits[l.n], e), k)
      BY <2>1
    <3> HIDE DEF k
    <3> QED
      BY <1>1, <3>1, <3>2, <3>3, ApplyTyped
  <2>2. ASSUME Goto(p, "rt_verify", l) /\ NoFault /\ UNCHANGED <<exits, aims>>
        PROVE  ThreadsOK' /\ ExitsOK' /\ faults' \in 0..MaxFaults
    <3>1. ThreadsOK'
      BY <1>1, <2>2, NewLocals
    <3> QED
      BY <2>2, <3>1 DEF Shape, ExitsOK, CountsOK, NoFault
  <2> QED
    BY <2>1, <2>2 DEF RtAdd
<1> QED
  BY <1>2, ExitStepTyped DEF RtAdd, exitOnly

LEMMA RtVerifyTyped ==
  ASSUME Shape, NEW p \in Proc, RtVerify(p)
  PROVE  Shape'
<1> DEFINE l == loc[p]
           k(listed) == [l EXCEPT !.bad = ~Converged(l, listed)]
<1>1. l \in LocalSet /\ l.pr \notin Pair
  BY AtNode DEF RtVerify
<1>2. ASSUME NEW listed, Goto(p, "rt_next", k(listed))
      PROVE  ThreadsOK'
  <2>1. Converged(l, listed) \in BOOLEAN
    BY DEF Converged
  <2>2. k(listed) \in LocalSet /\ k(listed).pr = l.pr
    BY <1>1, <2>1 DEF LocalSet
  <2>3. "rt_next" \notin OnNode
    BY DEF OnNode
  <2> HIDE DEF k
  <2> QED
    BY <1>1, <1>2, <2>2, <2>3, NewLocals
<1>3. ThreadsOK'
  <2>1. CASE Goto(p, "rt_next", k(exits[l.n]))
    BY <1>2, <2>1
  <2>2. CASE Goto(p, "rt_next", k({}))
    BY <1>2, <2>2
  <2>3. CASE Finish(p)
    BY <2>3, FinishKeepsThreads DEF Shape
  <2> QED
    BY <2>1, <2>2, <2>3 DEF RtVerify
<1>4. ExitsOK'
  BY DisturbedTyped DEF Shape, ExitsOK, RtVerify
<1>5. faults' \in 0..MaxFaults
  BY FailsKeepsCounts DEF RtVerify, Shape
<1> QED
  BY <1>3, <1>4, <1>5, ExitStepTyped DEF RtVerify, exitOnly

LEMMA HandCallTyped ==
  ASSUME Shape, NEW p \in Proc, NEW n \in Node, NEW e \in Exit,
         AddExit(p, n, e) \/ ApplyRawExit(p, n, e) \/ DeleteExit(p, n, e)
  PROVE  Shape'
<1> DEFINE a == [NoLocal EXCEPT !.n = n, !.known = Named, !.add = {e}]
           d == [NoLocal EXCEPT !.n = n, !.known = Named, !.del = {e}]
<1>1. /\ a \in LocalSet /\ a.n = n /\ a.pr = NoLocal.pr
      /\ d \in LocalSet /\ d.n = n /\ d.pr = NoLocal.pr
  BY NoLocalTyped, SetsTyped DEF LocalSet
<1>2. NoLocal.pr \notin Pair
  BY PairFacts DEF NoLocal
<1>3. Goto(p, "hand_add", a) \/ Goto(p, "hand_del", d)
  BY DEF AddExit, ApplyRawExit, DeleteExit
<1> HIDE DEF a, d
<1>4. ThreadsOK'
  BY <1>1, <1>2, <1>3, NewLocals
<1>5. \E o : Begin(p, o) /\ UNCHANGED <<tables, liveOnly, aims>>
  BY DEF AddExit, ApplyRawExit, DeleteExit
<1> QED
  BY <1>4, <1>5, CallTyped

LEMMA ClearAllExitsTyped ==
  ASSUME Shape, NEW p \in Proc, ClearAllExits(p)
  PROVE  Shape'
<1> DEFINE l == [NoLocal EXCEPT !.todo = There, !.known = Named]
<1>1. l \in LocalSet /\ l.pr = NoLocal.pr
  BY NoLocalTyped, SetsTyped DEF LocalSet
<1>2. NoLocal.pr \notin Pair /\ "clear_next" \notin OnNode
  BY PairFacts DEF NoLocal, OnNode
<1>3. Goto(p, "clear_next", l)
  BY DEF ClearAllExits
<1> HIDE DEF l
<1>4. ThreadsOK'
  BY <1>1, <1>2, <1>3, NewLocals
<1> QED
  BY <1>4, CallTyped DEF ClearAllExits

LEMMA TryTyped ==
  ASSUME Shape, NEW p \in Proc, NEW after \in SUBSET Exit, NEW label, NEW l, Try(p, after, label, l),
         Goto(p, label, l) => ThreadsOK'
  PROVE  ThreadsOK' /\ ExitsOK' /\ faults' \in 0..MaxFaults
<1>1. ThreadsOK'
  BY FinishKeepsThreads DEF Try, Shape
<1>2. ExitsOK'
  <2>1. aims' \in [Node -> Aims]
    BY DisturbedTyped DEF Shape, ExitsOK, Try
  <2>2. exits' \in Book
    BY DEF Shape, ExitsOK, Try, Book
  <2> QED
    BY <2>1, <2>2 DEF ExitsOK
<1> QED
  BY <1>1, <1>2, FailsKeepsCounts DEF Try, Shape

LEMMA HandStepTyped ==
  ASSUME Shape, NEW p \in Proc, HandAdd(p) \/ HandDelete(p)
  PROVE  Shape'
<1>1. /\ loc[p].add \in SUBSET Exit /\ loc[p].del \in SUBSET Exit
      /\ exits[loc[p].n] \in SUBSET Exit
  BY AtNode DEF HandAdd, HandDelete
<1>2. PICK after \in SUBSET Exit : Try(p, after, "idle", NoLocal)
  <2>1. CASE HandAdd(p)
    BY <1>1, <2>1, CommandTyped DEF HandAdd
  <2>2. CASE HandDelete(p)
    BY <1>1, <2>2, CommandTyped DEF HandDelete
  <2> QED
    BY <2>1, <2>2
<1>3. Goto(p, "idle", NoLocal) => ThreadsOK'
  BY FinishKeepsThreads DEF Finish, Shape
<1>4. ThreadsOK' /\ ExitsOK' /\ faults' \in 0..MaxFaults
  BY <1>2, <1>3, TryTyped
<1> QED
  BY <1>4, ExitStepTyped DEF HandAdd, HandDelete, exitOnly

LEMMA ClearNextTyped ==
  ASSUME Shape, NEW p \in Proc, ClearNext(p)
  PROVE  Shape'
<1> DEFINE l == loc[p]
           n == Min(l.todo)
           k(live) == [l EXCEPT !.todo = @ \ {n}, !.n = n, !.del = live]
           Clear(live) == Goto(p, "clear_del", k(live))
<1>1. l \in LocalSet /\ l.todo \in SUBSET Node /\ l.pr \notin Pair
  <2>1. l \in LocalSet /\ Fits("clear_next", l)
    BY OwnLocals DEF Shape, ClearNext
  <2> QED
    BY <2>1 DEF Fits, OnLink, LocalSet
<1>2. ASSUME NEW live \in SUBSET Exit, Clear(live), l.todo # {}
      PROVE  ThreadsOK'
  <2>1. n \in Node
    BY <1>1, <1>2, LeastNode
  <2> HIDE DEF n
  <2>2. k(live) \in LocalSet /\ k(live).pr = l.pr /\ k(live).n = n
    BY <1>1, <2>1 DEF LocalSet
  <2> HIDE DEF k
  <2> QED
    BY <1>1, <1>2, <2>1, <2>2, NewLocals
<1>3. ThreadsOK'
  <2>1. ASSUME NEW live \in {exits[n], {}}, Clear(live), l.todo # {}
        PROVE  ThreadsOK'
    <3>1. live \in SUBSET Exit
      BY <1>1, <2>1, LeastNode DEF Shape, ExitsOK, Book
    <3> HIDE DEF Clear
    <3> QED
      BY <1>2, <2>1, <3>1
  <2>2. CASE Finish(p)
    BY <2>2, FinishKeepsThreads DEF Shape
  <2>3. (l.todo # {} /\ \E live \in {exits[n], {}} : Clear(live)) \/ Finish(p)
    BY DEF ClearNext
  <2> HIDE DEF Clear
  <2> QED
    BY <2>1, <2>2, <2>3
<1>4. ExitsOK'
  BY DEF Shape, ExitsOK, ClearNext
<1>5. faults' \in 0..MaxFaults
  BY FailsKeepsCounts DEF ClearNext, Shape
<1> QED
  BY <1>3, <1>4, <1>5, ExitStepTyped DEF ClearNext, exitOnly

LEMMA ClearDeleteTyped ==
  ASSUME Shape, NEW p \in Proc, ClearDelete(p)
  PROVE  Shape'
<1> DEFINE l == loc[p]
<1>1. /\ l \in LocalSet /\ l.n \in Node /\ l.pr \notin Pair
      /\ l.del \in SUBSET Exit /\ exits[l.n] \in SUBSET Exit
  BY AtNode DEF ClearDelete
<1>2. ThreadsOK' /\ ExitsOK' /\ faults' \in 0..MaxFaults
  <2>1. ASSUME NEW e \in l.del,
               Try(p, WithoutKey(exits[l.n], e), "clear_del", [l EXCEPT !.del = @ \ {e}])
        PROVE  ThreadsOK' /\ ExitsOK' /\ faults' \in 0..MaxFaults
    <3> DEFINE k == [l EXCEPT !.del = @ \ {e}]
    <3>1. k \in LocalSet /\ k.pr = l.pr /\ k.n = l.n
      BY <1>1 DEF LocalSet
    <3>2. WithoutKey(exits[l.n], e) \in SUBSET Exit
      BY <1>1, CommandTyped
    <3>3. Try(p, WithoutKey(exits[l.n], e), "clear_del", k)
      BY <2>1
    <3> HIDE DEF k
    <3>4. Goto(p, "clear_del", k) => ThreadsOK'
      BY <1>1, <3>1, NewLocals
    <3> QED
      BY <3>2, <3>3, <3>4, TryTyped
  <2>2. ASSUME Goto(p, "clear_next", l) /\ NoFault /\ UNCHANGED <<exits, aims>>
        PROVE  ThreadsOK' /\ ExitsOK' /\ faults' \in 0..MaxFaults
    <3>1. ThreadsOK'
      BY <1>1, <2>2, NewLocals
    <3> QED
      BY <2>2, <3>1 DEF Shape, ExitsOK, CountsOK, NoFault
  <2> QED
    BY <2>1, <2>2 DEF ClearDelete
<1> QED
  BY <1>2, ExitStepTyped DEF ClearDelete, exitOnly

LEMMA ExitRoutesTyped ==
  ASSUME Shape, NEW p \in Proc, ExitCall(p) \/ ExitStep(p)
  PROVE  Shape'
<1>1. HandExit \subseteq Exit
  BY HandExitAssumption DEF Exit
<1> QED
  BY <1>1, SetAllExitsTyped, ClearAllExitsTyped, SetNodeExitsTyped, HandCallTyped, RtNextTyped,
     RtListTyped, RtDeleteTyped, RtAddTyped, RtVerifyTyped, HandStepTyped, ClearNextTyped,
     ClearDeleteTyped
  DEF ExitCall, ExitStep

-----------------------------------------------------------------------------

LEMMA LookTyped ==
  ASSUME Shape, NEW p \in Proc, NEW pr \in Pair, NEW m \in AnyNetem, NEW o,
         NEW label \in {"tc_replace", "tc_del"}, label = "tc_del" => m = NoNetem,
         Begin(p, o), Look(p, pr, m, label)
  PROVE  Shape'
<1> DEFINE l == [NoLocal EXCEPT !.pr = pr, !.made = links[pr].made, !.idx = links[pr].idx,
                                !.netem = m, !.known = Named]
<1>1. l \in LocalSet /\ l.pr = pr /\ l.netem = m
  <2>1. links[pr].made \in Nat /\ links[pr].idx \in Index
    BY DEF Shape, TablesOK, LinkRec
  <2> QED
    BY <2>1, NoLocalTyped, SetsTyped DEF LocalSet
<1>2. Goto(p, label, l)
  BY DEF Look
<1> HIDE DEF l
<1>3. Fits(label, l)
  BY <1>1 DEF Fits, OnLink, OnNode
<1>4. ThreadsOK'
  BY <1>1, <1>2, <1>3, GotoKeepsThreads DEF Shape, OnLink
<1> QED
  BY <1>4, CallTyped DEF Look

LEMMA OtherLink ==
  ASSUME Shape, NEW p \in Proc, pc[p] \in OnLink
  PROVE  /\ loc[p] \in LocalSet /\ loc[p].pr \in Pair /\ loc[p].side \in Side
         /\ loc[p].netem \in AnyNetem
         /\ pc[p] \in {"tc_del", "restored"} => loc[p].netem = NoNetem
<1>1. loc[p] \in LocalSet /\ Fits(pc[p], loc[p])
  BY OwnLocals DEF Shape
<1> QED
  BY <1>1 DEF LocalSet, Fits

LEMMA TcTyped ==
  ASSUME Shape, NEW p \in Proc, Tc(p)
  PROVE  Shape'
<1> DEFINE l == loc[p]
           n == At(l.pr, l.side)
           Then(k) == IF l.side = "a" THEN Goto(p, pc[p], [k EXCEPT !.side = "b"])
                      ELSE Goto(p, IF pc[p] = "tc_del" THEN "restored" ELSE "disrupted", k)
<1>0. pc[p] \in {"tc_replace", "tc_del"}
  BY DEF Tc
<1>1. /\ l \in LocalSet /\ l.pr \in Pair /\ l.side \in Side /\ l.netem \in AnyNetem
      /\ pc[p] = "tc_del" => l.netem = NoNetem
  BY <1>0, OtherLink DEF OnLink
<1>2. ASSUME NEW k \in LocalSet, k.pr = l.pr, k.netem = l.netem, Then(k)
      PROVE  ThreadsOK'
  <2>1. CASE l.side = "a"
    <3> DEFINE j == [k EXCEPT !.side = "b"]
    <3>1. j \in LocalSet /\ j.pr = l.pr /\ j.netem = l.netem
      BY <1>2 DEF LocalSet, Side
    <3>2. Goto(p, pc[p], j)
      BY <1>2, <2>1
    <3> HIDE DEF j, l
    <3>3. Fits(pc[p], j)
      BY <1>0, <1>1, <3>1 DEF Fits, OnLink, OnNode
    <3> QED
      BY <1>0, <3>1, <3>2, <3>3, GotoKeepsThreads DEF Shape, OnLink
  <2>2. CASE l.side # "a"
    <3> DEFINE label == IF pc[p] = "tc_del" THEN "restored" ELSE "disrupted"
    <3>1. Goto(p, label, k)
      BY <1>2, <2>2
    <3>2. label \in OnLink /\ label \notin OnNode
      BY DEF OnLink, OnNode
    <3>3. Fits(label, k)
      BY <1>0, <1>1, <1>2, <3>2 DEF Fits, OnLink
    <3> HIDE DEF label, l
    <3> QED
      BY <1>2, <3>1, <3>2, <3>3, GotoKeepsThreads DEF Shape
  <2> QED
    BY <2>1, <2>2
<1>3. ThreadsOK'
  <2> DEFINE b == [l EXCEPT !.bad = TRUE]
  <2>1. b \in LocalSet /\ b.pr = l.pr /\ b.netem = l.netem
    BY <1>1 DEF LocalSet
  <2>2. Then(l) \/ Then(b) \/ Finish(p)
    BY DEF Tc
  <2>3. CASE Finish(p)
    BY <2>3, FinishKeepsThreads DEF Shape
  <2> HIDE DEF Then, b
  <2> QED
    BY <1>1, <1>2, <2>1, <2>2, <2>3
<1>4. TcOK'
  <2>1. CASE UNCHANGED tc
    BY <2>1 DEF Shape, TcOK
  <2>2. CASE \E pr \in Interface(n, l.idx, l.side) : tc' = [tc EXCEPT ![pr][l.side] = TcArgs(l.netem)]
    <3>1. PICK pr \in Pair : tc' = [tc EXCEPT ![pr][l.side] = TcArgs(l.netem)]
      BY <2>2 DEF Interface, LinkNames
    <3>2. TcArgs(l.netem) \in Qdisc
      BY <1>1, QdiscTyped
    <3> QED
      BY <1>1, <3>1, <3>2 DEF Shape, TcOK
  <2> QED
    BY <2>1, <2>2 DEF Tc
<1>5. faults' \in 0..MaxFaults
  BY FailsKeepsCounts DEF Tc, Shape
<1> QED
  BY <1>3, <1>4, <1>5
  DEF Shape, TablesOK, ExitsOK, DocumentOK, CountsOK, StampsOK, Tc, tables

LEMMA WrittenTyped ==
  ASSUME Shape, NEW p \in Proc, pc[p] \in {"disrupted", "restored"}, NEW st \in LinkState,
         links' = Written(loc[p], st)
  PROVE  /\ links' \in [Pair -> LinkRec]
         /\ \A pr \in Pair : links'[pr].made = links[pr].made
<1>1. loc[p].pr \in Pair /\ loc[p].netem \in AnyNetem
  BY OtherLink DEF OnLink
<1>2. links \in [Pair -> LinkRec]
  BY DEF Shape, TablesOK
<1> DEFINE l == loc[p]
<1>3. CASE links[l.pr].made # l.made
  BY <1>2, <1>3 DEF Written
<1>4. CASE links[l.pr].made = l.made
  <2>1. links' = [links EXCEPT ![l.pr].st = st, ![l.pr].netem = l.netem]
    BY <1>4 DEF Written
  <2>2. links' = [links EXCEPT ![l.pr] = [links[l.pr] EXCEPT !.st = st, !.netem = l.netem]]
    BY <1>1, <1>2, <2>1
  <2>3. /\ [links[l.pr] EXCEPT !.st = st, !.netem = l.netem] \in LinkRec
        /\ [links[l.pr] EXCEPT !.st = st, !.netem = l.netem].made = links[l.pr].made
    BY <1>1, <1>2 DEF LinkRec
  <2> QED
    BY <1>1, <1>2, <2>2, <2>3
<1> QED
  BY <1>3, <1>4

LEMMA DoneTyped ==
  ASSUME Shape, NEW p \in Proc, DisruptDone(p) \/ RestoreDone(p)
  PROVE  Shape'
<1>1. PICK st \in LinkState : links' = Written(loc[p], st)
  BY DEF DisruptDone, RestoreDone, DisruptedStatus, LinkState
<1>2. TablesOK' /\ StampsOK'
  BY <1>1, WrittenTyped DEF Shape, TablesOK, StampsOK, DisruptDone, RestoreDone
<1>3. ThreadsOK'
  BY FinishKeepsThreads DEF Shape, DisruptDone, RestoreDone
<1> QED
  BY <1>2, <1>3
  DEF Shape, ExitsOK, TcOK, DocumentOK, CountsOK, DisruptDone, RestoreDone, liveOnly

LEMMA DisruptionTyped ==
  ASSUME Shape, NEW p \in Proc, DisruptCall(p) \/ DisruptStep(p)
  PROVE  Shape'
<1>1. ASSUME NEW pr \in Pair, RestoreLink(p, pr) PROVE Shape'
  BY <1>1, LookTyped DEF RestoreLink, AnyNetem
<1>2. ASSUME NEW pr \in Pair, NEW m \in Netem, DisruptLink(p, pr, m) PROVE Shape'
  BY <1>2, LookTyped DEF DisruptLink, AnyNetem
<1> QED
  BY <1>1, <1>2, TcTyped, DoneTyped DEF DisruptCall, DisruptStep

-----------------------------------------------------------------------------

\* A step that hands out, or prepares to hand out, a document.
LEMMA DocStepTyped ==
  ASSUME Shape, UNCHANGED docOnly, faults' \in 0..MaxFaults, ThreadsOK', DocumentOK'
  PROVE  Shape'
  BY DEF Shape, TablesOK, ExitsOK, TcOK, CountsOK, StampsOK, docOnly, tables

LEMMA ListingTyped ==
  ASSUME Shape, NEW n \in Node
  PROVE  Listing(n) \in SUBSET Exit
  BY DEF Shape, ExitsOK, Book, Listing

\* The step of a list that is not at its end: the exits of a node are noted.
LEMMA TakeTyped ==
  ASSUME Shape, NEW p \in Proc, NEW found, NEW bad \in BOOLEAN,
         pc[p] \in {"export", "config", "bundle"}, loc[p].todo # {},
         found \in {Listing(Min(loc[p].todo)), {}},
         Goto(p, pc[p], [loc[p] EXCEPT !.todo = @ \ {Min(loc[p].todo)},
                                       !.doc.exits[Min(loc[p].todo)] = found, !.bad = bad])
  PROVE  ThreadsOK'
<1> DEFINE l == loc[p]
           n == Min(l.todo)
           book == [l.doc.exits EXCEPT ![n] = found]
           d == [l.doc EXCEPT !.exits = book]
           k == [l EXCEPT !.todo = @ \ {n}, !.doc = d, !.bad = bad]
<1>1. l \in LocalSet /\ Fits(pc[p], l) /\ l.pr \notin Pair
  <2>1. l \in LocalSet /\ Fits(pc[p], l)
    BY OwnLocals DEF Shape
  <2> QED
    BY <2>1 DEF Fits, OnLink
<1>2. n \in Node /\ found \in SUBSET Exit
  <2>1. n \in Node
    BY <1>1, LeastNode DEF LocalSet
  <2> HIDE DEF n
  <2>2. {} \in SUBSET Exit
    OBVIOUS
  <2> QED
    BY <2>1, <2>2, ListingTyped DEF n
<1>3. Goto(p, pc[p], k)
  OBVIOUS
<1>4. /\ pc[p] = "export" => l.doc \in FileDraft
      /\ pc[p] = "config" => l.doc \in ConfigDraft /\ l.n \in Node
      /\ pc[p] = "bundle" => l.doc \in BundleDraft
  BY <1>1 DEF Fits, OnNode
<1> HIDE DEF n
<1>5. l.doc.exits \in Book => book \in Book
  BY <1>2 DEF Book
<1> HIDE DEF book
<1>6. /\ pc[p] = "export" => d \in FileDraft
      /\ pc[p] = "config" => d \in ConfigDraft
      /\ pc[p] = "bundle" => d \in BundleDraft
  <2>1. CASE pc[p] = "export"
    BY <1>4, <1>5, <2>1 DEF FileDraft
  <2>2. CASE pc[p] = "config"
    BY <1>4, <1>5, <2>2 DEF ConfigDraft
  <2>3. CASE pc[p] = "bundle"
    BY <1>4, <1>5, <2>3 DEF BundleDraft
  <2> QED
    BY <2>1, <2>2, <2>3
<1>7. d \in Draft
  BY <1>6 DEF Draft
<1> HIDE DEF d
<1>8. k \in LocalSet /\ k.doc = d /\ k.pr = l.pr /\ k.n = l.n
  BY <1>1, <1>7 DEF LocalSet
<1> HIDE DEF k, l
<1>9. Fits(pc[p], k)
  BY <1>1, <1>4, <1>6, <1>8 DEF Fits, OnLink, OnNode
<1> QED
  BY <1>3, <1>8, <1>9, GotoKeepsThreads DEF Shape, OnNode, Elsewhere

LEMMA ExportStepTyped ==
  ASSUME Shape, NEW p \in Proc, ExportStep(p)
  PROVE  Shape'
<1> DEFINE l == loc[p]
           n == Min(l.todo)
           Take(found, bad) == Goto(p, "export", [l EXCEPT !.todo = @ \ {n},
                                                           !.doc.exits[n] = found, !.bad = bad])
<1>1. l \in LocalSet /\ l.doc \in FileDraft
  <2>1. l \in LocalSet /\ Fits("export", l)
    BY OwnLocals DEF Shape, ExportStep, ListNext
  <2> QED
    BY <2>1 DEF Fits
<1>2. CASE l.todo # {} /\ Take(Listing(n), l.bad) /\ NoFault /\ UNCHANGED document
  <2>1. ThreadsOK'
    BY <1>1, <1>2, TakeTyped DEF ExportStep, ListNext, LocalSet
  <2> QED
    BY <1>2, <2>1, DocStepTyped DEF ExportStep, ListNext, Shape, CountsOK, NoFault, DocumentOK
<1>3. CASE l.todo # {} /\ Fails("list") /\ Take({}, TRUE) /\ UNCHANGED document
  <2>1. ThreadsOK'
    BY <1>3, TakeTyped DEF ExportStep, ListNext
  <2>2. faults' \in 0..MaxFaults
    BY <1>3, FailsKeepsCounts DEF Shape
  <2> QED
    BY <1>3, <2>1, <2>2, DocStepTyped DEF ExportStep, ListNext, Shape, DocumentOK
<1>4. CASE l.todo = {} /\ NoFault /\ WriteFile(p, l)
  <2>1. ThreadsOK'
    BY <1>4, FinishKeepsThreads DEF Shape, WriteFile
  <2>2. document'.exits = l.doc.exits
    BY <1>4 DEF WriteFile
  <2>3. DocumentOK'
    BY <1>1, <2>2 DEF DocumentOK, FileDraft
  <2> QED
    BY <1>4, <2>1, <2>3, DocStepTyped DEF ExportStep, ListNext, Shape, CountsOK, NoFault
<1> QED
  BY <1>2, <1>3, <1>4 DEF ExportStep, ListNext

LEMMA ConfigStepTyped ==
  ASSUME Shape, NEW p \in Proc, ConfigStep(p)
  PROVE  Shape'
<1> DEFINE l == loc[p]
           n == Min(l.todo)
           Take(found, bad) == Goto(p, "config", [l EXCEPT !.todo = @ \ {n},
                                                           !.doc.exits[n] = found, !.bad = bad])
<1>1. l \in LocalSet
  BY OwnLocals DEF Shape
<1>2. CASE l.todo # {} /\ Take(Listing(n), l.bad) /\ NoFault /\ UNCHANGED document
  <2>1. ThreadsOK'
    BY <1>1, <1>2, TakeTyped DEF ConfigStep, ListNext, LocalSet
  <2> QED
    BY <1>2, <2>1, DocStepTyped DEF ConfigStep, ListNext, Shape, CountsOK, NoFault, DocumentOK
<1>3. CASE l.todo # {} /\ Fails("list") /\ Take({}, TRUE) /\ UNCHANGED document
  <2>1. ThreadsOK'
    BY <1>3, TakeTyped DEF ConfigStep, ListNext
  <2>2. faults' \in 0..MaxFaults
    BY <1>3, FailsKeepsCounts DEF Shape
  <2> QED
    BY <1>3, <2>1, <2>2, DocStepTyped DEF ConfigStep, ListNext, Shape, DocumentOK
<1>4. CASE l.todo = {} /\ NoFault /\ ShowConfig(p, l)
  <2>1. ThreadsOK'
    BY <1>4, FinishKeepsThreads DEF Shape, ShowConfig
  <2>2. document'.kind = "config"
    BY <1>4 DEF ShowConfig
  <2>3. DocumentOK'
    BY <2>2 DEF DocumentOK
  <2> QED
    BY <1>4, <2>1, <2>3, DocStepTyped DEF ConfigStep, ListNext, Shape, CountsOK, NoFault
<1> QED
  BY <1>2, <1>3, <1>4 DEF ConfigStep, ListNext

LEMMA BundleStepTyped ==
  ASSUME Shape, NEW p \in Proc, BundleStep(p)
  PROVE  Shape'
<1> DEFINE l == loc[p]
           n == Min(l.todo)
           Take(found, bad) == Goto(p, "bundle", [l EXCEPT !.todo = @ \ {n},
                                                           !.doc.exits[n] = found, !.bad = bad])
<1>1. l \in LocalSet
  BY OwnLocals DEF Shape
<1>2. CASE l.todo # {} /\ Take(Listing(n), l.bad) /\ NoFault /\ UNCHANGED document
  <2>1. ThreadsOK'
    BY <1>1, <1>2, TakeTyped DEF BundleStep, ListNext, LocalSet
  <2> QED
    BY <1>2, <2>1, DocStepTyped DEF BundleStep, ListNext, Shape, CountsOK, NoFault, DocumentOK
<1>3. CASE l.todo # {} /\ Fails("list") /\ Take({}, TRUE) /\ UNCHANGED document
  <2>1. ThreadsOK'
    BY <1>3, TakeTyped DEF BundleStep, ListNext
  <2>2. faults' \in 0..MaxFaults
    BY <1>3, FailsKeepsCounts DEF Shape
  <2> QED
    BY <1>3, <2>1, <2>2, DocStepTyped DEF BundleStep, ListNext, Shape, DocumentOK
<1>4. CASE l.todo = {} /\ NoFault /\ PackBundle(p, l)
  <2>1. ThreadsOK'
    BY <1>4, FinishKeepsThreads DEF Shape, PackBundle
  <2>2. document'.kind = "bundle"
    BY <1>4 DEF PackBundle
  <2>3. DocumentOK'
    BY <2>2 DEF DocumentOK
  <2> QED
    BY <1>4, <2>1, <2>3, DocStepTyped DEF BundleStep, ListNext, Shape, CountsOK, NoFault
<1> QED
  BY <1>2, <1>3, <1>4 DEF BundleStep, ListNext

LEMMA NoExitsTyped == NoExits \in Book
  BY DEF NoExits, Book

LEMMA ExportScenarioTyped ==
  ASSUME Shape, NEW p \in Proc, ExportScenario(p)
  PROVE  Shape'
<1> DEFINE d == [kind |-> "file", nodes |-> There, exits |-> NoExits]
           l == [NoLocal EXCEPT !.todo = There, !.doc = d]
<1>1. d \in FileDraft
  BY SetsTyped, NoExitsTyped DEF FileDraft
<1>2. d \in Draft
  BY <1>1 DEF Draft
<1> HIDE DEF d
<1>3. l \in LocalSet /\ l.doc = d /\ l.pr = NoLocal.pr
  BY <1>2, NoLocalTyped, SetsTyped DEF LocalSet
<1>4. Goto(p, "export", l)
  BY DEF ExportScenario, d
<1> HIDE DEF l
<1>5. Fits("export", l)
  BY <1>1, <1>3, PairFacts DEF Fits, OnLink, OnNode, NoLocal
<1>6. ThreadsOK'
  BY <1>3, <1>4, <1>5, GotoKeepsThreads DEF Shape, Elsewhere
<1> QED
  BY <1>6, CallTyped DEF ExportScenario

LEMMA GetNodeConfigTyped ==
  ASSUME Shape, NEW p \in Proc, NEW n \in Node, GetNodeConfig(p, n)
  PROVE  Shape'
<1> DEFINE d == [nbs |-> LiveNeighbours(n), exits |-> NoExits]
           l == [NoLocal EXCEPT !.n = n, !.todo = {n}, !.doc = d]
<1>0. LiveNeighbours(n) \in SUBSET Neighbour
  <2>1. ASSUME NEW x \in LinkNames \X Side
        PROVE  [peer |-> At(x[1], Other(x[2])), cl |-> links[x[1]].cl,
                ip |-> <<links[x[1]].idx, Other(x[2])>>] \in Neighbour
    <3>1. x[1] \in Pair /\ Other(x[2]) \in Side
      BY DEF LinkNames, Other, Side
    <3>2. links[x[1]].cl \in CL /\ links[x[1]].idx \in Index
      BY <3>1 DEF Shape, TablesOK, LinkRec
    <3>3. At(x[1], Other(x[2])) \in Node
      BY <3>1, EndTyped
    <3> QED
      BY <3>1, <3>2, <3>3 DEF Neighbour
  <2> QED
    BY <2>1 DEF LiveNeighbours
<1>1. d \in ConfigDraft
  BY <1>0, NoExitsTyped DEF ConfigDraft
<1>2. d \in Draft
  BY <1>1 DEF Draft
<1> HIDE DEF d
<1>3. l \in LocalSet /\ l.doc = d /\ l.pr = NoLocal.pr /\ l.n = n
  BY <1>2, NoLocalTyped DEF LocalSet
<1>4. Goto(p, "config", l)
  BY DEF GetNodeConfig, d
<1> HIDE DEF l
<1>5. Fits("config", l)
  BY <1>1, <1>3, PairFacts DEF Fits, OnLink, OnNode, NoLocal
<1>6. ThreadsOK'
  BY <1>3, <1>4, <1>5, GotoKeepsThreads DEF Shape, OnNode
<1> QED
  BY <1>6, CallTyped DEF GetNodeConfig

LEMMA ExportBundleTyped ==
  ASSUME Shape, NEW p \in Proc, ExportBundle(p)
  PROVE  Shape'
<1> DEFINE d == [nodes |-> There]
           l == [NoLocal EXCEPT !.doc = d]
<1>1. d \in NodesDraft
  BY SetsTyped DEF NodesDraft
<1>2. d \in Draft
  BY <1>1 DEF Draft
<1> HIDE DEF d
<1>3. l \in LocalSet /\ l.doc = d /\ l.pr = NoLocal.pr
  BY <1>2, NoLocalTyped DEF LocalSet
<1>4. Goto(p, "bundle_links", l)
  BY DEF ExportBundle, d
<1> HIDE DEF l
<1>5. Fits("bundle_links", l)
  BY <1>1, <1>3, PairFacts DEF Fits, OnLink, OnNode, NoLocal
<1>6. ThreadsOK'
  BY <1>3, <1>4, <1>5, GotoKeepsThreads DEF Shape, Elsewhere
<1> QED
  BY <1>6, CallTyped DEF ExportBundle

LEMMA BundleLinksTyped ==
  ASSUME Shape, NEW p \in Proc, BundleLinks(p)
  PROVE  Shape'
<1> DEFINE l == loc[p]
           net == {[pr |-> pr, cl |-> links[pr].cl] : pr \in LinkNames}
           d == [nodes |-> l.doc.nodes, net |-> net, exits |-> NoExits]
           k == [l EXCEPT !.todo = l.doc.nodes, !.doc = d]
<1>1. l \in LocalSet /\ l.doc \in NodesDraft /\ l.pr \notin Pair
  <2>1. l \in LocalSet /\ Fits("bundle_links", l)
    BY OwnLocals DEF Shape, BundleLinks
  <2> QED
    BY <2>1 DEF Fits, OnLink
<1>2. l.doc.nodes \in SUBSET Node
  BY <1>1 DEF NodesDraft
<1>3. net \in SUBSET [pr : Pair, cl : CL]
  BY DEF LinkNames, Shape, TablesOK, LinkRec
<1> HIDE DEF net
<1>4. d \in BundleDraft
  BY <1>2, <1>3, NoExitsTyped DEF BundleDraft
<1>5. d \in Draft
  BY <1>4 DEF Draft
<1>6. Goto(p, "bundle", k) \/ Finish(p)
  BY DEF BundleLinks, net
<1> HIDE DEF d
<1>7. k \in LocalSet /\ k.doc = d /\ k.pr = l.pr
  BY <1>1, <1>2, <1>5 DEF LocalSet
<1> HIDE DEF k, l
<1>8. Fits("bundle", k)
  BY <1>1, <1>4, <1>7 DEF Fits, OnLink, OnNode
<1>9. ThreadsOK'
  BY <1>6, <1>7, <1>8, GotoKeepsThreads, FinishKeepsThreads DEF Shape, Elsewhere
<1> QED
  BY <1>9, DocStepTyped DEF BundleLinks, Shape, CountsOK, DocumentOK

LEMMA DocumentsTyped ==
  ASSUME Shape, NEW p \in Proc, DocCall(p) \/ DocStep(p)
  PROVE  Shape'
  BY ExportScenarioTyped, GetNodeConfigTyped, ExportBundleTyped, BundleLinksTyped,
     ExportStepTyped, ConfigStepTyped, BundleStepTyped
  DEF DocCall, DocStep

-----------------------------------------------------------------------------
(* The type invariant *)

LEMMA RawCallTyped ==
  ASSUME Shape, NEW p \in Proc, RawCall(p)
  PROVE  Shape'
<1>1. PICK n \in Node : \E e \in document.exits[n] : ApplyRawExit(p, n, e)
  BY DEF RawCall
<1>2. PICK e \in document.exits[n] : ApplyRawExit(p, n, e)
  BY <1>1
<1>3. e \in Exit
  BY DEF RawCall, Shape, DocumentOK, Book
<1> QED
  BY <1>2, <1>3, HandCallTyped

LEMMA LifeTyped ==
  ASSUME Shape, NEW p \in Proc, LifeCall(p) \/ LifeStep(p)
  PROVE  Shape'
  BY NodeReservedTyped, NodeMadeTyped, LinkReservedTyped, LinkMadeTyped, DeleteLinkTyped,
     DeleteNodeTyped, GoneNextTyped, NetGoneTyped, LinkPoppedTyped, ContainerGoneTyped, NodeDroppedTyped
  DEF LifeCall, LifeStep

LEMMA StepTyped ==
  ASSUME Shape, [Next]_liveVars
  PROVE  Shape'
<1>1. CASE UNCHANGED liveVars
  BY <1>1 DEF liveVars, vars, Shape, TablesOK, ExitsOK, TcOK, DocumentOK, ThreadsOK, CountsOK, StampsOK
<1>2. CASE Next
  BY <1>2, LifeTyped, ExitRoutesTyped, DisruptionTyped, DocumentsTyped, RawCallTyped,
     ContainerExitsTyped
  DEF Next, Call, Step
<1> QED
  BY <1>1, <1>2

LEMMA InitTyped ==
  ASSUME Init
  PROVE  Shape
<1>1. PICK s \in Scenes :
         /\ nodes = [n \in Node |-> IF n \in s.nodes THEN "named" ELSE "absent"]
         /\ \E order \in Orders :
              LET was == [n \in Node |-> {m \in Node : s.was \intersect {<<m, n>>, <<n, m>>} # {}}]
              IN exits = [n \in Node |-> IF n \in s.nodes THEN Wanted(n, s.nodes, was, order) ELSE {}]
         /\ links = [pr \in Pair |->
                       IF pr \notin s.now THEN NoLink
                       ELSE [NoLink EXCEPT !.made = 1, !.st = "up",
                                           !.idx = Cardinality({q \in s.now : Before(q, pr)})]]
         /\ may = s.may
         /\ started = MaxOps - s.calls
  BY DEF Init
<1>2. s.nodes \in SUBSET Node /\ s.calls \in 0..MaxOps /\ s.now \subseteq Pair
  BY SceneAssumption
<1>3. CountsOK
  <2>1. MaxOps - s.calls \in 0..MaxOps /\ 0 \in 0..MaxFaults
    BY <1>2, BoundAssumption
  <2>2. faults = 0
    BY DEF Init
  <2> QED
    BY <1>1, <2>1, <2>2 DEF CountsOK
<1>4. ASSUME NEW pr \in Pair
      PROVE  Cardinality({q \in s.now : Before(q, pr)}) \in Index
  <2>1. /\ IsFiniteSet({q \in s.now : Before(q, pr)})
        /\ Cardinality({q \in s.now : Before(q, pr)}) <= Cardinality(Pair)
    BY <1>2, PairFacts, FS_Subset
  <2> QED
    BY <2>1, PairFacts, FS_CardinalityType DEF Index
<1>5. TablesOK
  <2>1. \A pr \in Pair : [NoLink EXCEPT !.made = 1, !.st = "up",
                                           !.idx = Cardinality({q \in s.now : Before(q, pr)})] \in LinkRec
    BY <1>4, NoLinkTyped DEF LinkRec, LinkState
  <2>2. links \in [Pair -> LinkRec]
    BY <1>1, <2>1, NoLinkTyped
  <2> QED
    BY <1>1, <2>2 DEF TablesOK, NodeState
<1>6. StampsOK
  <2>1. NoLink.made = 0
    BY DEF NoLink
  <2>2. \A pr \in Pair : links[pr].made \in {0, 1}
    BY <1>1, <2>1, NoLinkTyped DEF LinkRec
  <2> QED
    BY <1>3, <2>2 DEF StampsOK, CountsOK
<1>7. ExitsOK
  <2>1. PICK order \in Orders :
         exits = [n \in Node |-> IF n \in s.nodes
                    THEN Wanted(n, s.nodes, [k \in Node |->
                           {m \in Node : s.was \intersect {<<m, k>>, <<k, m>>} # {}}], order)
                    ELSE {}]
    BY <1>1
  <2> DEFINE was == [k \in Node |-> {m \in Node : s.was \intersect {<<m, k>>, <<k, m>>} # {}}]
  <2>2. was \in [Node -> SUBSET Node]
    OBVIOUS
  <2> HIDE DEF was
  <2>3. \A n \in Node : Wanted(n, s.nodes, was, order) \in SUBSET Exit
    BY <1>2, <2>2, WantedTyped
  <2>4. exits \in Book
    BY <2>1, <2>3 DEF was, Book
  <2>5. aims \in [Node -> Aims]
    BY DEF Init, NoAims, Aims
  <2> QED
    BY <2>4, <2>5 DEF ExitsOK
<1>8. ThreadsOK
  BY NoLocalTyped, NoLocalFits DEF Init, ThreadsOK, Elsewhere
<1>9. TcOK
  BY QdiscTyped DEF Init, TcOK
<1> QED
  BY <1>3, <1>5, <1>6, <1>7, <1>8, <1>9 DEF Shape, DocumentOK, Init

LEMMA ShapeHolds == Spec => []Shape
<1>1. Init => Shape
  BY InitTyped
<1>2. Shape /\ [Next]_liveVars => Shape'
  BY StepTyped
<1> QED
  BY <1>1, <1>2, PTL DEF Spec

\* The variables keep their types, whatever the scenes and the number of threads
\* and calls: the exits that reconciliations aim at are exits, the pool always has
\* an index to issue, and every link is stamped by a call that was made.
THEOREM TypeCorrect == Spec => []TypeOK
<1> DEFINE History1 == touched \subseteq Proc /\ torn \subseteq Pair
<1>1. Init => History1
  BY DEF Init
<1>2. History1 /\ [Next]_liveVars => History1'
  BY DEF Next, History, liveVars, vars
<1>3. Shape /\ History1 => TypeOK
  <2> SUFFICES ASSUME Shape, History1 PROVE TypeOK
    OBVIOUS
  <2>1. \A pr \in Pair :
       /\ links[pr].made \in 0..(MaxOps + 2) /\ links[pr].idx \in Index
       /\ links[pr].st \in {"up", "down", "degraded", "error"}
       /\ links[pr].cl \in CL /\ links[pr].netem \in Netem \union {NoNetem}
    BY BoundAssumption DEF Shape, TablesOK, StampsOK, CountsOK, LinkRec, LinkState, AnyNetem
  <2>2. \A n \in Node : exits[n] \subseteq Exit /\ aims[n].sets \subseteq SUBSET Exit
    BY DEF Shape, ExitsOK, Book, Aims
  <2>3. \A p \in Proc : loc[p].todo \subseteq Node /\ loc[p].pr \in Pair \union {<<>>}
    BY DEF Shape, ThreadsOK, LocalSet
  <2> QED
    BY <2>1, <2>2, <2>3 DEF TypeOK, Shape, TablesOK, TcOK, CountsOK, NodeState, Qdisc
<1> QED
  BY <1>1, <1>2, <1>3, ShapeHolds, PTL DEF Spec

-----------------------------------------------------------------------------
(* Places in a list of sorted pairs *)

\* Pairs are sorted, and the number of those before a pair tells it from the others.
LEMMA PairsAreSorted ==
  /\ \A pr \in Pair : ~Before(pr, pr)
  /\ \A pr, qr \in Pair : pr # qr => Before(pr, qr) \/ Before(qr, pr)
  /\ \A pr, qr, rr \in Pair : Before(pr, qr) /\ Before(qr, rr) => Before(pr, rr)
<1>1. \A pr \in Pair : pr[1] \in Nat /\ pr[2] \in Nat /\ pr = <<pr[1], pr[2]>>
  BY EndTyped, LiveNodeAssumption DEF Side
<1> QED
  BY <1>1 DEF Before

LEMMA CountsGrow ==
  ASSUME NEW S, NEW T, IsFiniteSet(T), S \subseteq T, NEW x \in T \ S
  PROVE  Cardinality(S) < Cardinality(T)
<1>1. IsFiniteSet(S) /\ Cardinality(S) \in Nat /\ Cardinality(T) \in Nat
      /\ Cardinality(S) <= Cardinality(T) /\ (Cardinality(S) = Cardinality(T) => S = T)
  BY FS_Subset, FS_CardinalityType
<1> QED
  BY <1>1

\* Two links of a bundle do not share an exported subnet.
LEMMA PlacesDiffer ==
  ASSUME NEW net, IsFiniteSet(net), \A k \in net : k.pr \in Pair,
         NEW j \in net, NEW k \in net, Place(j.pr, net) = Place(k.pr, net)
  PROVE  j.pr = k.pr
<1> DEFINE Ahead(x) == {m \in net : Before(m.pr, x.pr)}
<1>1. ASSUME NEW x \in net, NEW y \in net, Before(x.pr, y.pr)
      PROVE  Cardinality(Ahead(x)) < Cardinality(Ahead(y))
  <2>1. IsFiniteSet(Ahead(y))
    BY FS_Subset
  <2>2. Ahead(x) \subseteq Ahead(y) /\ x \in Ahead(y) \ Ahead(x)
    BY <1>1, PairsAreSorted
  <2> QED
    BY <2>1, <2>2, CountsGrow
<1>2. ASSUME NEW x \in net PROVE Cardinality(Ahead(x)) \in Nat
  BY FS_Subset, FS_CardinalityType
<1>3. Cardinality(Ahead(j)) = Cardinality(Ahead(k))
  BY DEF Place
<1> HIDE DEF Ahead
<1>4. ~Before(j.pr, k.pr)
  BY <1>1, <1>2, <1>3
<1>5. ~Before(k.pr, j.pr)
  BY <1>1, <1>2, <1>3
<1> QED
  BY <1>4, <1>5, PairsAreSorted

-----------------------------------------------------------------------------
(* What documents say, and what there is to say *)

\* Only ION of a node that runs has exits.
ExitsOfNamed == \A n \in Node : nodes[n] # "named" => exits[n] = {}

\* Links that are down or degraded are so by their netem, or are being made.
StatusFits ==
  \A pr \in Pair : links[pr].st \in {"down", "degraded"} =>
    links[pr].st = DisruptedStatus(links[pr].netem) \/ links[pr].netem = NoNetem

\* An export that nothing interfered with has the nodes there are, and the exits of
\* those it has asked.
Exporting(p) ==
  LET l == loc[p]
  IN /\ l.doc.nodes # {}
     /\ Calm(p) => /\ l.doc.nodes = There
                   /\ \A n \in Node \ l.todo : l.doc.exits[n] = Listing(n)

\* The links of a bundle are links between nodes of the bundle.
Bundling(p) ==
  LET d == loc[p].doc
  IN IsFiniteSet(d.net) /\ \A k \in d.net : Ends(k.pr) \subseteq d.nodes

Drafted ==
  /\ ExitsOfNamed /\ StatusFits /\ BundleCoheres
  /\ \A p \in Proc : /\ pc[p] = "export" => Exporting(p)
                     /\ pc[p] = "bundle" => Bundling(p)

\* The bundle says of each peer what the peer says of itself.
Coherent(doc) ==
  \A n \in doc.nodes :
    /\ \A plan \in doc.rc[n].plans :
         /\ plan[1] \in doc.nodes /\ plan[3] \in doc.compose[plan[1]]
         /\ plan[2] \in doc.rc[plan[1]].inducts
         /\ \E ip \in doc.compose[n] : ip[1] = plan[3][1] /\ ip # plan[3]
         /\ <<plan[2], plan[3]>> \in doc.rc[n].outducts
    /\ \A m \in doc.nodes \ {n} : doc.compose[n] \intersect doc.compose[m] = {}

\* Whatever the links of a bundle are, it is coherent.
LEMMA PackedCoheres ==
  ASSUME NEW net \in SUBSET [pr : Pair, cl : CL], IsFiniteSet(net), NEW ns \in SUBSET Node,
         \A k \in net : Ends(k.pr) \subseteq ns, NEW ex,
         NEW c, NEW doc,
         doc = [kind |-> "bundle", nodes |-> ns,
                rc |-> [n \in ns |-> NodeRc(BundleNeighbours(n, net), ex[n])],
                compose |-> [n \in ns |-> ComposeAddresses(n, net)],
                calm |-> c]
  PROVE  doc.kind = "bundle" /\ Coherent(doc)
<1> DEFINE rc == doc.rc
           compose == doc.compose
           Address(x) == <<Place(x[1].pr, net), x[2]>>
           Peer(x) == <<x[1], Other(x[2])>>
<1>1. doc.nodes = ns
  OBVIOUS
<1>2. ASSUME NEW n \in ns
      PROVE  /\ compose[n] = {Address(x) : x \in EndsAt(n, net)}
             /\ rc[n].inducts = {"tcp"} \union {nb.cl : nb \in BundleNeighbours(n, net)}
             /\ rc[n].outducts = {<<nb.cl, nb.ip>> : nb \in BundleNeighbours(n, net)}
             /\ rc[n].plans = {<<nb.peer, nb.cl, nb.ip>> : nb \in BundleNeighbours(n, net)}
  <2>1. compose[n] = ComposeAddresses(n, net) /\ rc[n] = NodeRc(BundleNeighbours(n, net), ex[n])
    OBVIOUS
  <2> HIDE DEF compose, rc
  <2> QED
    BY <2>1 DEF ComposeAddresses, NodeRc
<1> HIDE DEF rc, compose
<1>3. ASSUME NEW x \in net \X Side
      PROVE  /\ Peer(x) \in net \X Side /\ Peer(x)[1] = x[1] /\ Other(Peer(x)[2]) = x[2]
             /\ At(x[1].pr, x[2]) \in ns /\ At(x[1].pr, Other(x[2])) \in ns
             /\ x[2] # Other(x[2])
  <2>1. x[1] \in net /\ x[2] \in Side /\ Other(x[2]) \in Side /\ x[2] # Other(x[2])
        /\ Other(Other(x[2])) = x[2]
    BY DEF Side, Other
  <2>2. \A s \in Side : At(x[1].pr, s) \in Ends(x[1].pr)
    BY DEF At, Ends
  <2> QED
    BY <2>1, <2>2
<1>4. ASSUME NEW n \in ns, NEW plan \in rc[n].plans
      PROVE  /\ plan[1] \in ns /\ plan[3] \in compose[plan[1]]
             /\ plan[2] \in rc[plan[1]].inducts
             /\ \E ip \in compose[n] : ip[1] = plan[3][1] /\ ip # plan[3]
             /\ <<plan[2], plan[3]>> \in rc[n].outducts
  <2>1. PICK nb \in BundleNeighbours(n, net) : plan = <<nb.peer, nb.cl, nb.ip>>
    BY <1>2
  <2>2. PICK x \in EndsAt(n, net) :
          nb = [peer |-> At(x[1].pr, Other(x[2])), cl |-> x[1].cl,
                ip |-> <<Place(x[1].pr, net), Other(x[2])>>]
    BY DEF BundleNeighbours
  <2> DEFINE m == At(x[1].pr, Other(x[2]))
             y == Peer(x)
  <2>3. x \in net \X Side /\ At(x[1].pr, x[2]) = n
    BY DEF EndsAt
  <2>4. plan[1] = m /\ plan[2] = x[1].cl /\ plan[3] = <<Place(x[1].pr, net), Other(x[2])>>
    BY <2>1, <2>2
  <2>5. m \in ns /\ y \in net \X Side /\ y[1] = x[1] /\ y[2] = Other(x[2]) /\ Other(y[2]) = x[2]
        /\ x[2] # Other(x[2])
    BY <1>3, <2>3
  <2>6. y \in EndsAt(m, net) /\ Address(y) = plan[3]
    BY <2>4, <2>5 DEF EndsAt
  <2> HIDE DEF m, y, Peer
  <2>7. plan[3] \in compose[m]
    BY <1>2, <2>5, <2>6
  <2>8. plan[2] \in rc[m].inducts
    <3> DEFINE back == [peer |-> At(y[1].pr, Other(y[2])), cl |-> y[1].cl,
                        ip |-> <<Place(y[1].pr, net), Other(y[2])>>]
    <3>1. back \in BundleNeighbours(m, net)
      BY <2>6 DEF BundleNeighbours
    <3>2. back.cl = plan[2]
      BY <2>4, <2>5
    <3> HIDE DEF back
    <3> QED
      BY <1>2, <2>5, <3>1, <3>2
  <2>9. Address(x) \in compose[n] /\ Address(x)[1] = plan[3][1] /\ Address(x) # plan[3]
    BY <1>2, <2>4, <2>5
  <2>10. <<plan[2], plan[3]>> \in rc[n].outducts
    <3>1. <<nb.cl, nb.ip>> = <<plan[2], plan[3]>>
      BY <2>1
    <3> QED
      BY <1>2, <3>1
  <2> HIDE DEF Address
  <2> QED
    BY <2>4, <2>5, <2>7, <2>8, <2>9, <2>10
<1>5. ASSUME NEW n \in ns, NEW m \in ns \ {n}
      PROVE  compose[n] \intersect compose[m] = {}
  <2> SUFFICES ASSUME NEW ip \in compose[n], ip \in compose[m] PROVE FALSE
    OBVIOUS
  <2>1. PICK x \in EndsAt(n, net) : ip = Address(x)
    BY <1>2
  <2>2. PICK y \in EndsAt(m, net) : ip = Address(y)
    BY <1>2
  <2>3. /\ x[1] \in net /\ y[1] \in net /\ x[2] = y[2] /\ Place(x[1].pr, net) = Place(y[1].pr, net)
        /\ At(x[1].pr, x[2]) = n /\ At(y[1].pr, y[2]) = m
    BY <2>1, <2>2 DEF EndsAt
  <2>4. x[1].pr = y[1].pr
    BY <2>3, PlacesDiffer
  <2> QED
    BY <2>3, <2>4
<1> HIDE DEF Address, Peer
<1> QED
  BY <1>1, <1>4, <1>5 DEF Coherent, rc, compose

-----------------------------------------------------------------------------
(* Steps that hand out nothing *)

Papers == {"export", "bundle"}

\* The step is no part of an export or a bundle.
NoPaper(p) ==
  /\ UNCHANGED document /\ pc[p] \notin Papers
  /\ \/ UNCHANGED <<pc, loc>>
     \/ \E label, l : Goto(p, label, l) /\ label \notin Papers

\* An export or bundle under way is as it was, if nothing interfered.
LEMMA PaperStays ==
  ASSUME Shape, Drafted, History, NEW q \in Proc, pc'[q] = pc[q], loc'[q] = loc[q]
  PROVE  /\ pc'[q] = "export" => Exporting(q)'
         /\ pc'[q] = "bundle" => Bundling(q)'
<1>1. ASSUME pc'[q] = "export" PROVE Exporting(q)'
  <2>1. Exporting(q)
    BY <1>1 DEF Drafted
  <2>2. ASSUME Calm(q)' PROVE Calm(q) /\ UNCHANGED <<nodes, exits>>
    <3>1. q \notin touched' /\ ~loc[q].bad
      BY <2>2 DEF Calm
    <3>2. q \notin touched /\ ~Disturbs(q)
      BY <1>1, <3>1 DEF History
    <3> QED
      BY <3>1, <3>2 DEF Disturbs, Calm
  <2>3. UNCHANGED <<nodes, exits>> => There' = There /\ \A n \in Node : Listing(n)' = Listing(n)
    BY DEF There, Present, Listing
  <2> QED
    BY <2>1, <2>2, <2>3 DEF Exporting
<1>2. ASSUME pc'[q] = "bundle" PROVE Bundling(q)'
  <2>1. Bundling(q)
    BY <1>2 DEF Drafted
  <2> QED
    BY <2>1 DEF Bundling
<1> QED
  BY <1>1, <1>2

LEMMA NoPaperKeeps ==
  ASSUME Shape, Drafted, History, NEW p \in Proc, NoPaper(p), ExitsOfNamed', StatusFits'
  PROVE  Drafted'
<1>1. BundleCoheres'
  BY DEF Drafted, BundleCoheres, NoPaper
<1>2. ASSUME NEW q \in Proc, pc'[q] \in Papers PROVE pc'[q] = pc[q] /\ loc'[q] = loc[q]
  BY <1>2 DEF NoPaper, Goto, Shape, ThreadsOK
<1>3. ASSUME NEW q \in Proc
      PROVE  /\ pc'[q] = "export" => Exporting(q)'
             /\ pc'[q] = "bundle" => Bundling(q)'
  BY <1>2, PaperStays DEF Papers
<1> QED
  BY <1>1, <1>3 DEF Drafted

\* No thread steps.
LEMMA ExitKeeps ==
  ASSUME Shape, Drafted, History, UNCHANGED <<pc, loc, document>>, ExitsOfNamed', StatusFits'
  PROVE  Drafted'
<1>1. BundleCoheres'
  BY DEF Drafted, BundleCoheres
<1> QED
  BY <1>1, PaperStays DEF Drafted

LEMMA SameTables ==
  ASSUME Drafted, UNCHANGED <<nodes, links, exits>>
  PROVE  ExitsOfNamed' /\ StatusFits'
  BY DEF Drafted, ExitsOfNamed, StatusFits

\* Exits change in nodes that run.
LEMMA SameTablesButExits ==
  ASSUME Shape, Drafted, UNCHANGED <<nodes, links>>, NEW n \in Node, NEW after,
         UNCHANGED exits \/ (nodes[n] = "named" /\ exits' = [exits EXCEPT ![n] = after])
  PROVE  ExitsOfNamed' /\ StatusFits'
<1>1. StatusFits'
  BY DEF Drafted, StatusFits
<1>2. \A m \in Node : nodes[m] # "named" => exits'[m] = exits[m]
  BY DEF Shape, ExitsOK, Book
<1> QED
  BY <1>1, <1>2 DEF Drafted, ExitsOfNamed

LEMMA NoLinkFits == NoLink.st = "down" /\ NoLink.netem = NoNetem
  BY DEF NoLink

\* A container that stops has no exits any more.
LEMMA StoppedDraws ==
  ASSUME Shape, Drafted, NEW n \in Node, Stopped(n), UNCHANGED links
  PROVE  ExitsOfNamed' /\ StatusFits'
<1>1. StatusFits'
  BY DEF Drafted, StatusFits
<1>2. exits \in Book /\ nodes \in [Node -> NodeState]
  BY DEF Shape, ExitsOK, TablesOK
<1>3. ASSUME NEW m \in Node, nodes'[m] # "named" PROVE exits'[m] = {}
  <2>1. CASE m = n
    BY <1>2, <2>1 DEF Stopped, Book
  <2>2. CASE m # n
    BY <1>2, <1>3, <2>2 DEF Stopped, Book, Drafted, ExitsOfNamed
  <2> QED
    BY <2>1, <2>2
<1> QED
  BY <1>1, <1>3 DEF ExitsOfNamed

LEMMA LinkDoneDraws ==
  ASSUME NEW p \in Proc, LinkDone(p), pc[p] \notin Papers, UNCHANGED document
  PROVE  NoPaper(p)
<1>1. \E k : Goto(p, "idle", k) \/ Goto(p, "gone_next", k)
  BY Zenon DEF LinkDone, Finish
<1> QED
  BY <1>1 DEF NoPaper, Papers

LEMMA DeletionDraws ==
  ASSUME Shape, Drafted, NEW p \in Proc,
         \/ (\E pr \in Pair : DeleteLink(p, pr)) \/ (\E n \in Node : DeleteNode(p, n))
         \/ GoneNext(p) \/ NetGone(p) \/ LinkPopped(p) \/ ContainerGone(p) \/ NodeDropped(p)
  PROVE  NoPaper(p) /\ ExitsOfNamed' /\ StatusFits'
<1>0. nodes \in [Node -> NodeState] /\ links \in [Pair -> LinkRec] /\ exits \in Book
  BY DEF Shape, TablesOK, ExitsOK
<1>1. ASSUME NEW pr \in Pair, DeleteLink(p, pr) PROVE NoPaper(p) /\ ExitsOfNamed' /\ StatusFits'
  <2>1. \E k : Goto(p, "gone_net", k)
    BY <1>1, Zenon DEF DeleteLink
  <2>2. pc[p] = "idle" /\ UNCHANGED <<nodes, links, exits, document>>
    BY <1>1 DEF DeleteLink, Begin, liveOnly, tables
  <2> QED
    BY <2>1, <2>2, SameTables DEF NoPaper, Papers
<1>2. ASSUME NEW n \in Node, DeleteNode(p, n) PROVE NoPaper(p) /\ ExitsOfNamed' /\ StatusFits'
  <2>1. \E k : Goto(p, "gone_next", k)
    BY <1>2, Zenon DEF DeleteNode
  <2>2. pc[p] = "idle" /\ UNCHANGED <<nodes, links, exits, document>>
    BY <1>2 DEF DeleteNode, Begin, liveOnly, tables
  <2> QED
    BY <2>1, <2>2, SameTables DEF NoPaper, Papers
<1>3. CASE GoneNext(p)
  <2>1. \E k : Goto(p, "gone_net", k) \/ Goto(p, "gone_next", k)
    BY <1>3, Zenon DEF GoneNext
  <2> QED
    BY <1>3, <2>1, SameTables DEF GoneNext, NoPaper, Papers, liveOnly, tables
<1>4. CASE NetGone(p)
  <2>1. /\ pc[p] = "gone_net" /\ UNCHANGED <<nodes, links, exits, document>>
        /\ Goto(p, "gone_pop", loc[p]) \/ LinkDone(p)
    BY <1>4 DEF NetGone, tables
  <2>2. NoPaper(p)
    BY <2>1, LinkDoneDraws DEF NoPaper, Papers
  <2> QED
    BY <2>1, <2>2, SameTables
<1>5. CASE LinkPopped(p)
  <2>1. NoPaper(p)
    BY <1>5, LinkDoneDraws DEF LinkPopped, Papers
  <2>2. ExitsOfNamed'
    BY <1>5 DEF LinkPopped, Drafted, ExitsOfNamed
  <2>3. StatusFits'
    BY <1>0, <1>5, NoLinkFits DEF LinkPopped, Drafted, StatusFits
  <2> QED
    BY <2>1, <2>2, <2>3
<1>6. CASE ContainerGone(p)
  <2>1. NoPaper(p)
    <3>1. /\ pc[p] = "gone_next" /\ UNCHANGED document
          /\ Goto(p, "gone_node", loc[p]) \/ Goto(p, "idle", NoLocal)
      BY <1>6 DEF ContainerGone, Finish
    <3> QED
      BY <3>1 DEF NoPaper, Papers
  <2>2. loc[p].n \in Node
    BY <1>6, OwnLocals DEF Shape, ContainerGone, Fits, OnNode
  <2>3. UNCHANGED links /\ (Stopped(loc[p].n) \/ UNCHANGED <<nodes, exits>>)
    BY <1>6 DEF ContainerGone
  <2> QED
    BY <2>1, <2>2, <2>3, StoppedDraws, SameTables
<1>7. CASE NodeDropped(p)
  <2>0. loc[p].n \in Node
    BY <1>7, OwnLocals DEF Shape, NodeDropped, Fits, OnNode
  <2>1. NoPaper(p)
    BY <1>7 DEF NodeDropped, NoPaper, Papers, Finish
  <2>2. ExitsOfNamed' /\ StatusFits'
    BY <1>0, <1>7, <2>0 DEF NodeDropped, Drafted, ExitsOfNamed, StatusFits, Book
  <2> QED
    BY <2>1, <2>2
<1> QED
  BY <1>1, <1>2, <1>3, <1>4, <1>5, <1>6, <1>7

LEMMA LifeDraws ==
  ASSUME Shape, Drafted, NEW p \in Proc, LifeCall(p) \/ LifeStep(p)
  PROVE  NoPaper(p) /\ ExitsOfNamed' /\ StatusFits'
<1> USE DEF NoPaper, Papers, Begin, liveOnly, Finish
<1>0. nodes \in [Node -> NodeState] /\ links \in [Pair -> LinkRec] /\ exits \in Book
  BY DEF Shape, TablesOK, ExitsOK
<1>1. ASSUME NEW n \in Node, NodeReserved(p, n) PROVE NoPaper(p) /\ ExitsOfNamed' /\ StatusFits'
  <2>1. NoPaper(p)
    BY <1>1 DEF NodeReserved
  <2>2. ExitsOfNamed' /\ StatusFits'
    BY <1>0, <1>1 DEF NodeReserved, Drafted, ExitsOfNamed, StatusFits, Present, Book
  <2> QED
    BY <2>1, <2>2
<1>2. CASE NodeMade(p)
  <2>0. loc[p].n \in Node
    BY <1>2, OwnLocals DEF Shape, NodeMade, Fits, OnNode
  <2>1. NoPaper(p)
    BY <1>2 DEF NodeMade
  <2>2. ExitsOfNamed' /\ StatusFits'
    BY <1>0, <1>2, <2>0 DEF NodeMade, Drafted, ExitsOfNamed, StatusFits, Book
  <2> QED
    BY <2>1, <2>2
<1>3. ASSUME NEW pr \in Pair, NEW cl \in CL, LinkReserved(p, pr, cl)
      PROVE  NoPaper(p) /\ ExitsOfNamed' /\ StatusFits'
  <2> DEFINE k == [NoLocal EXCEPT !.pr = pr, !.known = Named]
             new == [NoLink EXCEPT !.made = started + 2, !.idx = FreeIndex, !.cl = cl]
  <2>0. /\ Goto(p, "made_link", k) /\ pc[p] = "idle" /\ UNCHANGED <<nodes, exits, document>>
        /\ links' = [links EXCEPT ![pr] = new]
    BY <1>3 DEF LinkReserved
  <2>1. new.netem = NoNetem
    BY DEF NoLink
  <2> HIDE DEF k, new
  <2>2. NoPaper(p)
    BY <2>0
  <2>3. ExitsOfNamed'
    BY <2>0 DEF Drafted, ExitsOfNamed
  <2>4. StatusFits'
    BY <1>0, <2>0, <2>1 DEF Drafted, StatusFits
  <2> QED
    BY <2>2, <2>3, <2>4
<1>4. CASE LinkMade(p)
  <2> DEFINE pr == loc[p].pr
  <2>1. NoPaper(p)
    BY <1>4 DEF LinkMade
  <2>2. ExitsOfNamed'
    BY <1>4 DEF LinkMade, Drafted, ExitsOfNamed
  <2>3. links' = [links EXCEPT ![pr].st = "up"] \/ links' = [links EXCEPT ![pr].st = "error"]
        \/ links' = [links EXCEPT ![pr] = NoLink]
    BY <1>4 DEF LinkMade
  <2>4. \A qr \in Pair : links'[qr] = links[qr] \/ links'[qr].st \in {"up", "error"} \/ links'[qr] = NoLink
    <3> HIDE DEF pr
    <3> QED
      BY <1>0, <2>3 DEF LinkRec
  <2>5. StatusFits'
    BY <2>4, NoLinkFits DEF Drafted, StatusFits
  <2> QED
    BY <2>1, <2>2, <2>5
<1> QED
  BY <1>1, <1>2, <1>3, <1>4, DeletionDraws DEF LifeCall, LifeStep

LEMMA ExitCallDraws ==
  ASSUME Shape, Drafted, NEW p \in Proc, ExitCall(p) \/ RawCall(p)
  PROVE  NoPaper(p) /\ ExitsOfNamed' /\ StatusFits'
<1> USE DEF NoPaper, Papers, Begin, liveOnly, tables
<1>1. CASE SetAllExits(p) \/ ClearAllExits(p)
  BY <1>1, SameTables DEF SetAllExits, ClearAllExits
<1>2. ASSUME NEW n \in Node, NEW e,
             SetNodeExits(p, n) \/ AddExit(p, n, e) \/ DeleteExit(p, n, e) \/ ApplyRawExit(p, n, e)
      PROVE  NoPaper(p) /\ ExitsOfNamed' /\ StatusFits'
  BY <1>2, SameTables DEF SetNodeExits, AddExit, DeleteExit, ApplyRawExit
<1> QED
  BY <1>1, <1>2 DEF ExitCall, RawCall

\* What a command may do: it goes to one of two labels, and changes exits of a node that
\* runs only.
LEMMA CommandDraws ==
  ASSUME Shape, Drafted, NEW p \in Proc, loc[p].n \in Node, NEW label, NEW after, NEW l,
         \/ Apply(p, label, after, l) /\ l.n = loc[p].n
         \/ Try(p, after, label, l)
  PROVE  /\ \E lab \in {label, "idle"} : \E k : Goto(p, lab, k)
         /\ UNCHANGED <<nodes, links>> => ExitsOfNamed' /\ StatusFits'
<1>1. \E lab \in {label, "idle"} : \E k : Goto(p, lab, k)
  <2> DEFINE noted == [l EXCEPT !.bad = TRUE]
  <2>1. Goto(p, label, l) \/ Goto(p, label, noted) \/ Goto(p, "idle", NoLocal)
    BY Zenon DEF Apply, Try, Finish
  <2> HIDE DEF noted
  <2> QED
    BY <2>1
<1>2. PICK n \in Node : n = loc[p].n
  OBVIOUS
<1>3. UNCHANGED exits \/ (nodes[n] = "named" /\ exits' = [exits EXCEPT ![n] = after])
  BY <1>2 DEF Apply, Try, Reached
<1> QED
  BY <1>1, <1>3, SameTablesButExits

LEMMA ExitStepDraws ==
  ASSUME Shape, Drafted, NEW p \in Proc, ExitStep(p)
  PROVE  NoPaper(p) /\ ExitsOfNamed' /\ StatusFits'
<1> USE DEF NoPaper, Papers, exitOnly, tables, Finish
<1>0. pc[p] \in OnNode => loc[p].n \in Node
  BY OwnLocals DEF Shape, Fits
<1>1. CASE RtNext(p)
  <2> DEFINE n == Min(loc[p].todo)
             rest == [loc[p] EXCEPT !.todo = @ \ {n}, !.n = n, !.bad = FALSE]
             k(want) == [rest EXCEPT !.known = Named, !.want = want]
  <2>1. /\ pc[p] = "rt_next" /\ UNCHANGED <<nodes, links, exits, document>>
        /\ \/ Goto(p, "idle", NoLocal) \/ Goto(p, "rt_next", rest)
           \/ \E order \in Orders : Goto(p, "rt_list", k(Wanted(n, There, Adjacent, order)))
    BY <1>1 DEF RtNext
  <2> HIDE DEF n, rest, k
  <2> QED
    BY <2>1, SameTables
<1>2. CASE RtList(p)
  BY <1>2, SameTables DEF RtList
<1>3. CASE RtDelete(p)
  <2>1. /\ pc[p] = "rt_del" /\ UNCHANGED <<nodes, links, document>>
        /\ \/ \E e \in loc[p].del :
                Apply(p, "rt_del", WithoutKey(exits[loc[p].n], e), [loc[p] EXCEPT !.del = @ \ {e}])
           \/ Goto(p, "rt_add", loc[p]) /\ UNCHANGED exits
    BY <1>3 DEF RtDelete
  <2>2. ASSUME NEW e, NEW after, NEW k, k.n = loc[p].n, Apply(p, "rt_del", after, k)
        PROVE  NoPaper(p) /\ ExitsOfNamed' /\ StatusFits'
    BY <1>0, <2>1, <2>2, CommandDraws DEF OnNode
  <2>3. \A e : [loc[p] EXCEPT !.del = @ \ {e}].n = loc[p].n
    BY OwnLocals DEF Shape, LocalSet
  <2> QED
    <3>1. CASE Goto(p, "rt_add", loc[p]) /\ UNCHANGED exits
      BY <2>1, <3>1, SameTables
    <3>2. ASSUME NEW e \in loc[p].del,
                 Apply(p, "rt_del", WithoutKey(exits[loc[p].n], e), [loc[p] EXCEPT !.del = @ \ {e}])
          PROVE  NoPaper(p) /\ ExitsOfNamed' /\ StatusFits'
      <4> DEFINE k == [loc[p] EXCEPT !.del = @ \ {e}]
      <4>1. k.n = loc[p].n /\ Apply(p, "rt_del", WithoutKey(exits[loc[p].n], e), k)
        BY <2>3, <3>2
      <4> HIDE DEF k
      <4> QED
        BY <2>2, <4>1
    <3> QED
      BY <2>1, <3>1, <3>2
<1>4. CASE RtAdd(p)
  <2>1. /\ pc[p] = "rt_add" /\ UNCHANGED <<nodes, links, document>>
        /\ \/ \E e \in loc[p].add :
                Apply(p, "rt_add", WithExit(exits[loc[p].n], e), [loc[p] EXCEPT !.add = @ \ {e}])
           \/ Goto(p, "rt_verify", loc[p]) /\ UNCHANGED exits
    BY <1>4 DEF RtAdd
  <2>2. ASSUME NEW e, NEW after, NEW k, k.n = loc[p].n, Apply(p, "rt_add", after, k)
        PROVE  NoPaper(p) /\ ExitsOfNamed' /\ StatusFits'
    BY <1>0, <2>1, <2>2, CommandDraws DEF OnNode
  <2>3. \A e : [loc[p] EXCEPT !.add = @ \ {e}].n = loc[p].n
    BY OwnLocals DEF Shape, LocalSet
  <2> QED
    <3>1. CASE Goto(p, "rt_verify", loc[p]) /\ UNCHANGED exits
      BY <2>1, <3>1, SameTables
    <3>2. ASSUME NEW e \in loc[p].add,
                 Apply(p, "rt_add", WithExit(exits[loc[p].n], e), [loc[p] EXCEPT !.add = @ \ {e}])
          PROVE  NoPaper(p) /\ ExitsOfNamed' /\ StatusFits'
      <4> DEFINE k == [loc[p] EXCEPT !.add = @ \ {e}]
      <4>1. k.n = loc[p].n /\ Apply(p, "rt_add", WithExit(exits[loc[p].n], e), k)
        BY <2>3, <3>2
      <4> HIDE DEF k
      <4> QED
        BY <2>2, <4>1
    <3> QED
      BY <2>1, <3>1, <3>2
<1>5. CASE RtVerify(p)
  BY <1>5, SameTables DEF RtVerify
<1>6. CASE HandAdd(p) \/ HandDelete(p)
  <2>1. /\ pc[p] \in {"hand_add", "hand_del"} /\ UNCHANGED <<nodes, links, document>>
        /\ \E after : Try(p, after, "idle", NoLocal)
    BY <1>6 DEF HandAdd, HandDelete
  <2> QED
    BY <1>0, <2>1, CommandDraws DEF OnNode
<1>7. CASE ClearNext(p)
  BY <1>7, SameTables DEF ClearNext
<1>8. CASE ClearDelete(p)
  <2>1. /\ pc[p] = "clear_del" /\ UNCHANGED <<nodes, links, document>>
        /\ \/ \E after, l : Try(p, after, "clear_del", l)
           \/ Goto(p, "clear_next", loc[p]) /\ UNCHANGED exits
    BY <1>8 DEF ClearDelete
  <2> QED
    BY <1>0, <2>1, CommandDraws, SameTables DEF OnNode
<1> QED
  BY <1>1, <1>2, <1>3, <1>4, <1>5, <1>6, <1>7, <1>8 DEF ExitStep

LEMMA DisruptionDraws ==
  ASSUME Shape, Drafted, NEW p \in Proc, DisruptCall(p) \/ DisruptStep(p)
  PROVE  NoPaper(p) /\ ExitsOfNamed' /\ StatusFits'
<1> USE DEF NoPaper, Papers, Begin, liveOnly, tables, Finish
<1>1. ASSUME NEW pr \in Pair, NEW m, DisruptLink(p, pr, m) \/ RestoreLink(p, pr)
      PROVE  NoPaper(p) /\ ExitsOfNamed' /\ StatusFits'
  BY <1>1, SameTables DEF DisruptLink, RestoreLink, Look
<1>2. CASE Tc(p)
  BY <1>2, SameTables DEF Tc
<1>3. CASE DisruptDone(p) \/ RestoreDone(p)
  <2>1. NoPaper(p)
    BY <1>3 DEF DisruptDone, RestoreDone
  <2>2. ExitsOfNamed'
    BY <1>3 DEF DisruptDone, RestoreDone, Drafted, ExitsOfNamed
  <2>3. PICK l : links' = Written(l, DisruptedStatus(l.netem)) \/ links' = Written(l, "up")
    BY <1>3 DEF DisruptDone, RestoreDone
  <2>4. \A pr \in Pair : \/ links'[pr] = links[pr] \/ links'[pr].st = "up"
                         \/ links'[pr].st = DisruptedStatus(links'[pr].netem)
    BY <2>3 DEF Written, Shape, TablesOK, LinkRec
  <2>5. StatusFits'
    BY <2>4 DEF Drafted, StatusFits
  <2> QED
    BY <2>1, <2>2, <2>5
<1> QED
  BY <1>1, <1>2, <1>3 DEF DisruptCall, DisruptStep

-----------------------------------------------------------------------------
(* The steps of exports and bundles *)

\* Nothing but the call's own locals and the document changes.
LEMMA PaperKeeps ==
  ASSUME Shape, Drafted, History, NEW p \in Proc, UNCHANGED <<nodes, links, exits>>,
         NEW label, NEW l, Goto(p, label, l), BundleCoheres',
         label = "export" => Exporting(p)', label = "bundle" => Bundling(p)'
  PROVE  Drafted'
<1>1. /\ pc'[p] = label
      /\ \A q \in Proc \ {p} : pc'[q] = pc[q] /\ loc'[q] = loc[q]
  BY DEF Goto, Shape, ThreadsOK
<1>2. ASSUME NEW q \in Proc
      PROVE  /\ pc'[q] = "export" => Exporting(q)'
             /\ pc'[q] = "bundle" => Bundling(q)'
  BY <1>1, PaperStays
<1> QED
  BY <1>2, SameTables DEF Drafted

LEMMA CoheresIfSame ==
  ASSUME Drafted, UNCHANGED document \/ document'.kind \in {"file", "config"}
  PROVE  BundleCoheres'
  BY DEF Drafted, BundleCoheres

\* What is known of an export after the step, when nothing interfered so far.
LEMMA CalmAfter ==
  ASSUME Shape, History, NEW p \in Proc, pc'[p] # "idle", Calm(p)'
  PROVE  p \notin touched /\ ~loc'[p].bad /\ There' = There /\ \A n \in Node : Listing(n)' = Listing(n)
<1>1. p \notin touched' /\ ~loc'[p].bad
  BY DEF Calm
<1>2. p \notin touched /\ UNCHANGED <<nodes, exits>>
  BY <1>1 DEF History, Disturbs
<1> QED
  BY <1>1, <1>2 DEF There, Present, Listing

LEMMA ExportScenarioDraws ==
  ASSUME Shape, Drafted, History, NEW p \in Proc, ExportScenario(p)
  PROVE  Drafted'
<1> DEFINE d == [kind |-> "file", nodes |-> There, exits |-> NoExits]
           l == [NoLocal EXCEPT !.todo = There, !.doc = d]
<1>1. Goto(p, "export", l) /\ UNCHANGED <<nodes, links, exits, document>> /\ There # {}
  BY DEF ExportScenario, Begin, liveOnly, tables
<1>2. l.doc = d /\ l.todo = There
  BY NoLocalTyped DEF LocalSet
<1>3. d.nodes = There /\ d.exits = NoExits
  OBVIOUS
<1> HIDE DEF d, l
<1>4. loc'[p] = l /\ pc'[p] = "export"
  BY <1>1 DEF Goto, Shape, ThreadsOK
<1>5. There' = There /\ \A n \in Node : Listing(n)' = Listing(n)
  BY <1>1 DEF There, Present, Listing
<1>6. \A n \in Node \ There : Listing(n) = {} /\ NoExits[n] = {}
  BY DEF Listing, There, Present, NoExits
<1>7. Exporting(p)'
  BY <1>1, <1>2, <1>3, <1>4, <1>5, <1>6 DEF Exporting
<1> QED
  BY <1>1, <1>7, CoheresIfSame, PaperKeeps

LEMMA ExportStepDraws ==
  ASSUME Shape, Drafted, History, NEW p \in Proc, ExportStep(p)
  PROVE  Drafted'
<1> DEFINE l == loc[p]
           n == Min(l.todo)
           k(found, bad) == [l EXCEPT !.todo = @ \ {n}, !.doc.exits[n] = found, !.bad = bad]
<1>1. pc[p] = "export" /\ UNCHANGED <<nodes, links, exits>>
  BY DEF ExportStep, ListNext, docOnly, tables
<1>2. l \in LocalSet /\ l.doc \in FileDraft
  BY <1>1, OwnLocals DEF Shape, Fits
<1>3. Exporting(p)
  BY <1>1 DEF Drafted
<1>4. ASSUME NEW found, NEW bad, l.todo # {}, Goto(p, "export", k(found, bad)), UNCHANGED document,
             bad \/ (found = Listing(n) /\ bad = l.bad)
      PROVE  Drafted'
  <2> DEFINE m == k(found, bad)
  <2>0. n \in Node
    BY <1>2, <1>4, LeastNode DEF LocalSet
  <2> HIDE DEF n
  <2>1. /\ m.todo = l.todo \ {n} /\ m.bad = bad /\ m.doc.nodes = l.doc.nodes
        /\ m.doc.exits = [l.doc.exits EXCEPT ![n] = found]
    BY <1>2 DEF LocalSet, FileDraft
  <2> HIDE DEF m, k
  <2>2. loc'[p] = m /\ pc'[p] = "export"
    BY <1>4 DEF Goto, Shape, ThreadsOK, m
  <2>3. \A j \in Node : m.doc.exits[j] = IF j = n THEN found ELSE l.doc.exits[j]
    BY <1>2, <2>1 DEF FileDraft, Book
  <2> HIDE DEF l
  <2>4. Exporting(p)'
    <3>1. m.doc.nodes # {}
      BY <1>3, <2>1 DEF Exporting, l
    <3>2. ASSUME Calm(p)' PROVE m.doc.nodes = There' /\ \A j \in Node \ m.todo : m.doc.exits[j] = Listing(j)'
      <4>1. p \notin touched /\ ~m.bad /\ There' = There /\ \A j \in Node : Listing(j)' = Listing(j)
        BY <2>2, <3>2, CalmAfter
      <4>2. Calm(p) /\ found = Listing(n)
        BY <1>4, <2>1, <4>1 DEF Calm, l
      <4> QED
        BY <1>3, <2>0, <2>1, <2>3, <4>1, <4>2 DEF Exporting, l
    <3> QED
      BY <2>2, <3>1, <3>2 DEF Exporting
  <2> QED
    BY <1>1, <1>4, <2>4, CoheresIfSame, PaperKeeps DEF m
<1>5. CASE l.todo = {} /\ WriteFile(p, l)
  <2>1. document'.kind = "file" /\ Goto(p, "idle", NoLocal)
    BY <1>5 DEF WriteFile, Finish
  <2> QED
    BY <1>1, <2>1, CoheresIfSame, PaperKeeps
<1> QED
  BY <1>4, <1>5 DEF ExportStep, ListNext

LEMMA ConfigDraws ==
  ASSUME Shape, Drafted, History, NEW p \in Proc, ConfigStep(p) \/ \E n \in Node : GetNodeConfig(p, n)
  PROVE  Drafted'
<1>1. UNCHANGED <<nodes, links, exits>>
  BY DEF ConfigStep, ListNext, docOnly, tables, GetNodeConfig, liveOnly
<1>2. UNCHANGED document \/ document'.kind \in {"file", "config"}
  <2>1. CASE ConfigStep(p)
    <3>1. UNCHANGED document \/ ShowConfig(p, loc[p])
      BY <2>1 DEF ConfigStep, ListNext
    <3>2. ShowConfig(p, loc[p]) => document'.kind = "config"
      BY DEF ShowConfig
    <3> QED
      BY <3>1, <3>2
  <2>2. CASE \E n \in Node : GetNodeConfig(p, n)
    BY <2>2 DEF GetNodeConfig, liveOnly
  <2> QED
    BY <2>1, <2>2
<1>3. \E label \in {"config", "idle"} : \E l : Goto(p, label, l)
  <2>1. CASE ConfigStep(p)
    BY <2>1 DEF ConfigStep, ListNext, ShowConfig, Finish
  <2>2. CASE \E n \in Node : GetNodeConfig(p, n)
    BY <2>2 DEF GetNodeConfig
  <2> QED
    BY <2>1, <2>2
<1> QED
  BY <1>1, <1>2, <1>3, CoheresIfSame, PaperKeeps

LEMMA BundleDraws ==
  ASSUME Shape, Drafted, History, NEW p \in Proc, ExportBundle(p) \/ BundleLinks(p) \/ BundleStep(p)
  PROVE  Drafted'
<1>0. UNCHANGED <<nodes, links, exits>>
  BY DEF ExportBundle, BundleLinks, BundleStep, ListNext, docOnly, tables, liveOnly
<1>1. CASE ExportBundle(p)
  BY <1>0, <1>1, CoheresIfSame, PaperKeeps DEF ExportBundle, liveOnly
<1>2. CASE BundleLinks(p)
  <2> DEFINE l == loc[p]
             net == {[pr |-> pr, cl |-> links[pr].cl] : pr \in LinkNames}
             d == [nodes |-> l.doc.nodes, net |-> net, exits |-> NoExits]
             k == [l EXCEPT !.todo = l.doc.nodes, !.doc = d]
  <2>1. UNCHANGED document
    BY <1>2 DEF BundleLinks
  <2>2. CASE Finish(p)
    BY <1>0, <2>1, <2>2, CoheresIfSame, PaperKeeps DEF Finish
  <2>3. CASE Goto(p, "bundle", k) /\ \A j \in net : Ends(j.pr) \subseteq l.doc.nodes
    <3>1. k.doc = d
      BY OwnLocals DEF Shape, LocalSet
    <3>2. d.net = net /\ d.nodes = l.doc.nodes
      OBVIOUS
    <3>3. IsFiniteSet(net)
      <4> DEFINE f == [pr \in LinkNames |-> [pr |-> pr, cl |-> links[pr].cl]]
      <4>1. IsFiniteSet(LinkNames)
        BY PairFacts, FS_Subset DEF LinkNames
      <4>2. f \in Surjection(LinkNames, net)
        BY DEF Surjection
      <4> HIDE DEF f, net
      <4> QED
        BY <4>1, <4>2, FS_Surjection
    <3> HIDE DEF d, net
    <3>4. loc'[p].doc = d
      BY <2>3, <3>1 DEF Goto, Shape, ThreadsOK
    <3>5. Bundling(p)'
      BY <2>3, <3>2, <3>3, <3>4 DEF Bundling
    <3> HIDE DEF k
    <3> QED
      BY <1>0, <2>1, <2>3, <3>5, CoheresIfSame, PaperKeeps
  <2> QED
    BY <1>2, <2>2, <2>3 DEF BundleLinks
<1>3. CASE BundleStep(p)
  <2> DEFINE l == loc[p]
             n == Min(l.todo)
             k(found, bad) == [l EXCEPT !.todo = @ \ {n}, !.doc.exits[n] = found, !.bad = bad]
  <2>1. pc[p] = "bundle"
    BY <1>3 DEF BundleStep, ListNext
  <2>2. l \in LocalSet /\ l.doc \in BundleDraft
    BY <2>1, OwnLocals DEF Shape, Fits
  <2>3. Bundling(p)
    BY <2>1 DEF Drafted
  <2>4. ASSUME NEW found, NEW bad, Goto(p, "bundle", k(found, bad)), UNCHANGED document
        PROVE  Drafted'
    <3> DEFINE m == k(found, bad)
    <3>1. m.doc.net = l.doc.net /\ m.doc.nodes = l.doc.nodes
      BY <2>2 DEF LocalSet, BundleDraft
    <3> HIDE DEF m, k
    <3>2. loc'[p] = m
      BY <2>4 DEF Goto, Shape, ThreadsOK, m
    <3>3. Bundling(p)'
      BY <2>3, <3>1, <3>2 DEF Bundling
    <3> QED
      BY <1>0, <2>4, <3>3, CoheresIfSame, PaperKeeps DEF m
  <2>5. CASE PackBundle(p, l)
    <3> DEFINE net == l.doc.net
               ns == l.doc.nodes
               ex == l.doc.exits
    <3>1. document' = [kind |-> "bundle", nodes |-> ns,
                rc |-> [j \in ns |-> NodeRc(BundleNeighbours(j, net), ex[j])],
                compose |-> [j \in ns |-> ComposeAddresses(j, net)],
                calm |-> Calm(p)]
      BY <2>5 DEF PackBundle
    <3>2. /\ net \in SUBSET [pr : Pair, cl : CL] /\ IsFiniteSet(net) /\ ns \in SUBSET Node
          /\ \A j \in net : Ends(j.pr) \subseteq ns
      BY <2>2, <2>3 DEF Bundling, BundleDraft
    <3> HIDE DEF net, ns, ex
    <3>3. Coherent(document')
      BY <3>1, <3>2, PackedCoheres
    <3>4. BundleCoheres'
      BY <3>3 DEF BundleCoheres, Coherent
    <3>5. Goto(p, "idle", NoLocal)
      BY <2>5 DEF PackBundle, Finish
    <3> QED
      BY <1>0, <3>4, <3>5, PaperKeeps
  <2> QED
    BY <1>3, <2>4, <2>5 DEF BundleStep, ListNext
<1> QED
  BY <1>1, <1>2, <1>3

-----------------------------------------------------------------------------
(* The theorems *)

LEMMA InitDraws ==
  ASSUME Init
  PROVE  Drafted
<1>1. /\ document = <<>>
      /\ \A p \in Proc : pc[p] = "idle"
  BY DEF Init
<1>2. PICK s \in Scenes, order \in Orders :
         /\ nodes = [n \in Node |-> IF n \in s.nodes THEN "named" ELSE "absent"]
         /\ LET was == [n \in Node |-> {m \in Node : s.was \intersect {<<m, n>>, <<n, m>>} # {}}]
            IN exits = [n \in Node |-> IF n \in s.nodes THEN Wanted(n, s.nodes, was, order) ELSE {}]
         /\ links = [pr \in Pair |->
                       IF pr \notin s.now THEN NoLink
                       ELSE [NoLink EXCEPT !.made = 1, !.st = "up",
                                           !.idx = Cardinality({q \in s.now : Before(q, pr)})]]
  BY DEF Init
<1>3. ExitsOfNamed
  BY <1>2 DEF ExitsOfNamed
<1>4. \A pr \in Pair : links[pr] = NoLink \/ links[pr].st = "up"
  BY <1>2 DEF NoLink
<1>5. StatusFits
  BY <1>4, NoLinkFits DEF StatusFits
<1> QED
  BY <1>1, <1>3, <1>5 DEF Drafted, BundleCoheres

LEMMA StepDraws ==
  ASSUME Shape, Drafted, [Next]_liveVars
  PROVE  Drafted'
<1>1. CASE UNCHANGED liveVars
  BY <1>1 DEF liveVars, vars, Drafted, ExitsOfNamed, StatusFits, BundleCoheres, Exporting, Bundling,
     Calm, There, Present, Listing
<1>2. ASSUME History, NEW p \in Proc,
             \/ LifeCall(p) \/ LifeStep(p) \/ ExitCall(p) \/ ExitStep(p) \/ RawCall(p)
             \/ DisruptCall(p) \/ DisruptStep(p)
      PROVE  Drafted'
  BY <1>2, LifeDraws, ExitCallDraws, ExitStepDraws, DisruptionDraws, NoPaperKeeps
<1>3. ASSUME History, NEW p \in Proc, DocCall(p) \/ DocStep(p)
      PROVE  Drafted'
  BY <1>3, ExportScenarioDraws, ExportStepDraws, ConfigDraws, BundleDraws DEF DocCall, DocStep
<1>4. ASSUME History, NEW n \in Node, ContainerExits(n)
      PROVE  Drafted'
  BY <1>4, StoppedDraws, ExitKeeps DEF ContainerExits
<1> QED
  BY <1>1, <1>2, <1>3, <1>4 DEF Next, Call, Step

LEMMA DraftedHolds == Spec => []Drafted
<1>1. Init => Drafted
  BY InitDraws
<1>2. Shape /\ Drafted /\ [Next]_liveVars => Drafted'
  BY StepDraws
<1> QED
  BY <1>1, <1>2, ShapeHolds, PTL DEF Spec

\* A bundle is coherent whenever it was made: whatever nodes and links come and go between
\* the lock acquisitions of build_export_archive, the addresses in the node configurations
\* are those of the compose file.
THEOREM BundlesCohere == Spec => []BundleCoheres
<1>1. Drafted => BundleCoheres
  BY DEF Drafted
<1> QED
  BY <1>1, DraftedHolds, PTL

LEMMA FilesAreWritten ==
  ASSUME [Next]_liveVars, Shape, Drafted, document' # document, document'.kind = "file"
  PROVE  \E p \in Proc : pc[p] = "export" /\ loc[p].todo = {} /\ WriteFile(p, loc[p])
<1>1. PICK p \in Proc : Call(p) \/ Step(p)
  BY DEF Next, liveVars, vars, ContainerExits
<1>2. ~NoPaper(p)
  BY DEF NoPaper
<1>3. DocCall(p) \/ DocStep(p)
  BY <1>1, <1>2, LifeDraws, ExitCallDraws, ExitStepDraws, DisruptionDraws DEF Call, Step
<1>4. ExportStep(p) \/ ConfigStep(p) \/ BundleStep(p)
  BY <1>3 DEF DocCall, DocStep, ExportScenario, ExportBundle, GetNodeConfig, BundleLinks, liveOnly
<1>5. ~ConfigStep(p)
  <2>1. ConfigStep(p) => UNCHANGED document \/ ShowConfig(p, loc[p])
    BY DEF ConfigStep, ListNext
  <2>2. ShowConfig(p, loc[p]) => document'.kind = "config"
    BY DEF ShowConfig
  <2> QED
    BY <2>1, <2>2
<1>6. ~BundleStep(p)
  <2>1. BundleStep(p) => UNCHANGED document \/ PackBundle(p, loc[p])
    BY DEF BundleStep, ListNext
  <2>2. PackBundle(p, loc[p]) => document'.kind = "bundle"
    BY DEF PackBundle
  <2> QED
    BY <2>1, <2>2
<1>7. ExportStep(p)
  BY <1>4, <1>5, <1>6
<1> QED
  BY <1>7 DEF ExportStep, ListNext

LEMMA FileRebuilds ==
  ASSUME [Next]_liveVars, Shape, Drafted, document' # document, document'.kind = "file",
         document'.calm, Portable
  PROVE  Valid(document') /\ Rebuilt(document') = Live
<1>1. PICK p \in Proc : pc[p] = "export" /\ loc[p].todo = {} /\ WriteFile(p, loc[p])
  BY FilesAreWritten
<1> DEFINE d == loc[p].doc
           f == document'
           Entry(pr) == [pr |-> pr, cl |-> links[pr].cl, netem |-> Kept(links[pr].netem)]
           Made(k) == [pr |-> k.pr, cl |-> k.cl, tc |-> TcArgs(k.netem),
                       st |-> IF k.netem = NoNetem THEN "up" ELSE DisruptedStatus(k.netem)]
           Seen(pr) == [pr |-> pr, cl |-> links[pr].cl, tc |-> TcArgs(links[pr].netem),
                        st |-> links[pr].st]
<1>2. f = [kind |-> "file", nodes |-> d.nodes, exits |-> d.exits, links |-> LinkEntries, calm |-> Calm(p)]
  BY <1>1 DEF WriteFile
<1>3. f.nodes = d.nodes /\ f.exits = d.exits /\ f.links = LinkEntries /\ f.calm = Calm(p)
  BY <1>2
<1> HIDE DEF f
<1>4. d.nodes # {} /\ d.nodes = There /\ \A n \in Node : d.exits[n] = Listing(n)
  BY <1>1, <1>3 DEF Drafted, Exporting, f
<1>5. There = Running /\ There \subseteq 1..MaxNodes /\ Dangling = {}
  BY DEF Portable
<1>6. ASSUME NEW pr \in LinkNames
      PROVE  Ends(pr) \subseteq There /\ pr[1] # pr[2] /\ Made(Entry(pr)) = Seen(pr)
  <2> DEFINE m == links[pr].netem
             st == links[pr].st
  <2>1. /\ pr \in Pair /\ pr[1] # pr[2] /\ m \in AnyNetem
        /\ st \in {"up", "down", "degraded"}
        /\ (st = "up") <=> (Kept(m) = NoNetem)
    BY DEF Portable, LinkNames, Shape, TablesOK, LinkRec, LinkState
  <2>2. st \in {"down", "degraded"} => st = DisruptedStatus(m) \/ m = NoNetem
    <3>1. StatusFits
      BY DEF Drafted
    <3> QED
      BY <2>1, <3>1 DEF StatusFits
  <2> HIDE DEF m, st
  <2>3. Kept(NoNetem) = NoNetem /\ (Kept(m) = m \/ Kept(m) = NoNetem)
    BY DEF Kept
  <2>4. TcArgs(Kept(m)) = TcArgs(m)
    <3>1. m \in [loss : 0..100, delay : Nat, jitter : Nat]
      BY <2>1, NetemAssumption DEF AnyNetem, NoNetem
    <3>2. CASE m.loss > 0 \/ m.delay > 0
      BY <3>2 DEF Kept
    <3>3. CASE m.loss = 0 /\ m.delay = 0
      BY <3>1, <3>3 DEF Kept, TcArgs, NoNetem
    <3> QED
      BY <3>1, <3>2, <3>3
  <2>5. st = IF Kept(m) = NoNetem THEN "up" ELSE DisruptedStatus(Kept(m))
    BY <2>1, <2>2, <2>3
  <2>6. Made(Entry(pr)) = Seen(pr)
    BY <2>4, <2>5 DEF m, st
  <2> QED
    BY <1>5, <2>1, <2>6 DEF Dangling
<1>7. LinkEntries = {Entry(pr) : pr \in LinkNames}
  BY DEF LinkEntries
<1>8. Valid(f)
  <2>1. Cardinality(There) <= MaxNodes
    <3>1. IsFiniteSet(1..MaxNodes) /\ Cardinality(1..MaxNodes) = MaxNodes
      BY FS_Interval, BoundAssumption
    <3> QED
      BY <1>5, <3>1, FS_Subset
  <2>2. ASSUME NEW k \in LinkEntries PROVE Ends(k.pr) \subseteq There /\ k.pr[1] # k.pr[2]
    <3>1. PICK pr \in LinkNames : k = Entry(pr)
      BY <1>7
    <3>2. k.pr = pr
      BY <3>1
    <3> QED
      BY <1>6, <3>2
  <2> QED
    BY <1>3, <1>4, <1>5, <2>1, <2>2 DEF Valid
<1>9. {Made(k) : k \in f.links} = {Seen(pr) : pr \in LinkNames}
  <2> HIDE DEF Made, Entry, Seen
  <2> QED
    BY <1>3, <1>6, <1>7
<1>10. [n \in Node |-> IF n \in f.nodes THEN f.exits[n] ELSE {}] = exits
  <2>1. \A n \in Node : (IF n \in There THEN Listing(n) ELSE {}) = exits[n]
    BY <1>5 DEF There, Present, Running, Listing, Drafted, ExitsOfNamed
  <2>2. exits = [n \in Node |-> exits[n]]
    BY DEF Shape, ExitsOK, Book
  <2> QED
    BY <1>3, <1>4, <2>1, <2>2
<1>11. Rebuilt(f) = Live
  BY <1>3, <1>4, <1>9, <1>10 DEF Rebuilt, Live
<1> QED
  BY <1>8, <1>11 DEF f

\* A file of an export that nothing interfered with passes the validation of the import,
\* which brings back from it the nodes, every link with its effect, and the exits, for any
\* topology within the caps and any disruptions (api/scenarios.py).
THEOREM ExportsRebuild == Spec => ExportRebuilds
<1>1. Shape /\ Drafted /\ [Next]_liveVars
      => [document' # document /\ document'.kind = "file" /\ document'.calm /\ Portable
          => Valid(document') /\ Rebuilt(document') = Live]_liveVars
  BY FileRebuilds
<1> QED
  BY <1>1, ShapeHolds, DraftedHolds, PTL DEF Spec, ExportRebuilds


-----------------------------------------------------------------------------
(* Exits                                                                    *)

AtWork == {"rt_list", "rt_del", "rt_add", "rt_verify"}

\* One gateway for each destination.
OneGateway(S) == \A e, f \in S : Key(e) = Key(f) => e = f

SameKeys(n) == \A S, T \in aims[n].sets : {Key(e) : e \in S} = {Key(e) : e \in T}
Goal(n) == UNION aims[n].sets

\* An exit with key k is there, or one of the threads at work is bound to add it.
Promised(n, k) ==
  \/ \E e \in exits[n] : Key(e) = k
  \/ \E p \in Working(n) :
       \/ pc[p] = "rt_list"
       \/ pc[p] \in {"rt_del", "rt_add"} /\ \E e \in loc[p].add : Key(e) = k

\* What thread p, at work on node n, knows of its exits: one that no thread wants was
\* there when p listed them, so p deletes it, or has; and what p takes away, p puts back.
Knows(p, n) ==
  /\ loc[p].want \in aims[n].sets
  /\ pc[p] \in {"rt_del", "rt_add"} => loc[p].add \subseteq loc[p].want
  /\ pc[p] = "rt_del" => exits[n] \ Goal(n) \subseteq loc[p].del
  /\ pc[p] \in {"rt_add", "rt_verify"} => exits[n] \subseteq Goal(n)

Restores(p) ==
  pc[p] = "rt_del" =>
    \A e \in loc[p].del, w \in loc[p].want :
      Key(w) = Key(e) => \E a \in loc[p].add : Key(a) = Key(e)

Converging(n) ==
  /\ OneGateway(exits[n])
  /\ \A p \in Working(n) : Restores(p)
  /\ aims[n].pure =>
       /\ \A p \in Working(n) : Knows(p, n)
       /\ aims[n].sets # {} /\ Working(n) = {} => exits[n] \subseteq Goal(n)
       /\ SameKeys(n) => \A S \in aims[n].sets : \A e \in S : Promised(n, Key(e))

AllConverge == \A n \in Node : Converging(n)

\* The invariant says what is claimed of the nodes that are left alone.
LEMMA ConvergingSuffices ==
  ASSUME AllConverge
  PROVE  ReconcilesConverge
<1> SUFFICES ASSUME NEW n \in Node, Settled(n)
             PROVE  /\ exits[n] \subseteq UNION aims[n].sets
                    /\ \A S \in aims[n].sets : {Key(e) : e \in exits[n]} = {Key(e) : e \in S}
  BY DEF ReconcilesConverge
<1>1. /\ Working(n) = {} /\ aims[n].pure /\ aims[n].sets # {} /\ SameKeys(n)
      /\ Converging(n)
  BY DEF Settled, SameKeys, AllConverge
<1>2. exits[n] \subseteq Goal(n)
  BY <1>1 DEF Converging
<1>3. \A S \in aims[n].sets : \A e \in S : \E f \in exits[n] : Key(f) = Key(e)
  BY <1>1 DEF Converging, Promised
<1>4. ASSUME NEW S \in aims[n].sets
      PROVE  {Key(e) : e \in exits[n]} = {Key(e) : e \in S}
  <2>1. ASSUME NEW f \in exits[n] PROVE Key(f) \in {Key(e) : e \in S}
    <3>1. PICK T \in aims[n].sets : f \in T
      BY <1>2 DEF Goal
    <3>2. {Key(e) : e \in S} = {Key(e) : e \in T}
      BY <1>1 DEF SameKeys
    <3> QED
      BY <3>1, <3>2
  <2>2. ASSUME NEW e \in S PROVE Key(e) \in {Key(f) : f \in exits[n]}
    BY <1>3
  <2> QED
    BY <2>1, <2>2
<1> QED
  BY <1>2, <1>4 DEF Goal

-----------------------------------------------------------------------------
(* Nodes that a step leaves alone *)

LEMMA QuietAt ==
  ASSUME NEW n \in Node, Converging(n), exits'[n] = exits[n], aims'[n] = aims[n],
         Working(n)' = Working(n),
         \A q \in Working(n) : pc'[q] = pc[q] /\ loc'[q] = loc[q]
  PROVE  Converging(n)'
<1>1. \A k : Promised(n, k) => Promised(n, k)'
  BY DEF Promised
<1>2. \A q \in Working(n) : Restores(q)' /\ (aims[n].pure => Knows(q, n)')
  BY DEF Converging, Restores, Knows, Goal
<1>3. SameKeys(n)' = SameKeys(n) /\ Goal(n)' = Goal(n)
  BY DEF SameKeys, Goal
<1> QED
  BY <1>1, <1>2, <1>3 DEF Converging

\* A thread that is not at work on n, neither before nor after, changes nothing for n.
LEMMA BystanderAt ==
  ASSUME Shape, NEW n \in Node, NEW p \in Proc, NEW label, NEW l, Goto(p, label, l),
         p \notin Working(n), label \notin AtWork \/ l.n # n
  PROVE  /\ Working(n)' = Working(n)
         /\ \A q \in Working(n) : pc'[q] = pc[q] /\ loc'[q] = loc[q]
  BY DEF Working, Goto, AtWork, Shape, ThreadsOK

LEMMA QuietStep ==
  ASSUME Shape, AllConverge, NEW p \in Proc, NEW label, NEW l, Goto(p, label, l),
         pc[p] \notin AtWork, label \notin AtWork, UNCHANGED <<exits, aims>>
  PROVE  AllConverge'
<1> SUFFICES ASSUME NEW n \in Node PROVE Converging(n)'
  BY DEF AllConverge
<1>1. p \notin Working(n)
  BY DEF Working, AtWork
<1> QED
  BY <1>1, BystanderAt, QuietAt DEF AllConverge

\* A node whose exits something else than a reconciliation may have changed.
LEMMA DisturbedAt ==
  ASSUME Shape, NEW n \in Node, ~aims'[n].pure, OneGateway(exits'[n]),
         \A q \in Working(n)' : Restores(q)'
  PROVE  Converging(n)'
  BY DEF Converging
LEMMA OwnStep ==
  ASSUME Shape, NEW p \in Proc, NEW label, NEW l, Goto(p, label, l)
  PROVE  /\ pc'[p] = label /\ loc'[p] = l
         /\ \A q \in Proc \ {p} : pc'[q] = pc[q] /\ loc'[q] = loc[q]
  BY DEF Goto, Shape, ThreadsOK

\* Only the node that p works on needs a look.
LEMMA WorkStep ==
  ASSUME Shape, AllConverge, NEW p \in Proc, NEW label, NEW l, Goto(p, label, l), NEW n \in Node,
         pc[p] \in AtWork => loc[p].n = n,
         label \in AtWork => l.n = n,
         \A m \in Node \ {n} : exits'[m] = exits[m] /\ aims'[m] = aims[m],
         Converging(n)'
  PROVE  AllConverge'
<1> SUFFICES ASSUME NEW m \in Node \ {n} PROVE Converging(m)'
  BY DEF AllConverge
<1>1. p \notin Working(m)
  BY DEF Working, AtWork
<1>2. label \notin AtWork \/ l.n # m
  OBVIOUS
<1> QED
  BY <1>1, <1>2, BystanderAt, QuietAt DEF AllConverge

\* Something other than the reconciliation's own commands happens to node n.
LEMMA DisturbedStep ==
  ASSUME Shape, AllConverge, NEW p \in Proc, NEW label, NEW l, Goto(p, label, l), NEW n \in Node,
         pc[p] \in AtWork => loc[p].n = n,
         label \in AtWork => l.n = n,
         aims' = Disturbed({n}),
         \A m \in Node \ {n} : exits'[m] = exits[m],
         OneGateway(exits'[n]),
         label = "rt_del" =>
           \A e \in l.del, w \in l.want : Key(w) = Key(e) => \E a \in l.add : Key(a) = Key(e)
  PROVE  AllConverge'
<1>1. \A m \in Node \ {n} : aims'[m] = aims[m]
  BY DEF Disturbed
<1>2. ~aims'[n].pure
  <2>1. aims[n] \in Aims /\ aims'[n] = [aims[n] EXCEPT !.pure = FALSE]
    BY DEF Disturbed, Shape, ExitsOK
  <2> QED
    BY <2>1 DEF Aims
<1>3. ASSUME NEW q \in Working(n)' PROVE Restores(q)'
  <2>1. CASE q = p
    <3>1. pc'[q] = label /\ loc'[q] = l
      BY <2>1, OwnStep
    <3> QED
      BY <3>1 DEF Restores
  <2>2. CASE q # p
    <3>1. q \in Proc \ {p} /\ pc'[q] = pc[q] /\ loc'[q] = loc[q]
      BY <2>2, OwnStep DEF Working
    <3>2. q \in Working(n)
      BY <3>1 DEF Working
    <3>3. Restores(q)
      BY <3>2 DEF AllConverge, Converging
    <3> QED
      BY <3>1, <3>3 DEF Restores
  <2> QED
    BY <2>1, <2>2
<1>4. Converging(n)'
  BY <1>2, <1>3, DisturbedAt
<1> QED
  BY <1>1, <1>4, WorkStep

-----------------------------------------------------------------------------
(* Commands *)

LEMMA CommandKeepsGateways ==
  ASSUME NEW S, OneGateway(S), NEW e
  PROVE  OneGateway(WithExit(S, e)) /\ OneGateway(WithoutKey(S, e)) /\ OneGateway({})
  BY DEF OneGateway, WithExit, WithoutKey

\* The exits of n are lost, in a step of a thread that is not at work on exits ...
LEMMA LossConverges ==
  ASSUME Shape, AllConverge, NEW p \in Proc, NEW label, NEW l, Goto(p, label, l),
         pc[p] \notin AtWork, label \notin AtWork, NEW n \in Node,
         aims' = Disturbed({n}), exits' = [exits EXCEPT ![n] = {}]
  PROVE  AllConverge'
<1>1. exits'[n] = {} /\ \A m \in Node \ {n} : exits'[m] = exits[m]
  BY DEF Shape, ExitsOK, Book
<1>2. OneGateway({})
  BY DEF OneGateway
<1> QED
  BY <1>1, <1>2, DisturbedStep DEF AtWork

\* ... or of none: its container stops.
LEMMA ContainerExitsConverges ==
  ASSUME Shape, AllConverge, NEW n \in Node, ContainerExits(n)
  PROVE  AllConverge'
<1>1. UNCHANGED <<pc, loc>> /\ aims' = Disturbed({n}) /\ exits' = [exits EXCEPT ![n] = {}]
  BY DEF ContainerExits, Stopped
<1>2. exits'[n] = {} /\ \A m \in Node \ {n} : exits'[m] = exits[m] /\ aims'[m] = aims[m]
  BY <1>1 DEF Shape, ExitsOK, Book, Disturbed
<1>3. \A m \in Node : Working(m)' = Working(m)
  BY <1>1 DEF Working
<1>4. \A m \in Node \ {n} : Converging(m)'
  BY <1>1, <1>2, <1>3, QuietAt DEF AllConverge
<1>5. Converging(n)'
  <2>1. ~aims'[n].pure
    <3>1. aims[n] \in Aims /\ aims'[n] = [aims[n] EXCEPT !.pure = FALSE]
      BY <1>1 DEF Disturbed, Shape, ExitsOK
    <3> QED
      BY <3>1 DEF Aims
  <2>2. OneGateway(exits'[n])
    BY <1>2 DEF OneGateway
  <2>3. \A q \in Working(n)' : Restores(q)'
    BY <1>1, <1>3 DEF AllConverge, Converging, Restores
  <2> QED
    BY <2>1, <2>2, <2>3, DisturbedAt
<1> QED
  BY <1>4, <1>5 DEF AllConverge

\* A command by hand, whether it takes effect or not.
LEMMA TryConverges ==
  ASSUME Shape, AllConverge, NEW p \in Proc, NEW after, NEW label, NEW l, Try(p, after, label, l),
         loc[p].n \in Node, pc[p] \notin AtWork, label \notin AtWork, OneGateway(after)
  PROVE  AllConverge'
<1> DEFINE n == loc[p].n
<1>1. /\ aims' = Disturbed({n})
      /\ OneGateway(exits'[n]) /\ \A m \in Node \ {n} : exits'[m] = exits[m]
  BY DEF Try, Shape, ExitsOK, Book, AllConverge, Converging
<1>2. PICK label2, l2 : Goto(p, label2, l2) /\ label2 \notin AtWork
  BY DEF Try, Finish, AtWork
<1> QED
  BY <1>1, <1>2, DisturbedStep DEF AtWork

LEMMA HandConverges ==
  ASSUME Shape, AllConverge, NEW p \in Proc, HandAdd(p) \/ HandDelete(p)
  PROVE  AllConverge'
<1>1. loc[p].n \in Node /\ pc[p] \notin AtWork /\ "idle" \notin AtWork
  BY AtNode DEF HandAdd, HandDelete, AtWork
<1>2. OneGateway(exits[loc[p].n])
  BY <1>1 DEF AllConverge, Converging
<1>3. PICK after : Try(p, after, "idle", NoLocal) /\ OneGateway(after)
  BY <1>2, CommandKeepsGateways DEF HandAdd, HandDelete
<1> QED
  BY <1>1, <1>3, TryConverges

LEMMA ClearDeleteConverges ==
  ASSUME Shape, AllConverge, NEW p \in Proc, ClearDelete(p)
  PROVE  AllConverge'
<1>1. /\ loc[p].n \in Node /\ pc[p] \notin AtWork
      /\ "clear_del" \notin AtWork /\ "clear_next" \notin AtWork
  BY AtNode DEF ClearDelete, AtWork
<1>2. OneGateway(exits[loc[p].n])
  BY <1>1 DEF AllConverge, Converging
<1>3. CASE Goto(p, "clear_next", loc[p]) /\ UNCHANGED <<exits, aims>>
  BY <1>1, <1>3, QuietStep
<1>4. CASE \E e \in loc[p].del : Try(p, WithoutKey(exits[loc[p].n], e), "clear_del",
                                     [loc[p] EXCEPT !.del = @ \ {e}])
  <2>1. PICK after, l : Try(p, after, "clear_del", l) /\ OneGateway(after)
    BY <1>2, <1>4, CommandKeepsGateways
  <2> QED
    BY <1>1, <2>1, TryConverges
<1> QED
  BY <1>3, <1>4 DEF ClearDelete

-----------------------------------------------------------------------------
(* Reconciliation *)

\* A thread joins those at work on n, or is the first: what it aims at is still to
\* be listed, so every exit wanted is promised.
LEMMA JoinConverges ==
  ASSUME Shape, AllConverge, NEW p \in Proc, NEW k, NEW n \in Node, NEW want,
         pc[p] \notin AtWork, Goto(p, "rt_list", k), k.n = n, k.want = want,
         aims' = Aimed(n, want), UNCHANGED exits
  PROVE  AllConverge'
<1> DEFINE new == [sets |-> {want} \union (IF Working(n) = {} THEN {} ELSE aims[n].sets),
                   pure |-> Working(n) = {} \/ aims[n].pure]
<1>1. aims' = [aims EXCEPT ![n] = new]
  BY DEF Aimed
<1>2. aims'[n] = new /\ \A m \in Node \ {n} : aims'[m] = aims[m]
  <2> HIDE DEF new
  <2> QED
    BY <1>1 DEF Shape, ExitsOK
<1>3. /\ aims'[n].sets = {want} \union (IF Working(n) = {} THEN {} ELSE aims[n].sets)
      /\ aims'[n].pure = (Working(n) = {} \/ aims[n].pure)
  <2>1. new.pure = (Working(n) = {} \/ aims[n].pure)
    BY Zenon
  <2>2. new.sets = {want} \union (IF Working(n) = {} THEN {} ELSE aims[n].sets)
    BY Zenon
  <2> HIDE DEF new
  <2> QED
    BY <1>2, <2>1, <2>2
<1> HIDE DEF new
<1>4. /\ pc'[p] = "rt_list" /\ loc'[p].n = n /\ loc'[p].want = want
      /\ \A q \in Proc \ {p} : pc'[q] = pc[q] /\ loc'[q] = loc[q]
  BY OwnStep
<1>5. p \notin Working(n)
  BY DEF Working, AtWork
<1>6. Working(n)' = Working(n) \union {p}
  BY <1>4 DEF Working
<1>7. \A q \in Working(n) : q \in Proc \ {p}
  BY <1>5 DEF Working
<1>8. OneGateway(exits[n]) /\ \A q \in Working(n) : Restores(q)
  BY DEF AllConverge, Converging
<1>9. \A q \in Working(n)' : Restores(q)'
  <2>1. Restores(p)'
    BY <1>4 DEF Restores
  <2>2. \A q \in Working(n) : Restores(q)'
    BY <1>4, <1>7, <1>8 DEF Restores
  <2> QED
    BY <1>6, <2>1, <2>2
<1>10. ASSUME aims'[n].pure PROVE \A q \in Working(n)' : Knows(q, n)'
  <2>1. Knows(p, n)'
    BY <1>3, <1>4 DEF Knows
  <2>2. ASSUME NEW q \in Working(n) PROVE Knows(q, n)'
    <3>1. aims[n].pure /\ aims[n].sets \subseteq aims'[n].sets
      BY <1>3, <1>10
    <3>2. Knows(q, n)
      BY <3>1 DEF AllConverge, Converging
    <3>3. UNION aims[n].sets \subseteq UNION aims'[n].sets
      BY <3>1
    <3>4. pc'[q] = pc[q] /\ loc'[q] = loc[q]
      BY <1>4, <1>7
    <3> QED
      BY <3>1, <3>2, <3>3, <3>4 DEF Knows, Goal
  <2> QED
    BY <1>6, <2>1, <2>2
<1>11. \A key : Promised(n, key)'
  BY <1>4, <1>6 DEF Promised
<1>12. Converging(n)'
  BY <1>6, <1>8, <1>9, <1>10, <1>11 DEF Converging
<1> QED
  BY <1>2, <1>12, WorkStep

LEMMA RtNextConverges ==
  ASSUME Shape, AllConverge, NEW p \in Proc, RtNext(p)
  PROVE  AllConverge'
<1> DEFINE l == loc[p]
           n == Min(l.todo)
           rest == [l EXCEPT !.todo = @ \ {n}, !.n = n, !.bad = FALSE]
<1>1. pc[p] \notin AtWork /\ "idle" \notin AtWork /\ "rt_next" \notin AtWork
  BY DEF RtNext, AtWork
<1>2. l \in LocalSet
  BY OwnLocals DEF Shape
<1>3. CASE Finish(p) /\ UNCHANGED aims
  BY <1>1, <1>3, QuietStep DEF Finish, RtNext
<1>4. CASE Goto(p, "rt_next", rest) /\ UNCHANGED aims
  <2> HIDE DEF rest
  <2> QED
    BY <1>1, <1>4, QuietStep DEF RtNext
<1>5. CASE /\ l.todo # {}
           /\ \E order \in Orders :
                LET want == Wanted(n, There, Adjacent, order)
                IN /\ aims' = Aimed(n, want)
                   /\ Goto(p, "rt_list", [rest EXCEPT !.known = Named, !.want = want])
  <2>1. PICK want : /\ aims' = Aimed(n, want)
                    /\ Goto(p, "rt_list", [rest EXCEPT !.known = Named, !.want = want])
    BY <1>5
  <2> DEFINE k == [rest EXCEPT !.known = Named, !.want = want]
  <2>2. n \in Node
    BY <1>2, <1>5, LeastNode DEF LocalSet
  <2>3. k.n = n /\ k.want = want
    <3> HIDE DEF n
    <3> QED
      BY <1>2 DEF LocalSet
  <2>4. Goto(p, "rt_list", k)
    BY <2>1
  <2> HIDE DEF k, n
  <2> QED
    BY <1>1, <2>1, <2>2, <2>3, <2>4, JoinConverges DEF RtNext
<1> HIDE DEF rest, n
<1> QED
  BY <1>3, <1>4, <1>5 DEF RtNext, n, rest

\* The thread stays at work on its node, and the exits of the other nodes are as before.
LEMMA OnwardStep ==
  ASSUME Shape, AllConverge, NEW p \in Proc, NEW label \in AtWork, NEW l, Goto(p, label, l),
         NEW n \in Node, pc[p] \in AtWork, loc[p].n = n, l.n = n, UNCHANGED aims,
         \A m \in Node \ {n} : exits'[m] = exits[m],
         OneGateway(exits'[n]),
         label = "rt_del" =>
           \A e \in l.del, w \in l.want : Key(w) = Key(e) => \E a \in l.add : Key(a) = Key(e),
         aims[n].pure =>
           /\ l.want \in aims[n].sets
           /\ label \in {"rt_del", "rt_add"} => l.add \subseteq l.want
           /\ label = "rt_del" => exits'[n] \ Goal(n) \subseteq l.del
           /\ label \in {"rt_add", "rt_verify"} => exits'[n] \subseteq Goal(n)
           /\ exits'[n] \ exits[n] \subseteq Goal(n)
           /\ SameKeys(n) => \A S \in aims[n].sets : \A e \in S :
                \/ \E f \in exits'[n] : Key(f) = Key(e)
                \/ label \in {"rt_del", "rt_add"} /\ \E f \in l.add : Key(f) = Key(e)
                \/ /\ \A f \in exits[n] : Key(f) # Key(e)
                   /\ ~(pc[p] = "rt_list")
                   /\ ~(pc[p] \in {"rt_del", "rt_add"} /\ \E f \in loc[p].add : Key(f) = Key(e))
  PROVE  AllConverge'
<1>1. /\ pc'[p] = label /\ loc'[p] = l
      /\ \A q \in Proc \ {p} : pc'[q] = pc[q] /\ loc'[q] = loc[q]
  BY OwnStep
<1>2. p \in Working(n) /\ p \in Working(n)'
  BY <1>1 DEF Working, AtWork
<1>3. Working(n)' = Working(n)
  BY <1>1, <1>2 DEF Working
<1>4. Working(n) \subseteq Proc
  BY DEF Working
<1>5. \A q \in Working(n)' : Restores(q)'
  <2>1. Restores(p)'
    BY <1>1 DEF Restores
  <2>2. ASSUME NEW q \in Working(n), q # p PROVE Restores(q)'
    <3>1. Restores(q) /\ pc'[q] = pc[q] /\ loc'[q] = loc[q]
      BY <1>1, <1>4, <2>2 DEF AllConverge, Converging
    <3> QED
      BY <3>1 DEF Restores
  <2> QED
    BY <1>3, <2>1, <2>2
<1>6. ASSUME aims[n].pure PROVE \A q \in Working(n)' : Knows(q, n)'
  <2>1. Knows(p, n)'
    BY <1>1, <1>6 DEF Knows, Goal
  <2>2. ASSUME NEW q \in Working(n), q # p PROVE Knows(q, n)'
    <3>1. Knows(q, n) /\ pc'[q] = pc[q] /\ loc'[q] = loc[q]
      BY <1>1, <1>4, <1>6, <2>2 DEF AllConverge, Converging
    <3>2. exits'[n] \ exits[n] \subseteq Goal(n)
      BY <1>6
    <3> QED
      BY <3>1, <3>2 DEF Knows, Goal
  <2> QED
    BY <1>3, <2>1, <2>2
<1>7. ASSUME aims[n].pure, SameKeys(n), NEW S \in aims[n].sets, NEW e \in S
      PROVE  Promised(n, Key(e))'
  <2>1. Promised(n, Key(e))
    BY <1>7 DEF AllConverge, Converging
  <2>2. CASE \E f \in exits'[n] : Key(f) = Key(e)
    BY <2>2 DEF Promised
  <2>3. CASE label \in {"rt_del", "rt_add"} /\ \E f \in l.add : Key(f) = Key(e)
    BY <1>1, <1>2, <2>3 DEF Promised
  <2>4. CASE /\ \A f \in exits[n] : Key(f) # Key(e)
             /\ ~(pc[p] = "rt_list")
             /\ ~(pc[p] \in {"rt_del", "rt_add"} /\ \E f \in loc[p].add : Key(f) = Key(e))
    <3>1. PICK q \in Working(n) :
            \/ pc[q] = "rt_list"
            \/ pc[q] \in {"rt_del", "rt_add"} /\ \E f \in loc[q].add : Key(f) = Key(e)
      BY <2>1, <2>4 DEF Promised
    <3>2. q # p
      BY <2>4, <3>1
    <3>3. pc'[q] = pc[q] /\ loc'[q] = loc[q] /\ q \in Working(n)'
      BY <1>1, <1>3, <1>4, <3>2
    <3> QED
      BY <3>1, <3>3 DEF Promised
  <2> QED
    BY <1>7, <2>2, <2>3, <2>4
<1>8. Converging(n)'
  BY <1>2, <1>3, <1>5, <1>6, <1>7 DEF Converging, SameKeys
<1> QED
  BY <1>8, WorkStep

\* A wanted key belongs to an exit of each thread's own set.
LEMMA OwnWish ==
  ASSUME NEW n \in Node, NEW p \in Working(n), AllConverge, aims[n].pure
  PROVE  /\ loc[p].want \in aims[n].sets /\ loc[p].want \subseteq Goal(n)
         /\ SameKeys(n) => \A S \in aims[n].sets : \A e \in S :
                             \E w \in loc[p].want : Key(w) = Key(e)
<1>1. loc[p].want \in aims[n].sets
  BY DEF AllConverge, Converging, Knows
<1>2. ASSUME SameKeys(n), NEW S \in aims[n].sets, NEW e \in S
      PROVE  \E w \in loc[p].want : Key(w) = Key(e)
  <2>1. {Key(x) : x \in S} = {Key(x) : x \in loc[p].want}
    BY <1>1, <1>2 DEF SameKeys
  <2> QED
    BY <2>1
<1> QED
  BY <1>1, <1>2 DEF Goal

\* The listing: what no one wants is to be deleted, what is missing is to be added.
LEMMA RtListConverges ==
  ASSUME Shape, AllConverge, NEW p \in Proc, RtList(p)
  PROVE  AllConverge'
<1> DEFINE l == loc[p]
           k(live) == [l EXCEPT !.del = Stale(live, l.want), !.add = l.want \ live]
<1>1. /\ l \in LocalSet /\ l.n \in Node /\ pc[p] = "rt_list" /\ UNCHANGED exits
      /\ pc[p] \in AtWork /\ "rt_del" \in AtWork /\ "idle" \notin AtWork
  BY AtNode DEF RtList, AtWork
<1>2. OneGateway(exits[l.n])
  BY <1>1 DEF AllConverge, Converging
<1>3. \A live : /\ k(live).n = l.n /\ k(live).want = l.want
                /\ k(live).del = live \ l.want /\ k(live).add = l.want \ live
  BY <1>1 DEF LocalSet, Stale
<1>4. p \in Working(l.n)
  BY <1>1 DEF Working
<1> HIDE DEF k
<1>5. ASSUME Goto(p, "rt_del", k(exits[l.n])), UNCHANGED aims
      PROVE  AllConverge'
  <2>1. PICK n \in Node : n = l.n
    BY <1>1
  <2>2. PICK j : j = k(exits[n])
    OBVIOUS
  <2>3. Goto(p, "rt_del", j) /\ j.n = n /\ j.del = exits[n] \ l.want /\ j.add = l.want \ exits[n]
        /\ j.want = l.want
    BY <1>3, <1>5, <2>1, <2>2
  <2>4. \A e \in j.del, w \in j.want : Key(w) = Key(e) => \E a \in j.add : Key(a) = Key(e)
    BY <1>2, <2>1, <2>3 DEF OneGateway
  <2>5. ASSUME aims[n].pure
        PROVE  /\ j.want \in aims[n].sets /\ j.add \subseteq j.want
               /\ exits[n] \ Goal(n) \subseteq j.del
               /\ SameKeys(n) => \A S \in aims[n].sets : \A e \in S :
                    \/ \E f \in exits[n] : Key(f) = Key(e)
                    \/ \E f \in j.add : Key(f) = Key(e)
    <3>1. /\ l.want \in aims[n].sets /\ l.want \subseteq Goal(n)
          /\ SameKeys(n) => \A S \in aims[n].sets : \A e \in S :
                              \E w \in l.want : Key(w) = Key(e)
      BY <1>4, <2>1, <2>5, OwnWish
    <3> QED
      BY <2>3, <3>1
  <2> HIDE DEF l
  <2> QED
    BY <1>1, <1>2, <1>5, <2>1, <2>3, <2>4, <2>5, OnwardStep DEF l
<1>6. ASSUME aims' = Disturbed({l.n}), Goto(p, "rt_del", k({}))
      PROVE  AllConverge'
  <2>1. k({}).n = l.n /\ k({}).del = {}
    BY <1>3
  <2> QED
    BY <1>1, <1>2, <1>6, <2>1, DisturbedStep
<1>7. ASSUME aims' = Disturbed({l.n}), Finish(p)
      PROVE  AllConverge'
  BY <1>1, <1>2, <1>7, DisturbedStep DEF Finish
<1> QED
  BY <1>5, <1>6, <1>7 DEF RtList, k

Noted(l) == [l EXCEPT !.bad = TRUE]

LEMMA ApplyOutcomes ==
  ASSUME NEW p, NEW label, NEW after, NEW l, Apply(p, label, after, l), NEW n, l.n = n
  PROVE  \/ exits' = [exits EXCEPT ![n] = after] /\ Goto(p, label, l) /\ UNCHANGED aims
         \/ /\ UNCHANGED exits /\ aims' = Disturbed({n})
            /\ Goto(p, label, Noted(l)) \/ Finish(p)
<1>1. \/ exits' = [exits EXCEPT ![l.n] = after] /\ Goto(p, label, l) /\ UNCHANGED aims
      \/ UNCHANGED exits /\ aims' = Disturbed({l.n}) /\ (Goto(p, label, Noted(l)) \/ Finish(p))
  BY Zenon DEF Apply, Noted
<1> QED
  BY <1>1

\* A command that was refused, did not reach the node or timed out.
LEMMA FailedConverges ==
  ASSUME Shape, AllConverge, NEW p \in Proc, NEW label, NEW l, NEW n \in Node,
         pc[p] \in AtWork, loc[p].n = n, label \in {"rt_del", "rt_add"},
         l \in LocalSet, l.n = n, UNCHANGED exits, aims' = Disturbed({n}),
         Goto(p, label, Noted(l)) \/ Finish(p),
         label = "rt_del" =>
           \A e \in l.del, w \in l.want : Key(w) = Key(e) => \E a \in l.add : Key(a) = Key(e)
  PROVE  AllConverge'
<1>1. OneGateway(exits[n]) /\ "idle" \notin AtWork
  BY DEF AllConverge, Converging, AtWork
<1>2. CASE Finish(p)
  BY <1>1, <1>2, DisturbedStep DEF Finish
<1>3. CASE Goto(p, label, Noted(l))
  <2>1. /\ Noted(l).n = n /\ Noted(l).del = l.del /\ Noted(l).add = l.add
        /\ Noted(l).want = l.want
    BY DEF LocalSet, Noted
  <2> QED
    BY <1>1, <1>3, <2>1, DisturbedStep
<1> QED
  BY <1>2, <1>3

\* `d exit` takes away what no one wants, or what this thread puts back.
LEMMA RtDeleteConverges ==
  ASSUME Shape, AllConverge, NEW p \in Proc, RtDelete(p)
  PROVE  AllConverge'
<1>1. /\ loc[p] \in LocalSet /\ loc[p].n \in Node /\ pc[p] = "rt_del"
      /\ pc[p] \in AtWork /\ "rt_del" \in AtWork /\ "rt_add" \in AtWork
  BY AtNode DEF RtDelete, AtWork
<1>2. PICK n \in Node : n = loc[p].n
  BY <1>1
<1>3. p \in Working(n) /\ OneGateway(exits[n]) /\ Restores(p)
  BY <1>1, <1>2 DEF Working, AllConverge, Converging
<1>4. \A e \in loc[p].del, w \in loc[p].want :
        Key(w) = Key(e) => \E a \in loc[p].add : Key(a) = Key(e)
  BY <1>1, <1>3 DEF Restores
<1>5. aims[n].pure => /\ Knows(p, n)
                      /\ SameKeys(n) => \A S \in aims[n].sets : \A e \in S :
                                          \E w \in loc[p].want : Key(w) = Key(e)
  BY <1>3, OwnWish DEF AllConverge, Converging
<1>6. ASSUME loc[p].del = {}, Goto(p, "rt_add", loc[p]), UNCHANGED <<exits, aims>>
      PROVE  AllConverge'
  <2>1. ASSUME aims[n].pure
        PROVE  /\ loc[p].want \in aims[n].sets /\ loc[p].add \subseteq loc[p].want
               /\ exits[n] \subseteq Goal(n)
    BY <1>1, <1>5, <1>6, <2>1 DEF Knows
  <2>2. \A S \in aims[n].sets : \A e \in S :
          \/ \E f \in exits[n] : Key(f) = Key(e)
          \/ \E f \in loc[p].add : Key(f) = Key(e)
          \/ /\ \A f \in exits[n] : Key(f) # Key(e)
             /\ ~(pc[p] = "rt_list")
             /\ ~(pc[p] \in {"rt_del", "rt_add"} /\ \E f \in loc[p].add : Key(f) = Key(e))
    BY <1>1
  <2> QED
    BY <1>1, <1>2, <1>3, <1>6, <2>1, <2>2, OnwardStep
<1>7. ASSUME NEW e \in loc[p].del,
             Apply(p, "rt_del", WithoutKey(exits[loc[p].n], e), [loc[p] EXCEPT !.del = @ \ {e}])
      PROVE  AllConverge'
  <2> DEFINE j == [loc[p] EXCEPT !.del = @ \ {e}]
  <2>1. PICK k : k = j
    OBVIOUS
  <2>2. /\ k \in LocalSet /\ k.n = n /\ k.want = loc[p].want /\ k.add = loc[p].add
        /\ k.del = loc[p].del \ {e}
    BY <1>1, <1>2, <2>1 DEF LocalSet
  <2> HIDE DEF j
  <2>3. Apply(p, "rt_del", WithoutKey(exits[n], e), k)
    BY <1>2, <1>7, <2>1 DEF j
  <2>4. \A d \in k.del, w \in k.want : Key(w) = Key(d) => \E a \in k.add : Key(a) = Key(d)
    BY <1>4, <2>2
  <2>5. CASE exits' = [exits EXCEPT ![n] = WithoutKey(exits[n], e)] /\ Goto(p, "rt_del", k) /\ UNCHANGED aims
    <3>1. /\ exits'[n] = WithoutKey(exits[n], e)
          /\ \A m \in Node \ {n} : exits'[m] = exits[m]
      BY <2>5 DEF Shape, ExitsOK, Book
    <3>2. OneGateway(exits'[n])
      BY <1>3, <3>1, CommandKeepsGateways
    <3>3. ASSUME aims[n].pure
          PROVE  /\ k.want \in aims[n].sets /\ k.add \subseteq k.want
                 /\ exits'[n] \ Goal(n) \subseteq k.del /\ exits'[n] \subseteq exits[n]
      BY <1>1, <1>5, <2>2, <3>1, <3>3 DEF Knows, WithoutKey
    <3>4. ASSUME aims[n].pure, SameKeys(n), NEW S \in aims[n].sets, NEW f \in S
          PROVE  \/ \E x \in exits'[n] : Key(x) = Key(f)
                 \/ \E x \in k.add : Key(x) = Key(f)
                 \/ /\ \A x \in exits[n] : Key(x) # Key(f)
                    /\ ~(pc[p] = "rt_list")
                    /\ ~(pc[p] \in {"rt_del", "rt_add"} /\ \E x \in loc[p].add : Key(x) = Key(f))
      <4>1. CASE Key(f) = Key(e)
        BY <1>4, <1>5, <2>2, <3>4, <4>1
      <4>2. CASE Key(f) # Key(e)
        BY <1>1, <2>2, <3>1, <4>2 DEF WithoutKey
      <4> QED
        BY <4>1, <4>2
    <3> QED
      BY <1>1, <1>2, <2>2, <2>4, <2>5, <3>1, <3>2, <3>3, <3>4, OnwardStep
  <2>6. CASE /\ UNCHANGED exits /\ aims' = Disturbed({n})
             /\ Goto(p, "rt_del", Noted(k)) \/ Finish(p)
    BY <1>1, <1>2, <2>2, <2>4, <2>6, FailedConverges
  <2> QED
    BY <2>2, <2>5, <2>6, <2>3, ApplyOutcomes
<1> QED
  BY <1>6, <1>7 DEF RtDelete

\* `a exit` brings what someone wants, or finds that it has been brought.
LEMMA RtAddConverges ==
  ASSUME Shape, AllConverge, NEW p \in Proc, RtAdd(p)
  PROVE  AllConverge'
<1>1. /\ loc[p] \in LocalSet /\ loc[p].n \in Node /\ pc[p] = "rt_add"
      /\ pc[p] \in AtWork /\ "rt_verify" \in AtWork /\ "rt_add" \in AtWork
  BY AtNode DEF RtAdd, AtWork
<1>2. PICK n \in Node : n = loc[p].n
  BY <1>1
<1>3. p \in Working(n) /\ OneGateway(exits[n])
  BY <1>1, <1>2 DEF Working, AllConverge, Converging
<1>4. ASSUME aims[n].pure
      PROVE  /\ loc[p].want \in aims[n].sets /\ loc[p].want \subseteq Goal(n)
             /\ loc[p].add \subseteq loc[p].want /\ exits[n] \subseteq Goal(n)
  <2>1. Knows(p, n)
    BY <1>3, <1>4 DEF AllConverge, Converging
  <2> QED
    BY <1>1, <1>3, <1>4, <2>1, OwnWish DEF Knows
<1>5. ASSUME loc[p].add = {}, Goto(p, "rt_verify", loc[p]), UNCHANGED <<exits, aims>>
      PROVE  AllConverge'
  <2>1. \A S \in aims[n].sets : \A e \in S :
          \/ \E f \in exits[n] : Key(f) = Key(e)
          \/ /\ \A f \in exits[n] : Key(f) # Key(e)
             /\ ~(pc[p] = "rt_list")
             /\ ~(pc[p] \in {"rt_del", "rt_add"} /\ \E f \in loc[p].add : Key(f) = Key(e))
    BY <1>1, <1>5
  <2> QED
    BY <1>1, <1>2, <1>3, <1>4, <1>5, <2>1, OnwardStep
<1>6. ASSUME NEW e \in loc[p].add,
             Apply(p, "rt_add", WithExit(exits[loc[p].n], e), [loc[p] EXCEPT !.add = @ \ {e}])
      PROVE  AllConverge'
  <2> DEFINE j == [loc[p] EXCEPT !.add = @ \ {e}]
  <2>1. PICK k : k = j
    OBVIOUS
  <2>2. /\ k \in LocalSet /\ k.n = n /\ k.want = loc[p].want /\ k.add = loc[p].add \ {e}
    BY <1>1, <1>2, <2>1 DEF LocalSet
  <2> HIDE DEF j
  <2>3. Apply(p, "rt_add", WithExit(exits[n], e), k)
    BY <1>2, <1>6, <2>1 DEF j
  <2>4. CASE exits' = [exits EXCEPT ![n] = WithExit(exits[n], e)] /\ Goto(p, "rt_add", k) /\ UNCHANGED aims
    <3>1. /\ exits'[n] = WithExit(exits[n], e)
          /\ \A m \in Node \ {n} : exits'[m] = exits[m]
      BY <2>4 DEF Shape, ExitsOK, Book
    <3>2. OneGateway(exits'[n])
      BY <1>3, <3>1, CommandKeepsGateways
    <3>3. /\ exits[n] \subseteq exits'[n] /\ exits'[n] \subseteq exits[n] \union {e}
          /\ \E x \in exits'[n] : Key(x) = Key(e)
      BY <3>1 DEF WithExit
    <3>4. ASSUME aims[n].pure
          PROVE  /\ k.want \in aims[n].sets /\ k.add \subseteq k.want
                 /\ exits'[n] \subseteq Goal(n)
      BY <1>4, <2>2, <3>3, <3>4
    <3>5. ASSUME NEW S \in aims[n].sets, NEW f \in S
          PROVE  \/ \E x \in exits'[n] : Key(x) = Key(f)
                 \/ \E x \in k.add : Key(x) = Key(f)
                 \/ /\ \A x \in exits[n] : Key(x) # Key(f)
                    /\ ~(pc[p] = "rt_list")
                    /\ ~(pc[p] \in {"rt_del", "rt_add"} /\ \E x \in loc[p].add : Key(x) = Key(f))
      <4>1. CASE Key(f) = Key(e)
        BY <3>3, <4>1
      <4>2. CASE Key(f) # Key(e)
        BY <1>1, <2>2, <3>3, <4>2
      <4> QED
        BY <4>1, <4>2
    <3> QED
      BY <1>1, <1>2, <2>2, <2>4, <3>1, <3>2, <3>4, <3>5, OnwardStep
  <2>5. CASE /\ UNCHANGED exits /\ aims' = Disturbed({n})
             /\ Goto(p, "rt_add", Noted(k)) \/ Finish(p)
    BY <1>1, <1>2, <2>2, <2>5, FailedConverges
  <2> QED
    BY <2>2, <2>4, <2>5, <2>3, ApplyOutcomes
<1> QED
  BY <1>5, <1>6 DEF RtAdd

\* The verification changes nothing, whatever it reports.
LEMMA RtVerifyConverges ==
  ASSUME Shape, AllConverge, NEW p \in Proc, RtVerify(p)
  PROVE  AllConverge'
<1>1. /\ loc[p].n \in Node /\ pc[p] = "rt_verify" /\ UNCHANGED exits
      /\ pc[p] \in AtWork /\ "rt_next" \notin AtWork /\ "idle" \notin AtWork
  BY AtNode DEF RtVerify, AtWork
<1>2. PICK n \in Node : n = loc[p].n
  BY <1>1
<1>3. p \in Working(n) /\ OneGateway(exits[n])
  BY <1>1, <1>2 DEF Working, AllConverge, Converging
<1>4. PICK label, l : Goto(p, label, l) /\ label \notin AtWork /\ (UNCHANGED aims \/ aims' = Disturbed({n}))
  BY <1>1, <1>2 DEF RtVerify, Finish
<1>5. CASE aims' = Disturbed({n})
  BY <1>1, <1>2, <1>3, <1>4, <1>5, DisturbedStep DEF AtWork
<1>6. CASE UNCHANGED aims
  <2>1. /\ pc'[p] = label /\ loc'[p] = l
        /\ \A q \in Proc \ {p} : pc'[q] = pc[q] /\ loc'[q] = loc[q]
    BY <1>4, OwnStep
  <2>2. Working(n)' = Working(n) \ {p}
    BY <1>4, <2>1 DEF Working, AtWork
  <2>3. \A q \in Working(n)' : q \in Working(n) /\ pc'[q] = pc[q] /\ loc'[q] = loc[q]
    BY <2>1, <2>2 DEF Working
  <2>4. \A q \in Working(n)' : Restores(q)'
    <3>1. \A q \in Working(n)' : Restores(q)
      BY <2>3 DEF AllConverge, Converging
    <3> QED
      BY <2>3, <3>1 DEF Restores
  <2>5. ASSUME aims[n].pure
        PROVE  /\ \A q \in Working(n)' : Knows(q, n)'
               /\ exits[n] \subseteq Goal(n)
    <3>1. \A q \in Working(n) : Knows(q, n)
      BY <2>5 DEF AllConverge, Converging
    <3>2. \A q \in Working(n)' : Knows(q, n)
      BY <2>3, <3>1
    <3>3. \A q \in Working(n)' : Knows(q, n)'
      BY <1>1, <1>6, <2>3, <3>2 DEF Knows, Goal
    <3> QED
      BY <1>1, <1>3, <3>1, <3>3 DEF Knows
  <2>6. ASSUME NEW k, Promised(n, k) PROVE Promised(n, k)'
    <3>1. CASE \E e \in exits[n] : Key(e) = k
      BY <1>1, <3>1 DEF Promised
    <3>2. ASSUME NEW q \in Working(n),
                 \/ pc[q] = "rt_list"
                 \/ pc[q] \in {"rt_del", "rt_add"} /\ \E e \in loc[q].add : Key(e) = k
          PROVE  Promised(n, k)'
      <4>1. q # p
        BY <1>1, <3>2
      <4>2. q \in Working(n)' /\ pc'[q] = pc[q] /\ loc'[q] = loc[q]
        BY <2>2, <2>3, <3>2, <4>1
      <4> QED
        BY <3>2, <4>2 DEF Promised
    <3> QED
      BY <2>6, <3>1, <3>2 DEF Promised
  <2>7. Converging(n)'
    <3>1. SameKeys(n)' = SameKeys(n) /\ Goal(n)' = Goal(n)
      BY <1>6 DEF SameKeys, Goal
    <3>2. aims[n].pure /\ SameKeys(n) => \A S \in aims[n].sets : \A e \in S : Promised(n, Key(e))
      BY DEF AllConverge, Converging
    <3> QED
      BY <1>1, <1>3, <1>6, <2>4, <2>5, <2>6, <3>1, <3>2 DEF Converging
  <2> QED
    BY <1>1, <1>2, <1>4, <1>6, <2>7, WorkStep
<1> QED
  BY <1>4, <1>5, <1>6

-----------------------------------------------------------------------------
(* Everything else *)

\* The step is no part of a reconciliation, and leaves exits and history alone.
Quiet(p) ==
  /\ pc[p] \notin AtWork /\ UNCHANGED <<exits, aims>>
  /\ \/ UNCHANGED <<pc, loc>>
     \/ \E label, l : Goto(p, label, l) /\ label \notin AtWork

LEMMA QuietConverges ==
  ASSUME Shape, AllConverge, NEW p \in Proc, Quiet(p)
  PROVE  AllConverge'
<1>1. CASE UNCHANGED <<pc, loc>>
  <2>1. \A n \in Node : Working(n)' = Working(n)
    BY <1>1 DEF Working
  <2> QED
    BY <1>1, <2>1, QuietAt DEF AllConverge, Quiet
<1>2. CASE \E label, l : Goto(p, label, l) /\ label \notin AtWork
  BY <1>2, QuietStep DEF Quiet
<1> QED
  BY <1>1, <1>2 DEF Quiet

LEMMA LinkLifeIsQuiet ==
  ASSUME NEW p \in Proc,
         \/ \E n \in Node : NodeReserved(p, n) \/ DeleteNode(p, n)
         \/ \E pr \in Pair : DeleteLink(p, pr) \/ \E cl \in CL : LinkReserved(p, pr, cl)
         \/ LinkMade(p) \/ GoneNext(p) \/ NetGone(p) \/ LinkPopped(p)
  PROVE  Quiet(p)
<1> USE DEF Quiet, AtWork
<1>1. ASSUME NEW n \in Node, NodeReserved(p, n) PROVE Quiet(p)
  BY <1>1 DEF NodeReserved, Begin, liveOnly
<1>2. ASSUME NEW n \in Node, DeleteNode(p, n) PROVE Quiet(p)
  <2>1. \E k : Goto(p, "gone_next", k)
    BY <1>2, Zenon DEF DeleteNode
  <2>2. pc[p] = "idle" /\ UNCHANGED <<exits, aims>>
    BY <1>2 DEF DeleteNode, Begin, liveOnly
  <2> QED
    BY <2>1, <2>2
<1>3. ASSUME NEW pr \in Pair, NEW cl \in CL, LinkReserved(p, pr, cl) PROVE Quiet(p)
  <2>1. \E k : Goto(p, "made_link", k)
    BY <1>3, Zenon DEF LinkReserved
  <2>2. pc[p] = "idle" /\ UNCHANGED <<exits, aims>>
    BY <1>3 DEF LinkReserved, Begin, liveOnly
  <2> QED
    BY <2>1, <2>2
<1>4. ASSUME NEW pr \in Pair, DeleteLink(p, pr) PROVE Quiet(p)
  <2>1. \E k : Goto(p, "gone_net", k)
    BY <1>4, Zenon DEF DeleteLink
  <2>2. pc[p] = "idle" /\ UNCHANGED <<exits, aims>>
    BY <1>4 DEF DeleteLink, Begin, liveOnly
  <2> QED
    BY <2>1, <2>2
<1>5. CASE LinkMade(p)
  <2>1. \E k : Goto(p, "idle", k)
    BY <1>5, Zenon DEF LinkMade, Finish
  <2>2. pc[p] = "made_link" /\ UNCHANGED <<exits, aims>>
    BY <1>5, Zenon DEF LinkMade
  <2> QED
    BY <2>1, <2>2
<1>6. CASE GoneNext(p)
  <2>1. \E k : Goto(p, "gone_net", k) \/ Goto(p, "gone_next", k)
    BY <1>6, Zenon DEF GoneNext
  <2> QED
    BY <1>6, <2>1 DEF GoneNext, liveOnly
<1>7. ASSUME LinkDone(p) \/ Goto(p, "gone_pop", loc[p]), pc[p] \in {"gone_net", "gone_pop"},
             UNCHANGED <<exits, aims>>
      PROVE  Quiet(p)
  <2>1. \E k : Goto(p, "idle", k) \/ Goto(p, "gone_next", k) \/ Goto(p, "gone_pop", k)
    BY <1>7, Zenon DEF LinkDone, Finish
  <2> QED
    BY <1>7, <2>1
<1>8. CASE NetGone(p)
  BY <1>7, <1>8 DEF NetGone
<1>9. CASE LinkPopped(p)
  BY <1>7, <1>9 DEF LinkPopped
<1> QED
  BY <1>1, <1>2, <1>3, <1>4, <1>5, <1>6, <1>8, <1>9

LEMMA LifeConverges ==
  ASSUME Shape, AllConverge, NEW p \in Proc, LifeCall(p) \/ LifeStep(p)
  PROVE  AllConverge'
<1>1. CASE NodeMade(p)
  <2>1. loc[p].n \in Node /\ pc[p] \notin AtWork /\ "idle" \notin AtWork
    BY <1>1 DEF Shape, ThreadsOK, Fits, OnNode, NodeMade, AtWork
  <2> QED
    BY <1>1, <2>1, LossConverges DEF NodeMade, Finish
<1>2. CASE NodeDropped(p)
  <2>1. loc[p].n \in Node /\ pc[p] \notin AtWork /\ "idle" \notin AtWork
    BY <1>2 DEF Shape, ThreadsOK, Fits, OnNode, NodeDropped, AtWork
  <2> QED
    BY <1>2, <2>1, LossConverges DEF NodeDropped, Finish
<1>3. CASE ContainerGone(p)
  <2>1. loc[p].n \in Node /\ pc[p] \notin AtWork /\ "idle" \notin AtWork /\ "gone_node" \notin AtWork
    BY <1>3 DEF Shape, ThreadsOK, Fits, OnNode, ContainerGone, AtWork
  <2>2. PICK label \in {"idle", "gone_node"} : \E l : Goto(p, label, l)
    BY <1>3, Zenon DEF ContainerGone, Finish
  <2>3. PICK l : Goto(p, label, l)
    BY <2>2
  <2>4. CASE Stopped(loc[p].n)
    BY <2>1, <2>3, <2>4, LossConverges DEF Stopped
  <2>5. CASE UNCHANGED <<exits, aims>>
    BY <2>1, <2>3, <2>5, QuietConverges DEF Quiet
  <2> QED
    BY <1>3, <2>4, <2>5 DEF ContainerGone
<1>4. CASE ~(NodeMade(p) \/ NodeDropped(p) \/ ContainerGone(p))
  <2>1. Quiet(p)
    BY <1>4, LinkLifeIsQuiet DEF LifeCall, LifeStep
  <2> QED
    BY <2>1, QuietConverges
<1> QED
  BY <1>1, <1>2, <1>3, <1>4

LEMMA ExitCallIsQuiet ==
  ASSUME NEW p \in Proc, ExitCall(p) \/ RawCall(p) \/ ClearNext(p)
  PROVE  Quiet(p)
<1> USE DEF Quiet, AtWork, Begin, liveOnly
<1>1. CASE SetAllExits(p) \/ ClearAllExits(p)
  BY <1>1 DEF SetAllExits, ClearAllExits
<1>2. ASSUME NEW n \in Node, NEW e,
             SetNodeExits(p, n) \/ AddExit(p, n, e) \/ DeleteExit(p, n, e) \/ ApplyRawExit(p, n, e)
      PROVE  Quiet(p)
  BY <1>2 DEF SetNodeExits, AddExit, DeleteExit, ApplyRawExit
<1>3. CASE ClearNext(p)
  BY <1>3 DEF ClearNext, Finish
<1> QED
  BY <1>1, <1>2, <1>3 DEF ExitCall, RawCall

LEMMA DisruptionIsQuiet ==
  ASSUME NEW p \in Proc, DisruptCall(p) \/ DisruptStep(p)
  PROVE  Quiet(p)
<1> USE DEF Quiet, AtWork, Begin, liveOnly, Finish
<1>1. ASSUME NEW pr \in Pair, NEW m, DisruptLink(p, pr, m) \/ RestoreLink(p, pr) PROVE Quiet(p)
  BY <1>1 DEF DisruptLink, RestoreLink, Look
<1>2. CASE Tc(p)
  BY <1>2 DEF Tc
<1>3. CASE DisruptDone(p) \/ RestoreDone(p)
  BY <1>3 DEF DisruptDone, RestoreDone
<1> QED
  BY <1>1, <1>2, <1>3 DEF DisruptCall, DisruptStep

LEMMA DocumentsAreQuiet ==
  ASSUME NEW p \in Proc, DocCall(p) \/ DocStep(p)
  PROVE  Quiet(p)
<1> USE DEF Quiet, AtWork, Begin, liveOnly, docOnly, Finish
<1>1. CASE ExportScenario(p) \/ ExportBundle(p)
  BY <1>1 DEF ExportScenario, ExportBundle
<1>2. ASSUME NEW n \in Node, GetNodeConfig(p, n) PROVE Quiet(p)
  BY <1>2 DEF GetNodeConfig
<1>3. CASE ExportStep(p)
  BY <1>3 DEF ExportStep, ListNext, WriteFile
<1>4. CASE ConfigStep(p)
  BY <1>4 DEF ConfigStep, ListNext, ShowConfig
<1>5. CASE BundleLinks(p)
  BY <1>5 DEF BundleLinks
<1>6. CASE BundleStep(p)
  BY <1>6 DEF BundleStep, ListNext, PackBundle
<1> QED
  BY <1>1, <1>2, <1>3, <1>4, <1>5, <1>6 DEF DocCall, DocStep

-----------------------------------------------------------------------------
(* The theorem *)

\* There is one exit for each destination that is wanted.
LEMMA WantedOneGateway ==
  ASSUME NEW n, NEW there, NEW adj, NEW order
  PROVE  OneGateway(Wanted(n, there, adj, order))
  BY DEF OneGateway, Wanted, Key

LEMMA InitConverges ==
  ASSUME Init
  PROVE  AllConverge
<1> SUFFICES ASSUME NEW n \in Node PROVE Converging(n)
  BY DEF AllConverge
<1>1. Working(n) = {} /\ aims[n].sets = {}
  BY DEF Init, Working, NoAims
<1>2. OneGateway(exits[n])
  <2>1. exits[n] = {} \/ \E there, adj, order : exits[n] = Wanted(n, there, adj, order)
    <3>1. PICK s \in Scenes : \E order \in Orders :
              LET was == [k \in Node |-> {m \in Node : s.was \intersect {<<m, k>>, <<k, m>>} # {}}]
              IN exits = [k \in Node |-> IF k \in s.nodes THEN Wanted(k, s.nodes, was, order) ELSE {}]
      BY DEF Init
    <3>2. PICK adj, order :
            exits = [k \in Node |-> IF k \in s.nodes THEN Wanted(k, s.nodes, adj, order) ELSE {}]
      BY <3>1
    <3> QED
      BY <3>2
  <2> QED
    BY <2>1, WantedOneGateway DEF OneGateway
<1> QED
  BY <1>1, <1>2 DEF Converging

LEMMA StepConverges ==
  ASSUME Shape, AllConverge, [Next]_liveVars
  PROVE  AllConverge'
<1>1. CASE UNCHANGED liveVars
  <2>1. UNCHANGED <<exits, aims, pc, loc>>
    BY <1>1 DEF liveVars, vars
  <2>2. \A n \in Node : Working(n)' = Working(n)
    BY <2>1 DEF Working
  <2> QED
    BY <2>1, <2>2, QuietAt DEF AllConverge
<1>2. ASSUME NEW p \in Proc, LifeCall(p) \/ LifeStep(p)
      PROVE  AllConverge'
  BY <1>2, LifeConverges
<1>3. ASSUME NEW p \in Proc, ExitCall(p) \/ ExitStep(p) \/ RawCall(p)
      PROVE  AllConverge'
  BY <1>3, RtNextConverges, RtListConverges, RtDeleteConverges, RtAddConverges, RtVerifyConverges,
     HandConverges, ClearDeleteConverges, ExitCallIsQuiet, QuietConverges DEF ExitStep
<1>4. ASSUME NEW p \in Proc, DisruptCall(p) \/ DisruptStep(p) \/ DocCall(p) \/ DocStep(p)
      PROVE  AllConverge'
  BY <1>4, DisruptionIsQuiet, DocumentsAreQuiet, QuietConverges
<1> QED
  BY <1>1, <1>2, <1>3, <1>4, ContainerExitsConverges DEF Next, Call, Step

\* Any number of threads may reconcile the exits of one node at the same time, with
\* listings that are out of date by the time they delete and add: once they are done, and
\* all of them wanted the same destinations, the node has an exit for exactly those, each
\* through a gateway that one of them chose (_reconcile_node_exits).
THEOREM ReconciliationConverges == Spec => []ReconcilesConverge
<1>1. Init => AllConverge
  BY InitConverges
<1>2. Shape /\ AllConverge /\ [Next]_liveVars => AllConverge'
  BY StepConverges
<1>3. AllConverge => ReconcilesConverge
  BY ConvergingSuffices
<1> QED
  BY <1>1, <1>2, <1>3, ShapeHolds, PTL DEF Spec

-----------------------------------------------------------------------------
(* Delivery *)

\* A bundle's way from n to d.
TripStep(n, d, f, k) ==
  IF k = 0 THEN n ELSE IF f[k - 1] \in {NoGateway, d} THEN f[k - 1] ELSE Hop(f[k - 1], d)

IsTrip(n, d, f, N) == f = [k \in 0..N |-> TripStep(n, d, f, k)]

LEMMA TripExists ==
  ASSUME NEW n, NEW d, NEW N \in Nat
  PROVE  \E f : IsTrip(n, d, f, N)
<1> USE DEF IsTrip
<1> DEFINE Rec(f, m) == IsTrip(n, d, f, m)
           T == {m \in 0..N : \E f : Rec(f, m)}
<1>1. 0 \in T
  <2> DEFINE g == [k \in 0..0 |-> n]
             h == [k \in 0..0 |-> TripStep(n, d, g, k)]
  <2>0. \A k \in 0..0 : k = 0
    OBVIOUS
  <2>1. g = h
    BY <2>0 DEF TripStep
  <2>2. Rec(g, 0)
    <3> HIDE DEF g
    <3> QED
      BY <2>1
  <2> HIDE DEF g, Rec
  <2> QED
    BY <2>2
<1>2. ASSUME NEW m \in 0..N, m < N, m \in T PROVE m + 1 \in T
  <2>1. PICK f : Rec(f, m)
    BY <1>2
  <2> DEFINE e == [k \in 0..m |-> TripStep(n, d, f, k)]
             g == [k \in 0..(m + 1) |-> TripStep(n, d, f, k)]
             h == [k \in 0..(m + 1) |-> TripStep(n, d, g, k)]
  <2>2. f = e
    BY <2>1
  <2>3. \A k \in 0..m : g[k] = e[k]
    OBVIOUS
  <2>4. \A k \in 0..m : g[k] = f[k]
    <3> HIDE DEF g, e
    <3> QED
      BY <2>2, <2>3
  <2>5. \A k \in 0..(m + 1) : k # 0 => k - 1 \in 0..m
    OBVIOUS
  <2>6. \A k \in 0..(m + 1) : TripStep(n, d, f, k) = TripStep(n, d, g, k)
    <3> HIDE DEF g
    <3> QED
      BY <2>4, <2>5 DEF TripStep
  <2>7. g = h
    BY <2>6
  <2>8. Rec(g, m + 1)
    <3> HIDE DEF g
    <3> QED
      BY <2>7
  <2>9. m + 1 \in 0..N
    BY <1>2
  <2> HIDE DEF g, Rec
  <2> QED
    BY <2>8, <2>9
<1> HIDE DEF T
<1>3. 0..N \subseteq T
  BY <1>1, <1>2, UpTo
<1>4. N \in T
  BY <1>3
<1> QED
  BY <1>4 DEF T

\* Arrives says where a trip is after as many hops as the distance.
LEMMA ArrivesOnTrip ==
  ASSUME NEW n, NEW d, Distance(n, d, Adjacent) \in 0..Cardinality(Node)
  PROVE  \E f : /\ f[0] = n
                /\ \A k \in 0..Cardinality(Node) : k # 0 =>
                     f[k] = IF f[k - 1] \in {NoGateway, d} THEN f[k - 1] ELSE Hop(f[k - 1], d)
                /\ Arrives(n, d) <=> f[Distance(n, d, Adjacent)] = d
<1> DEFINE N == Cardinality(Node)
           f0 == CHOOSE at : at = [k \in 0..N |->
                   IF k = 0 THEN n
                   ELSE IF at[k - 1] \in {NoGateway, d} THEN at[k - 1] ELSE Hop(at[k - 1], d)]
<1>0. N \in Nat
  BY LiveNodeAssumption, FS_CardinalityType
<1>1. PICK f : IsTrip(n, d, f, N)
  <2> HIDE DEF N
  <2> QED
    BY <1>0, TripExists
<1>2. f0 = [k \in 0..N |-> TripStep(n, d, f0, k)]
  <2> HIDE DEF N
  <2> QED
    BY <1>1 DEF TripStep, IsTrip
<1>3. Arrives(n, d) <=> f0[Distance(n, d, Adjacent)] = d
  BY DEF Arrives
<1> HIDE DEF f0
<1> DEFINE e == [k \in 0..N |-> TripStep(n, d, f0, k)]
<1>4. \A k \in 0..N : f0[k] = TripStep(n, d, f0, k)
  <2>1. \A k \in 0..N : e[k] = TripStep(n, d, f0, k)
    OBVIOUS
  <2>2. f0 = e
    BY <1>2
  <2> HIDE DEF e
  <2> QED
    BY <2>1, <2>2
<1>5. 0 \in 0..N
  BY <1>0
<1>6. /\ f0[0] = n
      /\ \A k \in 0..N : k # 0 =>
           f0[k] = IF f0[k - 1] \in {NoGateway, d} THEN f0[k - 1] ELSE Hop(f0[k - 1], d)
  <2> HIDE DEF N
  <2> QED
    BY <1>4, <1>5 DEF TripStep
<1> QED
  BY <1>3, <1>6

\* The distance is the radius of the least ball.
LEMMA DistanceIs ==
  ASSUME NEW n \in Node, NEW d \in Node, Connected(n, d, Adjacent)
  PROVE  /\ Distance(n, d, Adjacent) \in 0..Cardinality(Node)
         /\ d \in Ball(n, Adjacent, Distance(n, d, Adjacent))
<1> DEFINE N == Cardinality(Node)
           R == {k \in 0..N : d \in Ball(n, Adjacent, k)}
<1>0. DOMAIN Adjacent = Node /\ N \in Nat
  BY LiveNodeAssumption, FS_CardinalityType DEF Adjacent
<1>1. N \in R
  BY <1>0 DEF Connected
<1>2. R \subseteq Nat
  BY <1>0
<1> HIDE DEF R
<1>3. Min(R) \in R /\ \A k \in R : Min(R) <= k
  BY <1>1, <1>2, MinIsLeast
<1>4. PICK least \in 0..N : least = Min(R) /\ d \in Ball(n, Adjacent, least)
  BY <1>3 DEF R
<1>5. ASSUME NEW j \in 0..(least - 1) PROVE d \notin Ball(n, Adjacent, j)
  <2>1. j \in 0..N /\ ~(least <= j)
    BY <1>0
  <2> QED
    BY <1>3, <1>4, <2>1 DEF R
<1> HIDE DEF N
<1>6. Distance(n, d, Adjacent) =
        CHOOSE k \in 0..N : d \in Ball(n, Adjacent, k) /\ \A j \in 0..(k - 1) : d \notin Ball(n, Adjacent, j)
  BY <1>0 DEF Distance, N
<1>7. Distance(n, d, Adjacent) \in 0..N /\ d \in Ball(n, Adjacent, Distance(n, d, Adjacent))
  BY <1>4, <1>5, <1>6
<1> QED
  BY <1>7 DEF N

\* What the orders and the neighbours are to the search.
LEMMA SearchFacts ==
  /\ IsFiniteSet(Node) /\ Adjacent \in [Node -> SUBSET Node] /\ NoGateway \notin Node
  /\ \A o \in Orders : o \in Seq(Node) /\ Once(o) /\ Members(o) = Node
  /\ \A n \in Node : Adjacent[n] = Neighbors(n)
  BY LiveNodeAssumption, OrderAssumption, SetsTyped DEF Once, Members, Adjacent

\* Node n has what one of its searches wanted.
Equipped(n) ==
  /\ \A e \in exits[n] : \E o \in Orders : e \in Wanted(n, There, Adjacent, o)
  /\ \E o \in Orders : {Key(e) : e \in exits[n]} = {Key(e) : e \in Wanted(n, There, Adjacent, o)}

\* One hop brings a bundle one link nearer.
LEMMA HopLeads ==
  ASSUME Dangling = {}, NEW n \in There, Equipped(n), NEW d \in There, d # n,
         NEW k \in Nat \ {0}, d \in Ball(n, Adjacent, k)
  PROVE  Hop(n, d) \in There /\ d \in Ball(Hop(n, d), Adjacent, k - 1)
<1>1. n \in Node /\ d \in Node /\ There \subseteq Node
  BY DEF There
<1>2. CASE d \in Neighbors(n)
  <2>1. Hop(n, d) = d
    BY <1>2 DEF Hop
  <2>2. k - 1 \in Nat /\ 0 \in Nat /\ 0 <= k - 1
    OBVIOUS
  <2>3. Ball(d, Adjacent, 0) = {d}
    BY BallRec
  <2>4. Ball(d, Adjacent, 0) \subseteq Ball(d, Adjacent, k - 1)
    BY <1>1, <2>2, SearchFacts, BallGrows
  <2> QED
    BY <2>1, <2>3, <2>4
<1>3. CASE d \notin Neighbors(n)
  <2> DEFINE via == {e \in exits[n] : e[1] <= d /\ d <= e[2] /\ e[3] \in Neighbors(n)}
  <2>1. ASSUME NEW o \in Orders
        PROVE  LET m == NextHop(n, Adjacent, o)[d]
               IN m # NoGateway /\ m \in Neighbors(n) /\ d \in Ball(m, Adjacent, k - 1)
    BY <1>1, SearchFacts, NextHopsAreShortest
  <2>2. ASSUME NEW o \in Orders
        PROVE  <<d, d, NextHop(n, Adjacent, o)[d]>> \in Wanted(n, There, Adjacent, o)
    BY <1>1, <1>3, <2>1, SearchFacts DEF Wanted
  <2>3. ASSUME NEW e \in via
        PROVE  e[3] \in Neighbors(n) /\ d \in Ball(e[3], Adjacent, k - 1)
    <3>1. PICK o \in Orders : e \in Wanted(n, There, Adjacent, o)
      BY DEF Equipped
    <3>2. PICK x \in There : e = <<x, x, NextHop(n, Adjacent, o)[x]>>
      BY <3>1 DEF Wanted
    <3>3. x = d
      BY <1>1, <3>2, LiveNodeAssumption
    <3> QED
      BY <2>1, <3>2, <3>3
  <2>4. via # {}
    <3>1. PICK o \in Orders :
            {Key(e) : e \in exits[n]} = {Key(e) : e \in Wanted(n, There, Adjacent, o)}
      BY DEF Equipped
    <3> DEFINE w == <<d, d, NextHop(n, Adjacent, o)[d]>>
    <3>0. w \in Wanted(n, There, Adjacent, o) /\ Key(w) = <<d, d>>
      BY <2>2 DEF Key
    <3>2. <<d, d>> \in {Key(e) : e \in Wanted(n, There, Adjacent, o)}
      <4> HIDE DEF w
      <4> QED
        BY <3>0
    <3>3. PICK e \in exits[n] : <<e[1], e[2]>> = <<d, d>>
      BY <3>1, <3>2 DEF Key
    <3>4. PICK q \in Orders : e \in Wanted(n, There, Adjacent, q)
      BY DEF Equipped
    <3>5. e[3] = NextHop(n, Adjacent, q)[d]
      BY <3>3, <3>4 DEF Wanted
    <3>6. e[1] <= d /\ d <= e[2]
      BY <1>1, <3>3, LiveNodeAssumption
    <3> QED
      BY <2>1, <3>5, <3>6
  <2>5. Hop(n, d) = (CHOOSE e \in via : TRUE)[3]
    BY <1>3, <2>4 DEF Hop
  <2> HIDE DEF via
  <2>6. PICK e \in via : Hop(n, d) = e[3]
    BY <2>4, <2>5
  <2>7. Hop(n, d) \in Neighbors(n) /\ d \in Ball(Hop(n, d), Adjacent, k - 1)
    BY <2>3, <2>6
  <2>8. Neighbors(n) \subseteq There
    BY <1>1 DEF Neighbors, Dangling, Ends
  <2> QED
    BY <2>7, <2>8
<1> QED
  BY <1>2, <1>3

\* Hop by hop a bundle reaches its destination.
LEMMA TripArrives ==
  ASSUME Dangling = {}, \A n \in There : Equipped(n),
         NEW n \in There, NEW d \in There, Connected(n, d, Adjacent)
  PROVE  Arrives(n, d)
<1> DEFINE N == Cardinality(Node)
           D == Distance(n, d, Adjacent)
<1>0. n \in Node /\ d \in Node /\ NoGateway \notin There /\ N \in Nat
  BY LiveNodeAssumption, FS_CardinalityType DEF There
<1>1. D \in 0..N /\ d \in Ball(n, Adjacent, D)
  BY <1>0, DistanceIs
<1>2. PICK f : /\ f[0] = n
               /\ \A k \in 0..N : k # 0 =>
                    f[k] = IF f[k - 1] \in {NoGateway, d} THEN f[k - 1] ELSE Hop(f[k - 1], d)
               /\ Arrives(n, d) <=> f[D] = d
  BY <1>1, ArrivesOnTrip
<1> HIDE DEF N, D
<1> DEFINE T == {k \in 0..D : f[k] \in There /\ d \in Ball(f[k], Adjacent, D - k)}
<1>3. 0 \in T
  <2>1. 0 \in 0..D /\ D - 0 = D
    BY <1>0, <1>1
  <2> QED
    BY <1>1, <1>2, <2>1
<1>4. ASSUME NEW k \in 0..D, k < D, k \in T PROVE k + 1 \in T
  <2> DEFINE x == f[k]
  <2>1. /\ k + 1 \in 0..D /\ k + 1 \in 0..N /\ k + 1 # 0 /\ (k + 1) - 1 = k
        /\ D - k \in Nat \ {0} /\ (D - k) - 1 = D - (k + 1) /\ D - (k + 1) \in Nat
    BY <1>0, <1>1, <1>4
  <2>2. x \in There /\ d \in Ball(x, Adjacent, D - k) /\ x # NoGateway
    BY <1>0, <1>4
  <2>3. f[k + 1] = IF x \in {NoGateway, d} THEN x ELSE Hop(x, d)
    BY <1>2, <2>1
  <2> HIDE DEF x
  <2>4. CASE x = d
    <3>1. f[k + 1] = d
      BY <2>3, <2>4
    <3>2. 0 \in Nat /\ 0 <= D - (k + 1) /\ Ball(d, Adjacent, 0) = {d}
      BY <2>1, BallRec
    <3>3. Ball(d, Adjacent, 0) \subseteq Ball(d, Adjacent, D - (k + 1))
      BY <1>0, <2>1, <3>2, SearchFacts, BallGrows
    <3> QED
      BY <2>1, <3>1, <3>2, <3>3
  <2>5. CASE x # d
    <3>1. f[k + 1] = Hop(x, d)
      BY <2>2, <2>3, <2>5
    <3>2. Hop(x, d) \in There /\ d \in Ball(Hop(x, d), Adjacent, (D - k) - 1)
      BY <2>1, <2>2, <2>5, HopLeads
    <3> QED
      BY <2>1, <3>1, <3>2
  <2> QED
    BY <2>4, <2>5
<1> HIDE DEF T
<1>5. D \in Nat
  BY <1>0, <1>1
<1>6. 0..D \subseteq T
  BY <1>3, <1>4, <1>5, UpTo
<1>7. d \in Ball(f[D], Adjacent, 0)
  <2>1. D \in T /\ D - D = 0
    BY <1>5, <1>6
  <2> QED
    BY <2>1 DEF T
<1> QED
  BY <1>2, <1>7, BallRec

\* The exits that reconciliations leave deliver.
LEMMA ConvergedDelivers ==
  ASSUME ReconcilesConverge
  PROVE  RoutesDeliver
<1> SUFFICES ASSUME Dangling \union Unwired = {}, There = Running,
                    \A n \in There : Settled(n),
                    \A n \in There : aims[n].sets \subseteq {Wanted(n, There, Adjacent, o) : o \in Orders}
             PROVE  \A n, d \in There : n # d /\ Connected(n, d, Adjacent) => Arrives(n, d)
  BY DEF RoutesDeliver
<1>1. ASSUME NEW n \in There PROVE Equipped(n)
  <2>1. /\ exits[n] \subseteq UNION aims[n].sets
        /\ \A S \in aims[n].sets : {Key(e) : e \in exits[n]} = {Key(e) : e \in S}
    BY DEF ReconcilesConverge, There
  <2>2. aims[n].sets # {}
    BY DEF Settled
  <2>3. PICK o \in Orders : Wanted(n, There, Adjacent, o) \in aims[n].sets
    BY <2>2
  <2>4. ASSUME NEW e \in exits[n] PROVE \E q \in Orders : e \in Wanted(n, There, Adjacent, q)
    BY <2>1
  <2> QED
    BY <2>1, <2>3, <2>4 DEF Equipped
<1> QED
  BY <1>1, TripArrives

\* When every node runs, every link has both its ends, the last reconciliations of all
\* nodes were made for the links there are, and no other call interfered, bundles reach
\* every connected node over a shortest path, in any topology, whatever paths the nodes
\* chose and however their reconciliations interleaved.
THEOREM BundlesArrive == Spec => []RoutesDeliver
<1>1. ReconcilesConverge => RoutesDeliver
  BY ConvergedDelivers
<1> QED
  BY <1>1, ReconciliationConverges, PTL
-----------------------------------------------------------------------------
(* The status of links                                                      *)

\* disrupt_link or restore_link after its lookup.
Flying == {"tc_replace", "tc_del", "disrupted", "restored"}

UniqueIndices == \A pr, qr \in LinkNames : links[pr].idx = links[qr].idx => pr = qr
CleanSlate == \A pr \in Pair \ LinkNames : tc[pr] = NoTc

\* The links that the claim is about.
Clear == LinkNames \ (torn \union Unwired)

\* Two calls that work on the same link put it in doubt, and each disturbs the other.
Overlaps ==
  \A p, q \in Proc : p # q /\ loc[p].pr = loc[q].pr /\ loc[p].pr \in Pair =>
    loc[p].pr \in torn /\ p \in touched

Matches(pr) ==
  /\ \A s \in Side : tc[pr][s] = TcArgs(links[pr].netem)
  /\ links[pr].st = "down" <=> links[pr].netem.loss >= 100
  /\ links[pr].st \in {"up", "error"} => links[pr].netem = NoNetem

\* A link that is being created is as new, with the ends it has.
Making(p) ==
  LET pr == loc[p].pr
  IN pr \in LinkNames \ torn =>
       links[pr].netem = NoNetem /\ \A s \in Side : tc[pr][s] \in {NoNetem, Cut}

\* A deletion that fails before it disconnects the ends leaves the link as it was.
Leaving(p) == loc[p].pr \in Clear => Matches(loc[p].pr)

\* What call p has done with tc so far.
Applied(p) ==
  LET l == loc[p]
  IN /\ pc[p] \in {"tc_replace", "tc_del"} /\ l.side = "b" => tc[l.pr]["a"] = TcArgs(l.netem)
     /\ pc[p] \in {"disrupted", "restored"} => \A s \in Side : tc[l.pr][s] = TcArgs(l.netem)

\* The stamp and the index of its lookup tell the link of call p from all others, and a
\* call that nothing disturbed, or whose link is not in doubt, still has that link.
Flight(p) ==
  LET l == loc[p]
  IN /\ l.made \in 1..(started + 1)
     /\ \A pr \in Pair : links[pr].made = l.made /\ links[pr].idx = l.idx => pr = l.pr
     /\ links[l.pr].made = l.made => links[l.pr].idx = l.idx
     /\ l.pr \in Clear \/ p \notin touched => links[l.pr].made = l.made
     /\ l.pr \in Clear \/ (p \notin touched /\ ~l.bad) => Applied(p)

ThreadSound(p) == /\ pc[p] = "made_link" => Making(p)
                  /\ pc[p] = "gone_net" => Leaving(p)
                  /\ pc[p] \in Flying => Flight(p)

Settles == \A pr \in Clear : (\A p \in Proc : loc[p].pr # pr) => Matches(pr)

Sound ==
  /\ UniqueIndices /\ CleanSlate /\ Overlaps /\ Settles
  /\ \A p \in Proc : ThreadSound(p)

\* A link that is there and not in doubt after the step is as it was before, save that
\* it may have lost its ends.
Steady(pr) ==
  pr \in LinkNames' \ torn' =>
    /\ pr \in LinkNames \ torn /\ links'[pr] = links[pr]
    /\ \A s \in Side : tc'[pr][s] \in {tc[pr][s], Cut}

\* Links change their stamp and index by being removed, or made by a new call.
Restamps ==
  \A pr \in Pair :
    \/ links'[pr].made = links[pr].made /\ links'[pr].idx = links[pr].idx
    \/ links'[pr].made = 0
    \/ links'[pr].made > started + 1

\* The invariant says what is claimed.
LEMMA SoundSuffices ==
  ASSUME Shape, Sound
  PROVE  StatusMatchesTc
<1>1. ASSUME NEW pr \in Clear, \A p \in Proc : loc[p].pr # pr
      PROVE  Matches(pr)
  BY <1>1 DEF Sound, Settles
<1> QED
  BY <1>1 DEF StatusMatchesTc, Matches, Clear

-----------------------------------------------------------------------------
(* What the history does *)

LEMMA LinkThreads ==
  ASSUME Shape, NEW p \in Proc
  PROVE  /\ pc[p] \in OnLink <=> loc[p].pr \in Pair
         /\ pc[p] \in Flying \union {"made_link", "gone_net", "gone_pop"} => loc[p].pr \in Pair
         /\ pc[p] = "idle" => loc[p].pr \notin Pair
<1>1. pc[p] \in OnLink <=> loc[p].pr \in Pair
  BY DEF Shape, ThreadsOK, Fits
<1> QED
  BY <1>1 DEF OnLink, Flying

\* A link that is clear after a step that it is steady in was so before.
LEMMA ClearStays ==
  ASSUME NEW pr, Steady(pr), pr \in Clear'
  PROVE  pr \in Clear /\ links'[pr] = links[pr] /\ \A s \in Side : tc'[pr][s] = tc[pr][s]
<1>1. pr \in LinkNames' \ torn' /\ \A s \in Side : tc'[pr][s] # Cut
  BY DEF Clear, Unwired
<1>2. /\ pr \in LinkNames \ torn /\ links'[pr] = links[pr]
      /\ \A s \in Side : tc'[pr][s] = tc[pr][s]
  BY <1>1 DEF Steady
<1> QED
  BY <1>1, <1>2 DEF Clear, Unwired

LEMMA MatchesStays ==
  ASSUME NEW pr, Matches(pr), links'[pr] = links[pr], \A s \in Side : tc'[pr][s] = tc[pr][s]
  PROVE  Matches(pr)'
  BY DEF Matches

LEMMA OverlapsNext ==
  ASSUME Shape', History
  PROVE  Overlaps'
<1> SUFFICES ASSUME NEW p \in Proc, NEW q \in Proc, p # q, loc'[p].pr = loc'[q].pr, loc'[p].pr \in Pair
             PROVE  loc'[p].pr \in torn' /\ p \in touched'
  BY DEF Overlaps
<1>1. Overlapped(p)'
  BY DEF Overlapped
<1>2. pc'[p] # "idle"
  <2>1. Fits(pc[p], loc[p])'
    BY DEF Shape, ThreadsOK
  <2> QED
    BY <2>1 DEF Fits, OnLink
<1>3. p \in touched'
  BY <1>1, <1>2 DEF History
<1>4. Torn(loc'[p].pr)
  BY <1>1 DEF Torn
<1> QED
  BY <1>3, <1>4 DEF History

\* Doubt is ended by the call that mends, only.
LEMMA DoubtStays ==
  ASSUME History, NEW p \in Proc, \A q \in Proc \ {p} : pc'[q] = pc[q],
         NEW pr \in Pair, pr \in torn,
         pr # loc[p].pr \/ pc[p] \notin {"disrupted", "restored"} \/ p \in touched
  PROVE  pr \in torn'
<1>1. ~Mended(pr)
  BY DEF Mended
<1> QED
  BY <1>1 DEF History

\* Links that two threads work on are in doubt before and after the step.
LEMMA SharedIsTorn ==
  ASSUME Shape, Shape', Sound, History, NEW p \in Proc, NEW q \in Proc \ {p},
         \A r \in Proc \ {p} : pc'[r] = pc[r] /\ loc'[r] = loc[r],
         loc[q].pr \in Pair, loc[q].pr \in {loc[p].pr, loc'[p].pr}
  PROVE  loc[q].pr \in torn' /\ q \in touched'
<1>1. CASE loc[q].pr = loc[p].pr
  <2>1. loc[p].pr \in torn /\ p \in touched /\ q \in touched
    BY <1>1 DEF Sound, Overlaps
  <2>2. pc'[q] # "idle"
    BY LinkThreads
  <2> QED
    BY <1>1, <2>1, <2>2, DoubtStays DEF History
<1>2. CASE loc[q].pr = loc'[p].pr
  BY <1>2, OverlapsNext DEF Overlaps
<1> QED
  BY <1>1, <1>2

\* Nothing that an undisturbed call works with has changed.
LEMMA Undisturbed ==
  ASSUME Shape, History, NEW q \in Proc, pc'[q] = pc[q], loc'[q] = loc[q], q \notin touched',
         loc[q].pr \in Pair
  PROVE  q \notin touched /\ links' = links /\ tc'[loc[q].pr] = tc[loc[q].pr]
<1>1. pc'[q] # "idle"
  BY LinkThreads
<1>2. q \notin touched /\ ~Disturbs(q)
  BY <1>1 DEF History
<1>3. ~Tcs(q)
  BY DEF Tcs
<1> QED
  BY <1>2, <1>3 DEF Disturbs

-----------------------------------------------------------------------------
(* Threads and links that a step is not about *)

LEMMA OtherFlight ==
  ASSUME Shape, Shape', Sound, History, NEW q \in Proc, pc'[q] = pc[q], loc'[q] = loc[q],
         Restamps, started' \in {started, started + 1}, pc[q] \in Flying,
         Steady(loc[q].pr) \/ (loc[q].pr \in torn' /\ q \in touched')
  PROVE  Flight(q)'
<1> DEFINE l == loc[q]
<1>1. pc'[q] = pc[q] /\ loc'[q] = l /\ l.pr \in Pair /\ Flight(q)
  BY LinkThreads DEF Sound, ThreadSound
<1>2. started \in Nat
  BY BoundAssumption DEF Shape, CountsOK
<1>3. l.made \in 1..(started' + 1)
  BY <1>1, <1>2 DEF Flight
<1>4. \A pr \in Pair : links'[pr].made = l.made => links[pr].made = l.made /\ links'[pr].idx = links[pr].idx
  BY <1>1, <1>2 DEF Flight, Restamps
<1>5. /\ \A pr \in Pair : links'[pr].made = l.made /\ links'[pr].idx = l.idx => pr = l.pr
      /\ links'[l.pr].made = l.made => links'[l.pr].idx = l.idx
  BY <1>1, <1>4 DEF Flight
<1>6. ASSUME l.pr \in Clear'
      PROVE  links'[l.pr].made = l.made /\ Applied(q)'
  <2>1. Steady(l.pr)
    BY <1>6 DEF Clear
  <2>2. l.pr \in Clear /\ links'[l.pr] = links[l.pr] /\ \A s \in Side : tc'[l.pr][s] = tc[l.pr][s]
    BY <1>6, <2>1, ClearStays
  <2>3. links[l.pr].made = l.made /\ Applied(q)
    BY <1>1, <2>2 DEF Flight
  <2> QED
    BY <1>1, <2>2, <2>3 DEF Applied, Side
<1>7. ASSUME q \notin touched'
      PROVE  links'[l.pr].made = l.made /\ (~l.bad => Applied(q)')
  <2>1. q \notin touched /\ links' = links /\ tc'[l.pr] = tc[l.pr]
    BY <1>1, <1>7, Undisturbed
  <2> QED
    BY <1>1, <2>1 DEF Flight, Applied
<1> QED
  BY <1>1, <1>3, <1>5, <1>6, <1>7 DEF Flight

LEMMA OtherThread ==
  ASSUME Shape, Shape', Sound, History, NEW q \in Proc, pc'[q] = pc[q], loc'[q] = loc[q],
         Restamps, started' \in {started, started + 1},
         loc[q].pr \in Pair => Steady(loc[q].pr) \/ (loc[q].pr \in torn' /\ q \in touched')
  PROVE  ThreadSound(q)'
<1>1. ThreadSound(q)
  BY DEF Sound
<1>2. CASE pc[q] \in Flying
  <2>1. Flight(q)'
    BY <1>2, OtherFlight, LinkThreads
  <2> QED
    BY <1>2, <2>1 DEF ThreadSound, Flying
<1>3. CASE pc[q] = "made_link"
  <2>1. Making(q)'
    <3> SUFFICES ASSUME loc[q].pr \in LinkNames' \ torn'
                 PROVE  /\ links'[loc[q].pr].netem = NoNetem
                        /\ \A s \in Side : tc'[loc[q].pr][s] \in {NoNetem, Cut}
      BY DEF Making
    <3>1. Steady(loc[q].pr)
      BY <1>3, LinkThreads
    <3>2. Making(q)
      BY <1>1, <1>3 DEF ThreadSound
    <3> QED
      BY <3>1, <3>2 DEF Making, Steady
  <2> QED
    BY <1>3, <2>1 DEF ThreadSound, Flying
<1>4. CASE pc[q] = "gone_net"
  <2>1. Leaving(q)'
    <3> SUFFICES ASSUME loc[q].pr \in Clear'
                 PROVE  Matches(loc[q].pr)'
      BY DEF Leaving
    <3>1. Steady(loc[q].pr)
      BY <1>4, LinkThreads DEF Clear
    <3>2. Leaving(q)
      BY <1>1, <1>4 DEF ThreadSound
    <3> QED
      BY <3>1, <3>2, ClearStays, MatchesStays DEF Leaving
  <2> QED
    BY <1>4, <2>1 DEF ThreadSound, Flying
<1> QED
  BY <1>2, <1>3, <1>4 DEF ThreadSound

\* Links that no thread works on, and that the step leaves alone.
LEMMA OtherSettles ==
  ASSUME Sound, NEW pr \in Clear', Steady(pr), \A q \in Proc : loc[q].pr # pr
  PROVE  Matches(pr)'
<1>1. pr \in Clear /\ links'[pr] = links[pr] /\ \A s \in Side : tc'[pr][s] = tc[pr][s]
  BY ClearStays
<1>2. Matches(pr)
  BY <1>1 DEF Sound, Settles
<1> QED
  BY <1>1, <1>2, MatchesStays

\* What is left to show of a step of thread p.
LEMMA SoundNext ==
  ASSUME Shape, Shape', Sound, History, NEW p \in Proc,
         \A r \in Proc \ {p} : pc'[r] = pc[r] /\ loc'[r] = loc[r],
         Restamps, started' \in {started, started + 1},
         UniqueIndices', CleanSlate',
         \A pr \in Pair \ {loc[p].pr, loc'[p].pr} : Steady(pr),
         ThreadSound(p)',
         \A pr \in Clear' : pr = loc[p].pr /\ loc'[p].pr # pr => Matches(pr)'
  PROVE  Sound'
<1>1. Overlaps'
  BY OverlapsNext
<1>2. ASSUME NEW q \in Proc \ {p} PROVE ThreadSound(q)'
  <2>1. ASSUME loc[q].pr \in Pair
        PROVE  Steady(loc[q].pr) \/ (loc[q].pr \in torn' /\ q \in touched')
    BY <2>1, SharedIsTorn
  <2> QED
    BY <2>1, OtherThread
<1>3. ASSUME NEW pr \in Clear', \A q \in Proc : loc'[q].pr # pr
      PROVE  Matches(pr)'
  <2>1. pr \in Pair /\ pr # loc'[p].pr
    BY <1>3 DEF Clear, LinkNames
  <2>2. CASE pr # loc[p].pr
    <3>1. \A q \in Proc : loc[q].pr # pr
      BY <1>3, <2>2
    <3> QED
      BY <2>1, <2>2, <3>1, OtherSettles
  <2>3. CASE pr = loc[p].pr
    BY <1>3, <2>1, <2>3
  <2> QED
    BY <2>2, <2>3
<1>4. Settles'
  BY <1>3 DEF Settles
<1> QED
  BY <1>1, <1>2, <1>4 DEF Sound

-----------------------------------------------------------------------------
(* Steps that change no link, and at most cut ends *)

LEMMA Bystanders ==
  ASSUME Shape, NEW p \in Proc, NEW label, NEW l, Goto(p, label, l)
  PROVE  /\ pc'[p] = label /\ loc'[p] = l
         /\ \A q \in Proc \ {p} : pc'[q] = pc[q] /\ loc'[q] = loc[q]
  BY DEF Goto, Shape, ThreadsOK

\* The tables of the links stay, and interfaces at one node may go.
Sparing ==
  /\ UNCHANGED links /\ started' \in {started, started + 1}
  /\ UNCHANGED tc \/ \E n \in Node : tc' = Unplugged(n)

LEMMA SparingKeeps ==
  ASSUME Shape, Sound, Sparing
  PROVE  /\ LinkNames' = LinkNames /\ Restamps /\ UniqueIndices' /\ CleanSlate'
         /\ \A pr \in Pair : /\ links'[pr] = links[pr]
                             /\ \A s \in Side : tc'[pr][s] \in {tc[pr][s], Cut}
<1>1. UNCHANGED links /\ LinkNames' = LinkNames
  BY DEF Sparing, LinkNames
<1>2. Restamps /\ UniqueIndices'
  BY <1>1 DEF Restamps, UniqueIndices, Sound
<1>3. ASSUME NEW pr \in Pair
      PROVE  /\ \A s \in Side : tc'[pr][s] \in {tc[pr][s], Cut}
             /\ pr \notin LinkNames => tc'[pr] = tc[pr]
  <2>1. CASE UNCHANGED tc
    BY <2>1
  <2>2. ASSUME NEW n \in Node, tc' = Unplugged(n)
        PROVE  /\ \A s \in Side : tc'[pr][s] \in {tc[pr][s], Cut}
               /\ pr \notin LinkNames => tc'[pr] = tc[pr]
    <3>1. tc'[pr] = [s \in Side |-> IF pr \in LinkNames /\ At(pr, s) = n THEN Cut ELSE tc[pr][s]]
      BY <2>2 DEF Unplugged
    <3>2. tc[pr] = [s \in Side |-> tc[pr][s]]
      BY DEF Shape, TcOK
    <3> QED
      BY <3>1, <3>2
  <2> QED
    BY <2>1, <2>2 DEF Sparing
<1>4. CleanSlate'
  BY <1>1, <1>3 DEF CleanSlate, Sound
<1> QED
  BY <1>1, <1>2, <1>3, <1>4

\* Neither before nor after the step has thread p a link.
Aside(p) ==
  /\ Sparing
  /\ pc[p] \notin OnLink
  /\ \E label, l : Goto(p, label, l) /\ label \notin OnLink

LEMMA AsideSound ==
  ASSUME Shape, Shape', Sound, History, NEW p \in Proc, Aside(p)
  PROVE  Sound'
<1>1. PICK label, l : Goto(p, label, l) /\ label \notin OnLink
  BY DEF Aside
<1>2. pc'[p] = label /\ \A q \in Proc \ {p} : pc'[q] = pc[q] /\ loc'[q] = loc[q]
  BY <1>1, Bystanders
<1>3. loc[p].pr \notin Pair /\ pc[p] \notin {"disrupted", "restored"}
  BY LinkThreads DEF Aside, OnLink
<1>4. /\ LinkNames' = LinkNames /\ Restamps /\ UniqueIndices' /\ CleanSlate'
      /\ \A pr \in Pair : /\ links'[pr] = links[pr]
                          /\ \A s \in Side : tc'[pr][s] \in {tc[pr][s], Cut}
  BY SparingKeeps DEF Aside
<1>5. ASSUME NEW pr \in Pair PROVE Steady(pr)
  BY <1>2, <1>3, <1>4, DoubtStays DEF Steady
<1>6. ThreadSound(p)'
  BY <1>1, <1>2 DEF ThreadSound, OnLink, Flying
<1>7. \A pr \in Clear' : pr # loc[p].pr
  BY <1>3 DEF Clear, LinkNames
<1> QED
  BY <1>2, <1>4, <1>5, <1>6, <1>7, SoundNext DEF Aside, Sparing

\* A container exits, and no thread has anything to do with it.
LEMMA ContainerExitsSound ==
  ASSUME Shape, Shape', Sound, History, NEW n \in Node, ContainerExits(n)
  PROVE  Sound'
<1>1. UNCHANGED <<pc, loc>> /\ Sparing
  BY DEF ContainerExits, Stopped, Sparing
<1>2. /\ LinkNames' = LinkNames /\ Restamps /\ UniqueIndices' /\ CleanSlate'
      /\ \A pr \in Pair : /\ links'[pr] = links[pr]
                          /\ \A s \in Side : tc'[pr][s] \in {tc[pr][s], Cut}
  BY <1>1, SparingKeeps
<1>3. \A pr : pr \in torn /\ pr \in Pair => pr \in torn'
  BY <1>1 DEF History, Mended
<1>4. ASSUME NEW pr \in Pair PROVE Steady(pr)
  BY <1>2, <1>3 DEF Steady
<1>5. ASSUME NEW q \in Proc PROVE ThreadSound(q)'
  BY <1>1, <1>2, <1>4, OtherThread DEF Sparing
<1>6. ASSUME NEW pr \in Clear', \A q \in Proc : loc'[q].pr # pr PROVE Matches(pr)'
  BY <1>1, <1>4, <1>6, OtherSettles DEF Clear, LinkNames
<1>7. Overlaps' /\ Settles'
  BY <1>6, OverlapsNext DEF Settles
<1> QED
  BY <1>2, <1>5, <1>7 DEF Sound

LEMMA NodeIsAside ==
  ASSUME NEW p \in Proc, loc[p].n \in Node \/ pc[p] = "idle",
         \/ NodeMade(p) \/ ContainerGone(p) \/ NodeDropped(p)
         \/ \E n \in Node : NodeReserved(p, n) \/ DeleteNode(p, n)
  PROVE  Aside(p)
<1> USE DEF Aside, OnLink, Sparing
<1>1. CASE NodeMade(p)
  <2>1. pc[p] = "made_node" /\ UNCHANGED <<links, started>> /\ tc' = Unplugged(loc[p].n)
    BY <1>1 DEF NodeMade
  <2>2. Goto(p, "idle", NoLocal)
    BY <1>1, Zenon DEF NodeMade, Finish
  <2> QED
    BY <2>1, <2>2
<1>2. CASE ContainerGone(p)
  <2>1. pc[p] = "gone_next" /\ UNCHANGED <<links, started>>
    BY <1>2, Zenon DEF ContainerGone
  <2>2. UNCHANGED tc \/ tc' = Unplugged(loc[p].n)
    BY <1>2, Zenon DEF ContainerGone, Stopped
  <2>3. Goto(p, "idle", NoLocal) \/ Goto(p, "gone_node", loc[p])
    BY <1>2, Zenon DEF ContainerGone, Finish
  <2> QED
    BY <2>1, <2>2, <2>3
<1>3. CASE NodeDropped(p)
  <2>1. pc[p] = "gone_node" /\ UNCHANGED <<links, started, tc>>
    BY <1>3 DEF NodeDropped
  <2>2. Goto(p, "idle", NoLocal)
    BY <1>3, Zenon DEF NodeDropped, Finish
  <2> QED
    BY <2>1, <2>2
<1>4. ASSUME NEW n \in Node, NodeReserved(p, n) PROVE Aside(p)
  <2>1. pc[p] = "idle" /\ UNCHANGED <<links, tc>> /\ started' = started + 1
    BY <1>4 DEF NodeReserved, Begin, liveOnly
  <2>2. \E k : Goto(p, "made_node", k)
    BY <1>4, Zenon DEF NodeReserved
  <2> QED
    BY <2>1, <2>2
<1>5. ASSUME NEW n \in Node, DeleteNode(p, n) PROVE Aside(p)
  <2>1. pc[p] = "idle" /\ UNCHANGED <<links, tc>> /\ started' = started + 1
    BY <1>5 DEF DeleteNode, Begin, liveOnly, tables
  <2>2. \E k : Goto(p, "gone_next", k)
    BY <1>5, Zenon DEF DeleteNode
  <2> QED
    BY <2>1, <2>2
<1> QED
  BY <1>1, <1>2, <1>3, <1>4, <1>5

LEMMA ExitCallIsAside ==
  ASSUME NEW p \in Proc, ExitCall(p) \/ RawCall(p)
  PROVE  Aside(p)
<1> USE DEF Aside, OnLink, Sparing, Begin, liveOnly, tables
<1>1. CASE SetAllExits(p) \/ ClearAllExits(p)
  BY <1>1 DEF SetAllExits, ClearAllExits
<1>2. ASSUME NEW n \in Node, NEW e,
             SetNodeExits(p, n) \/ AddExit(p, n, e) \/ DeleteExit(p, n, e) \/ ApplyRawExit(p, n, e)
      PROVE  Aside(p)
  BY <1>2 DEF SetNodeExits, AddExit, DeleteExit, ApplyRawExit
<1> QED
  BY <1>1, <1>2 DEF ExitCall, RawCall

\* A command leaves its thread at one of two labels.
LEMMA CommandGoes ==
  ASSUME NEW p, NEW label, NEW after, NEW l, Apply(p, label, after, l) \/ Try(p, after, label, l)
  PROVE  \E lab \in {label, "idle"} : \E k : Goto(p, lab, k)
<1> DEFINE noted == [l EXCEPT !.bad = TRUE]
<1>1. Goto(p, label, l) \/ Goto(p, label, noted) \/ Goto(p, "idle", NoLocal)
  BY Zenon DEF Apply, Try, Finish
<1> HIDE DEF noted
<1> QED
  BY <1>1

LEMMA ExitStepIsAside ==
  ASSUME NEW p \in Proc, ExitStep(p)
  PROVE  Aside(p)
<1> USE DEF Aside, OnLink, Sparing, exitOnly, tables, Finish
<1>1. CASE RtNext(p)
  <2> DEFINE n == Min(loc[p].todo)
             rest == [loc[p] EXCEPT !.todo = @ \ {n}, !.n = n, !.bad = FALSE]
             k(want) == [rest EXCEPT !.known = Named, !.want = want]
  <2>1. /\ pc[p] = "rt_next" /\ UNCHANGED <<links, tc, started>>
        /\ \/ Goto(p, "idle", NoLocal) \/ Goto(p, "rt_next", rest)
           \/ \E order \in Orders : Goto(p, "rt_list", k(Wanted(n, There, Adjacent, order)))
    BY <1>1 DEF RtNext
  <2> HIDE DEF n, rest, k
  <2> QED
    BY <2>1
<1>2. CASE RtList(p)
  BY <1>2 DEF RtList
<1>3. CASE RtDelete(p)
  <2>1. /\ pc[p] = "rt_del" /\ UNCHANGED <<links, tc, started>>
        /\ (\E after, l : Apply(p, "rt_del", after, l)) \/ Goto(p, "rt_add", loc[p])
    BY <1>3 DEF RtDelete
  <2> QED
    BY <2>1, CommandGoes
<1>4. CASE RtAdd(p)
  <2>1. /\ pc[p] = "rt_add" /\ UNCHANGED <<links, tc, started>>
        /\ (\E after, l : Apply(p, "rt_add", after, l)) \/ Goto(p, "rt_verify", loc[p])
    BY <1>4 DEF RtAdd
  <2> QED
    BY <2>1, CommandGoes
<1>5. CASE RtVerify(p)
  BY <1>5 DEF RtVerify
<1>6. CASE HandAdd(p) \/ HandDelete(p)
  <2>1. /\ pc[p] \in {"hand_add", "hand_del"} /\ UNCHANGED <<links, tc, started>>
        /\ \E after : Try(p, after, "idle", NoLocal)
    BY <1>6 DEF HandAdd, HandDelete
  <2> QED
    BY <2>1, CommandGoes
<1>7. CASE ClearNext(p)
  BY <1>7 DEF ClearNext
<1>8. CASE ClearDelete(p)
  <2>1. /\ pc[p] = "clear_del" /\ UNCHANGED <<links, tc, started>>
        /\ (\E after, l : Try(p, after, "clear_del", l)) \/ Goto(p, "clear_next", loc[p])
    BY <1>8 DEF ClearDelete
  <2> QED
    BY <2>1, CommandGoes
<1> QED
  BY <1>1, <1>2, <1>3, <1>4, <1>5, <1>6, <1>7, <1>8 DEF ExitStep

LEMMA DocumentsAreAside ==
  ASSUME NEW p \in Proc, DocCall(p) \/ DocStep(p)
  PROVE  Aside(p)
<1> USE DEF Aside, OnLink, Sparing, Begin, liveOnly, docOnly, tables, Finish
<1>1. CASE ExportScenario(p) \/ ExportBundle(p)
  BY <1>1 DEF ExportScenario, ExportBundle
<1>2. ASSUME NEW n \in Node, GetNodeConfig(p, n) PROVE Aside(p)
  BY <1>2 DEF GetNodeConfig
<1>3. CASE ExportStep(p)
  BY <1>3 DEF ExportStep, ListNext, WriteFile
<1>4. CASE ConfigStep(p)
  BY <1>4 DEF ConfigStep, ListNext, ShowConfig
<1>5. CASE BundleLinks(p)
  BY <1>5 DEF BundleLinks
<1>6. CASE BundleStep(p)
  BY <1>6 DEF BundleStep, ListNext, PackBundle
<1> QED
  BY <1>1, <1>2, <1>3, <1>4, <1>5, <1>6 DEF DocCall, DocStep

-----------------------------------------------------------------------------
(* The lifecycle of links *)

\* A thread that is at work on no link.
LEMMA IdleFacts ==
  ASSUME Shape, NEW p \in Proc, pc[p] \notin OnLink
  PROVE  /\ loc[p].pr \notin Pair /\ pc[p] # "made_link" /\ pc[p] \notin Flying
         /\ pc[p] \notin {"disrupted", "restored"}
         /\ \A pr \in Clear : pr # loc[p].pr
         /\ \A pr \in LinkNames : pr # loc[p].pr
<1>1. loc[p].pr \notin Pair
  BY LinkThreads
<1> QED
  BY <1>1 DEF OnLink, Flying, Clear, LinkNames

\* Tables and tc are as they were.
LEMMA SameClear ==
  ASSUME Shape, Sound, UNCHANGED <<links, tc>>
  PROVE  /\ LinkNames' = LinkNames /\ Unwired' = Unwired
         /\ Restamps /\ UniqueIndices' /\ CleanSlate'
         /\ \A pr : (pr \in torn => pr \in torn') => Steady(pr)
<1>1. LinkNames' = LinkNames /\ Unwired' = Unwired
  BY DEF LinkNames, Unwired
<1> QED
  BY <1>1 DEF Restamps, UniqueIndices, CleanSlate, Sound, Steady

\* A deletion takes up a link, which is as its status says, or not clear.
LEMMA EnterSound ==
  ASSUME Shape, Shape', Sound, History, NEW p \in Proc, pc[p] \notin OnLink,
         UNCHANGED <<links, tc>>, started' \in {started, started + 1},
         NEW l, Goto(p, "gone_net", l), l.pr \in LinkNames
  PROVE  Sound'
<1>1. /\ pc'[p] = "gone_net" /\ loc'[p] = l
      /\ \A q \in Proc \ {p} : pc'[q] = pc[q] /\ loc'[q] = loc[q]
  BY Bystanders
<1>2. /\ LinkNames' = LinkNames /\ Unwired' = Unwired
      /\ Restamps /\ UniqueIndices' /\ CleanSlate'
      /\ \A pr : (pr \in torn => pr \in torn') => Steady(pr)
  BY SameClear
<1>3. ASSUME NEW pr \in Pair PROVE Steady(pr) /\ (pr \in torn => pr \in torn')
  BY <1>1, <1>2, IdleFacts, DoubtStays
<1>4. Leaving(p)'
  <2> SUFFICES ASSUME l.pr \in Clear'
               PROVE  Matches(l.pr)'
    BY <1>1 DEF Leaving
  <2>1. l.pr \in Pair /\ Steady(l.pr)
    BY <1>3 DEF LinkNames
  <2>2. ASSUME NEW q \in Proc PROVE loc[q].pr # l.pr
    <3>1. CASE q = p
      BY <2>1, <3>1, IdleFacts
    <3>2. CASE q # p
      <4>1. loc'[q].pr = l.pr => l.pr \in torn'
        BY <1>1, <2>1, <3>2, OverlapsNext DEF Overlaps
      <4> QED
        BY <1>1, <3>2, <4>1 DEF Clear
    <3> QED
      BY <3>1, <3>2
  <2> QED
    BY <2>1, <2>2, OtherSettles
<1>5. ThreadSound(p)'
  BY <1>1, <1>4 DEF ThreadSound, Flying
<1>6. \A pr \in Clear' : pr # loc[p].pr
  BY <1>2, IdleFacts DEF Clear
<1> QED
  BY <1>1, <1>2, <1>3, <1>5, <1>6, SoundNext

LEMMA DeleteLinkSound ==
  ASSUME Shape, Shape', Sound, History, NEW p \in Proc, NEW pr \in Pair, DeleteLink(p, pr)
  PROVE  Sound'
<1> DEFINE l == [NoLocal EXCEPT !.pr = pr, !.made = links[pr].made]
<1>1. /\ pc[p] = "idle" /\ started' = started + 1 /\ UNCHANGED <<links, tc>>
      /\ pr \in LinkNames
  BY DEF DeleteLink, Begin, tables, liveOnly
<1>2. l.pr = pr
  BY DEF NoLocal
<1>3. Goto(p, "gone_net", l)
  BY DEF DeleteLink
<1> HIDE DEF l
<1>4. pc[p] \notin OnLink
  BY <1>1 DEF OnLink
<1> QED
  BY <1>1, <1>2, <1>3, <1>4, EnterSound

LEMMA GoneNextSound ==
  ASSUME Shape, Shape', Sound, History, NEW p \in Proc, GoneNext(p)
  PROVE  Sound'
<1>1. /\ pc[p] = "gone_next" /\ UNCHANGED <<links, tc, started>>
  BY DEF GoneNext, tables, liveOnly
<1>2. loc[p] \in LocalSet
  BY OwnLocals DEF Shape
<1> DEFINE skip(pr) == [loc[p] EXCEPT !.rest = @ \ {pr}]
           take(pr) == [loc[p] EXCEPT !.rest = @ \ {pr}, !.pr = pr, !.made = links[pr].made]
<1>3. PICK pr \in loc[p].rest : \/ pr \in LinkNames /\ Goto(p, "gone_net", take(pr))
                                \/ pr \notin LinkNames /\ Goto(p, "gone_next", skip(pr))
  BY Zenon DEF GoneNext
<1>4. take(pr).pr = pr
  BY <1>2 DEF LocalSet
<1> HIDE DEF skip, take
<1>5. pc[p] \notin OnLink /\ "gone_next" \notin OnLink
  BY <1>1 DEF OnLink
<1>6. CASE pr \in LinkNames /\ Goto(p, "gone_net", take(pr))
  BY <1>1, <1>4, <1>5, <1>6, EnterSound
<1>7. CASE Goto(p, "gone_next", skip(pr))
  <2>1. Aside(p)
    BY <1>1, <1>5, <1>7 DEF Aside, Sparing
  <2> QED
    BY <2>1, AsideSound
<1> QED
  BY <1>3, <1>6, <1>7

\* Where the end of a deletion leaves its thread.
LEMMA LinkDoneGoes ==
  ASSUME Shape, NEW p \in Proc, LinkDone(p)
  PROVE  /\ pc'[p] \in {"idle", "gone_next"} /\ loc'[p].pr \notin Pair
         /\ \A q \in Proc \ {p} : pc'[q] = pc[q] /\ loc'[q] = loc[q]
<1> DEFINE next == [loc[p] EXCEPT !.pr = <<>>]
<1>1. NoLocal.pr = <<>> /\ next.pr = <<>>
  BY OwnLocals DEF Shape, NoLocal, LocalSet
<1>2. Goto(p, "idle", NoLocal) \/ Goto(p, "gone_next", next)
  BY DEF LinkDone, Finish
<1> HIDE DEF next
<1> QED
  BY <1>1, <1>2, PairFacts, Bystanders

\* The network loses its ends, or the call fails and the link keeps those it has left.
LEMMA NetGoneSound ==
  ASSUME Shape, Shape', Sound, History, NEW p \in Proc, NetGone(p)
  PROVE  Sound'
<1>1. PICK pr : pr = loc[p].pr
  OBVIOUS
<1>2. /\ pc[p] = "gone_net" /\ pr \in Pair /\ UNCHANGED <<links, started>>
      /\ pc[p] \notin {"disrupted", "restored"}
  BY <1>1, LinkThreads DEF NetGone, tables
<1>3. Goto(p, "gone_pop", loc[p]) \/ LinkDone(p)
  BY Zenon DEF NetGone
<1>4. \/ UNCHANGED tc
      \/ \E C \in SUBSET Side : (pr \in LinkNames \/ C = {}) /\ tc' = CutEnds(pr, C)
  BY <1>1 DEF NetGone
<1>5. /\ \A k \in Pair \ {pr} : tc'[k] = tc[k]
      /\ \A s \in Side : tc'[pr][s] \in {tc[pr][s], Cut}
      /\ pr \notin LinkNames => tc'[pr] = tc[pr]
  <2>1. tc[pr] = [s \in Side |-> tc[pr][s]]
    BY <1>2 DEF Shape, TcOK
  <2>2. ASSUME NEW C \in SUBSET Side, pr \in LinkNames \/ C = {}, tc' = CutEnds(pr, C)
        PROVE  /\ \A k \in Pair \ {pr} : tc'[k] = tc[k]
               /\ \A s \in Side : tc'[pr][s] \in {tc[pr][s], Cut}
               /\ pr \notin LinkNames => tc'[pr] = tc[pr]
    <3>1. /\ \A k \in Pair \ {pr} : tc'[k] = tc[k]
          /\ tc'[pr] = [s \in Side |-> IF s \in C THEN Cut ELSE tc[pr][s]]
      BY <1>2, <2>2 DEF CutEnds, Shape, TcOK
    <3> QED
      BY <2>1, <2>2, <3>1
  <2> QED
    BY <1>4, <2>2
<1>6. /\ pc'[p] \in {"idle", "gone_next", "gone_pop"}
      /\ \A q \in Proc \ {p} : pc'[q] = pc[q] /\ loc'[q] = loc[q]
  BY <1>3, LinkDoneGoes, Bystanders
<1>7. LinkNames' = LinkNames /\ Restamps /\ UniqueIndices'
  BY <1>2 DEF LinkNames, Restamps, UniqueIndices, Sound
<1>8. CleanSlate'
  BY <1>5, <1>7 DEF CleanSlate, Sound
<1>9. ASSUME NEW k \in Pair PROVE Steady(k)
  <2>1. k \in torn => k \in torn'
    BY <1>2, <1>6, DoubtStays
  <2> QED
    BY <1>2, <1>5, <1>7, <2>1 DEF Steady
<1>10. ThreadSound(p)'
  BY <1>6 DEF ThreadSound, Flying
<1>11. ASSUME pr \in Clear' PROVE Matches(pr)'
  <2>1. Leaving(p)
    BY <1>2 DEF Sound, ThreadSound
  <2>2. pr \in Clear /\ links'[pr] = links[pr] /\ \A s \in Side : tc'[pr][s] = tc[pr][s]
    BY <1>2, <1>9, <1>11, ClearStays
  <2> QED
    BY <1>1, <2>1, <2>2, MatchesStays DEF Leaving
<1> QED
  BY <1>1, <1>2, <1>6, <1>7, <1>8, <1>9, <1>10, <1>11, SoundNext

\* A link is taken out of the table, with its network.
LEMMA LinkPoppedSound ==
  ASSUME Shape, Shape', Sound, History, NEW p \in Proc, LinkPopped(p)
  PROVE  Sound'
<1>1. PICK pr : pr = loc[p].pr
  OBVIOUS
<1>2. /\ pc[p] = "gone_pop" /\ pr \in Pair /\ LinkDone(p)
      /\ pc[p] \notin {"disrupted", "restored"} /\ started' = started
      /\ links' = [links EXCEPT ![pr] = NoLink] /\ tc' = [tc EXCEPT ![pr] = NoTc]
  BY <1>1, LinkThreads DEF LinkPopped
<1>3. /\ pc'[p] \in {"idle", "gone_next"}
      /\ \A q \in Proc \ {p} : pc'[q] = pc[q] /\ loc'[q] = loc[q]
  BY <1>2, LinkDoneGoes
<1>4. /\ links'[pr].made = 0 /\ tc'[pr] = NoTc
      /\ \A k \in Pair \ {pr} : links'[k] = links[k] /\ tc'[k] = tc[k]
  BY <1>2 DEF Shape, TablesOK, TcOK, NoLink
<1>5. LinkNames' = LinkNames \ {pr} /\ \A k \in LinkNames' : k \in Pair
  BY <1>2, <1>4 DEF LinkNames
<1>6. Restamps /\ UniqueIndices' /\ CleanSlate'
  BY <1>4, <1>5 DEF Restamps, UniqueIndices, CleanSlate, Sound
<1>7. ASSUME NEW k \in Pair PROVE Steady(k)
  <2>1. k \in torn => k \in torn'
    BY <1>2, <1>3, DoubtStays
  <2> QED
    BY <1>4, <1>5, <2>1 DEF Steady
<1>8. ThreadSound(p)'
  BY <1>3 DEF ThreadSound, Flying
<1>9. pr \notin Clear'
  BY <1>5 DEF Clear
<1> QED
  BY <1>1, <1>2, <1>3, <1>6, <1>7, <1>8, <1>9, SoundNext

LEMMA LinkReservedSound ==
  ASSUME Shape, Shape', Sound, History, NEW p \in Proc, NEW pr \in Pair, NEW cl \in CL,
         LinkReserved(p, pr, cl)
  PROVE  Sound'
<1> DEFINE new == [NoLink EXCEPT !.made = started + 2, !.idx = FreeIndex, !.cl = cl]
           l == [NoLocal EXCEPT !.pr = pr, !.known = Named]
<1>1. /\ pr \notin LinkNames /\ links' = [links EXCEPT ![pr] = new] /\ UNCHANGED tc
      /\ pc[p] = "idle" /\ started' = started + 1 /\ Goto(p, "made_link", l)
  BY DEF LinkReserved, Begin, liveOnly
<1>2. new.made = started + 2 /\ new.idx = FreeIndex /\ new.netem = NoNetem /\ l.pr = pr
  BY DEF NoLink, NoLocal
<1> HIDE DEF new, l
<1>3. links'[pr] = new /\ \A k \in Pair \ {pr} : links'[k] = links[k]
  BY <1>1 DEF Shape, TablesOK
<1>4. /\ pc'[p] = "made_link" /\ loc'[p].pr = pr
      /\ \A q \in Proc \ {p} : pc'[q] = pc[q] /\ loc'[q] = loc[q]
  BY <1>1, <1>2, Bystanders
<1>5. started \in Nat
  BY BoundAssumption DEF Shape, CountsOK
<1>6. LinkNames' = LinkNames \union {pr}
  BY <1>2, <1>3, <1>5 DEF LinkNames
<1>7. UniqueIndices'
  <2>1. \A k \in LinkNames : k # pr /\ k \in Pair /\ links'[k] = links[k] /\ links[k].idx # FreeIndex
    BY <1>1, <1>3, FreeIndexIsFree DEF Shape, LinkNames
  <2> QED
    BY <1>2, <1>3, <1>6, <2>1 DEF UniqueIndices, Sound
<1>8. CleanSlate'
  BY <1>1, <1>6 DEF CleanSlate, Sound
<1>9. Restamps
  BY <1>2, <1>3, <1>5 DEF Restamps
<1>10. ASSUME NEW k \in Pair \ {pr} PROVE Steady(k)
  <2>1. k \in torn => k \in torn'
    BY <1>1, <1>4, DoubtStays
  <2> QED
    BY <1>1, <1>3, <1>6, <2>1 DEF Steady
<1>11. Making(p)'
  <2>1. tc'[pr] = NoTc
    BY <1>1 DEF Sound, CleanSlate
  <2> QED
    BY <1>2, <1>3, <1>4, <2>1 DEF Making, NoTc
<1>12. ThreadSound(p)'
  BY <1>4, <1>11 DEF ThreadSound, Flying
<1>13. \A k \in Clear' : k = loc[p].pr => loc'[p].pr = k
  <2>1. loc[p].pr \notin Pair
    BY <1>1, LinkThreads
  <2> QED
    BY <2>1 DEF Clear, LinkNames
<1> QED
  BY <1>1, <1>4, <1>7, <1>8, <1>9, <1>10, <1>12, <1>13, SoundNext

\* What the commit or the rollback leaves of the other links, and of this one.
LEMMA LinkMadeFacts ==
  ASSUME Shape, NEW p \in Proc, LinkMade(p)
  PROVE  LET pr == loc[p].pr
         IN /\ \A k \in Pair \ {pr} : links'[k] = links[k] /\ tc'[k] = tc[k]
            /\ \/ /\ pr \in LinkNames /\ links'[pr].st \in {"up", "error"}
                  /\ links'[pr].made = links[pr].made /\ links'[pr].idx = links[pr].idx
                  /\ links'[pr].netem = links[pr].netem
                  /\ \A s \in Side : tc'[pr][s] \in {Cut, NoNetem, tc[pr][s]}
               \/ links'[pr].made = 0 /\ tc'[pr] = NoTc
<1> DEFINE pr == loc[p].pr
           plug(C) == [s \in Side |-> IF s \in C THEN Cut
                                      ELSE IF tc[pr][s] = Cut THEN NoNetem ELSE tc[pr][s]]
<1>1. pr \in Pair
  BY LinkThreads DEF LinkMade
<1>2. \/ /\ pr \in LinkNames
         /\ \E st \in {"up", "error"} : links' = [links EXCEPT ![pr].st = st]
         /\ \E C \in CutSides(pr) : tc' = [tc EXCEPT ![pr] = plug(C)]
      \/ links' = [links EXCEPT ![pr] = NoLink] /\ tc' = [tc EXCEPT ![pr] = NoTc]
  BY DEF LinkMade
<1>3. \A k \in Pair \ {pr} : links'[k] = links[k] /\ tc'[k] = tc[k]
  BY <1>1, <1>2 DEF Shape, TablesOK, TcOK
<1>4. ASSUME NEW st \in {"up", "error"}, links' = [links EXCEPT ![pr].st = st]
      PROVE  /\ links'[pr].st = st
             /\ links'[pr].made = links[pr].made /\ links'[pr].idx = links[pr].idx
             /\ links'[pr].netem = links[pr].netem
  <2>1. links[pr] \in LinkRec /\ links'[pr] = [links[pr] EXCEPT !.st = st]
    BY <1>1, <1>4 DEF Shape, TablesOK
  <2> QED
    BY <2>1 DEF LinkRec
<1>5. ASSUME NEW C \in CutSides(pr), tc' = [tc EXCEPT ![pr] = plug(C)]
      PROVE  \A s \in Side : tc'[pr][s] \in {Cut, NoNetem, tc[pr][s]}
  <2>1. tc'[pr] = plug(C)
    <3> HIDE DEF plug
    <3> QED
      BY <1>1, <1>5 DEF Shape, TcOK
  <2> QED
    BY <2>1
<1> HIDE DEF plug, pr
<1>6. /\ \A k \in Pair \ {pr} : links'[k] = links[k] /\ tc'[k] = tc[k]
      /\ \/ /\ pr \in LinkNames /\ links'[pr].st \in {"up", "error"}
            /\ links'[pr].made = links[pr].made /\ links'[pr].idx = links[pr].idx
            /\ links'[pr].netem = links[pr].netem
            /\ \A s \in Side : tc'[pr][s] \in {Cut, NoNetem, tc[pr][s]}
         \/ links'[pr].made = 0 /\ tc'[pr] = NoTc
  <2>1. CASE links' = [links EXCEPT ![pr] = NoLink] /\ tc' = [tc EXCEPT ![pr] = NoTc]
    BY <1>3, <1>1, <2>1 DEF Shape, TablesOK, TcOK, NoLink
  <2> QED
    BY <1>2, <1>3, <1>4, <1>5, <2>1
<1> QED
  BY <1>6 DEF pr

\* A new link carries bundles at the ends it has, whether it is UP or in ERROR.
LEMMA LinkMadeSound ==
  ASSUME Shape, Shape', Sound, History, NEW p \in Proc, LinkMade(p)
  PROVE  Sound'
<1>1. PICK pr : pr = loc[p].pr
  OBVIOUS
<1>2. /\ pc[p] = "made_link" /\ pr \in Pair /\ Making(p)
      /\ pc[p] \notin {"disrupted", "restored"}
  BY <1>1, LinkThreads DEF LinkMade, Sound, ThreadSound
<1>3. /\ pc'[p] = "idle" /\ loc'[p].pr \notin Pair
      /\ \A q \in Proc \ {p} : pc'[q] = pc[q] /\ loc'[q] = loc[q]
  <2>1. Goto(p, "idle", NoLocal)
    BY Zenon DEF LinkMade, Finish
  <2> QED
    BY <2>1, Bystanders, PairFacts DEF NoLocal
<1>4. \A k \in Pair \ {pr} : links'[k] = links[k] /\ tc'[k] = tc[k]
  BY <1>1, LinkMadeFacts
<1>5. \/ /\ pr \in LinkNames /\ links'[pr].st \in {"up", "error"}
         /\ links'[pr].made = links[pr].made /\ links'[pr].idx = links[pr].idx
         /\ links'[pr].netem = links[pr].netem
         /\ \A s \in Side : tc'[pr][s] \in {Cut, NoNetem, tc[pr][s]}
      \/ links'[pr].made = 0 /\ tc'[pr] = NoTc
  BY <1>1, LinkMadeFacts
<1>6. LinkNames' \subseteq LinkNames /\ LinkNames \ {pr} \subseteq LinkNames'
  BY <1>4, <1>5 DEF LinkNames
<1>7. \A k \in LinkNames' : links'[k].idx = links[k].idx /\ k \in Pair
  BY <1>4, <1>5 DEF LinkNames
<1>8. UniqueIndices'
  BY <1>6, <1>7 DEF UniqueIndices, Sound
<1>9. CleanSlate'
  <2>1. ASSUME NEW k \in Pair \ LinkNames' PROVE tc'[k] = NoTc
    <3>1. CASE k = pr
      <4>1. links'[pr].made = 0
        BY <2>1, <3>1 DEF LinkNames
      <4>2. pr \in LinkNames => links[pr].made # 0
        BY DEF LinkNames
      <4> QED
        BY <1>5, <3>1, <4>1, <4>2
    <3>2. CASE k # pr
      BY <1>4, <1>6, <2>1, <3>2 DEF CleanSlate, Sound
    <3> QED
      BY <3>1, <3>2
  <2> QED
    BY <2>1 DEF CleanSlate
<1>10. Restamps
  BY <1>4, <1>5 DEF Restamps
<1>11. \A k \in Pair : k \in torn => k \in torn'
  BY <1>2, <1>3, DoubtStays
<1>12. ASSUME NEW k \in Pair \ {pr} PROVE Steady(k)
  BY <1>4, <1>6, <1>11 DEF Steady
<1>13. ASSUME pr \in Clear' PROVE Matches(pr)'
  <2>1. pr \in LinkNames' \ torn' /\ \A s \in Side : tc'[pr][s] # Cut
    BY <1>13 DEF Clear, Unwired
  <2>2. links[pr].netem = NoNetem /\ \A s \in Side : tc[pr][s] \in {NoNetem, Cut}
    BY <1>1, <1>2, <1>6, <1>11, <2>1 DEF Making
  <2>3. /\ links'[pr].st \in {"up", "error"} /\ links'[pr].netem = NoNetem
        /\ \A s \in Side : tc'[pr][s] \in {Cut, NoNetem, tc[pr][s]}
    BY <1>5, <2>1, <2>2 DEF LinkNames
  <2>4. \A s \in Side : tc'[pr][s] = NoNetem
    BY <2>1, <2>2, <2>3
  <2>5. TcArgs(NoNetem) = NoNetem /\ NoNetem.loss = 0
    BY DEF TcArgs, NoNetem
  <2> QED
    BY <2>3, <2>4, <2>5 DEF Matches
<1>14. ThreadSound(p)' /\ started' = started
  BY <1>3 DEF ThreadSound, Flying, LinkMade
<1> QED
  BY <1>1, <1>3, <1>8, <1>9, <1>10, <1>12, <1>13, <1>14, SoundNext

-----------------------------------------------------------------------------
(* Disruption *)

\* The lookup tells the link from all others by its stamp and its index.
LEMMA LookSound ==
  ASSUME Shape, Shape', Sound, History, NEW p \in Proc, NEW pr \in Pair, NEW m, NEW o,
         NEW label \in {"tc_replace", "tc_del"}, Begin(p, o), Look(p, pr, m, label)
  PROVE  Sound'
<1> DEFINE l == [NoLocal EXCEPT !.pr = pr, !.made = links[pr].made, !.idx = links[pr].idx,
                                !.netem = m, !.known = Named]
<1>1. /\ pr \in LinkNames /\ Goto(p, label, l) /\ UNCHANGED <<links, tc>>
      /\ pc[p] = "idle" /\ started' = started + 1
  BY DEF Look, Begin, tables, liveOnly
<1>2. l.pr = pr /\ l.made = links[pr].made /\ l.idx = links[pr].idx /\ l.side = "a"
  BY DEF NoLocal
<1> HIDE DEF l
<1>3. /\ pc'[p] = label /\ loc'[p] = l
      /\ \A q \in Proc \ {p} : pc'[q] = pc[q] /\ loc'[q] = loc[q]
  BY <1>1, Bystanders
<1>4. LinkNames' = LinkNames
  BY <1>1 DEF LinkNames
<1>5. Restamps /\ UniqueIndices' /\ CleanSlate'
  BY <1>1, <1>4 DEF Restamps, UniqueIndices, CleanSlate, Sound
<1>6. ASSUME NEW k \in Pair PROVE Steady(k)
  <2>1. pc[p] \notin {"disrupted", "restored"} /\ \A s \in Side : tc'[k][s] = tc[k][s]
    BY <1>1
  <2> QED
    BY <1>1, <1>3, <1>4, <2>1, DoubtStays DEF Steady
<1>7. l.made \in 1..(started' + 1)
  <2>1. links[pr].made \in Nat /\ links[pr].made # 0 /\ links[pr].made <= started + 1
    BY <1>1 DEF Shape, TablesOK, LinkRec, StampsOK, LinkNames
  <2>2. started \in Nat
    BY BoundAssumption DEF Shape, CountsOK
  <2> QED
    BY <1>1, <1>2, <2>1, <2>2
<1>8. \A k \in Pair : links[k].made = l.made /\ links[k].idx = l.idx => k = pr
  <2>1. \A k \in Pair : links[k].made = l.made => k \in LinkNames
    BY <1>1, <1>2 DEF LinkNames
  <2> QED
    BY <1>1, <1>2, <2>1 DEF Sound, UniqueIndices
<1>9. Flight(p)'
  <2>1. Applied(p)'
    BY <1>2, <1>3 DEF Applied
  <2> QED
    BY <1>1, <1>2, <1>3, <1>7, <1>8, <2>1 DEF Flight
<1>10. ThreadSound(p)'
  BY <1>3, <1>9 DEF ThreadSound
<1>11. \A k \in Clear' : k # loc[p].pr
  <2>1. loc[p].pr \notin Pair
    BY <1>1, LinkThreads
  <2> QED
    BY <2>1 DEF Clear, LinkNames
<1> QED
  BY <1>1, <1>3, <1>5, <1>6, <1>10, <1>11, SoundNext

\* What the locked write leaves of the other links, and of this one.
LEMMA WrittenFacts ==
  ASSUME Shape, NEW p \in Proc, pc[p] \in {"disrupted", "restored"}, NEW st,
         links' = Written(loc[p], st)
  PROVE  LET pr == loc[p].pr
         IN /\ pr \in Pair
            /\ \A k \in Pair \ {pr} : links'[k] = links[k]
            /\ \A k \in Pair : links'[k].made = links[k].made /\ links'[k].idx = links[k].idx
            /\ links[pr].made = loc[p].made => links'[pr].st = st /\ links'[pr].netem = loc[p].netem
<1>0. PICK pr : pr = loc[p].pr
  OBVIOUS
<1>1. pr \in Pair
  BY <1>0, LinkThreads DEF Flying
<1>2. PICK m : m = loc[p].netem
  OBVIOUS
<1>3. CASE links[pr].made = loc[p].made
  <2>1. links' = [links EXCEPT ![pr].st = st, ![pr].netem = m]
    BY <1>0, <1>2, <1>3 DEF Written
  <2>2. links[pr] \in LinkRec
    BY <1>1 DEF Shape, TablesOK
  <2>3. links'[pr] = [links[pr] EXCEPT !.st = st, !.netem = m]
    BY <1>1, <2>1 DEF Shape, TablesOK
  <2>4. /\ links'[pr].made = links[pr].made /\ links'[pr].idx = links[pr].idx
        /\ links'[pr].st = st /\ links'[pr].netem = m
    BY <2>2, <2>3 DEF LinkRec
  <2>5. \A k \in Pair \ {pr} : links'[k] = links[k]
    BY <1>1, <2>1 DEF Shape, TablesOK
  <2> QED
    BY <1>0, <1>1, <1>2, <2>4, <2>5
<1>4. CASE links[pr].made # loc[p].made
  BY <1>0, <1>1, <1>4 DEF Written
<1> QED
  BY <1>3, <1>4

\* The write finds the object that the call looked up, or changes nothing.
LEMMA DoneSound ==
  ASSUME Shape, Shape', Sound, History, NEW p \in Proc, DisruptDone(p) \/ RestoreDone(p)
  PROVE  Sound'
<1>1. PICK pr : pr = loc[p].pr
  OBVIOUS
<1>2. /\ pc[p] \in {"disrupted", "restored"} /\ pc[p] \in Flying /\ Flight(p)
      /\ Finish(p) /\ UNCHANGED <<tc, started>>
  BY DEF DisruptDone, RestoreDone, Flying, Sound, ThreadSound, liveOnly
<1>3. /\ pc'[p] = "idle" /\ loc'[p].pr \notin Pair
      /\ \A q \in Proc \ {p} : pc'[q] = pc[q] /\ loc'[q] = loc[q]
  BY <1>2, Bystanders, PairFacts DEF Finish, NoLocal
<1>4. PICK st : /\ links' = Written(loc[p], st)
                /\ st = "down" <=> loc[p].netem.loss >= 100
                /\ st \in {"up", "error"} => loc[p].netem = NoNetem
  <2>1. CASE DisruptDone(p)
    BY <2>1 DEF DisruptDone, DisruptedStatus
  <2>2. CASE RestoreDone(p)
    <3>1. loc[p].netem = NoNetem
      BY <2>2, OtherLink DEF RestoreDone, OnLink
    <3> QED
      BY <2>2, <3>1 DEF RestoreDone, NoNetem
  <2> QED
    BY <2>1, <2>2
<1>5. /\ pr \in Pair
      /\ \A k \in Pair \ {pr} : links'[k] = links[k]
      /\ \A k \in Pair : links'[k].made = links[k].made /\ links'[k].idx = links[k].idx
      /\ links[pr].made = loc[p].made => links'[pr].st = st /\ links'[pr].netem = loc[p].netem
  <2>1. pc[p] \in {"disrupted", "restored"} /\ links' = Written(loc[p], st)
    BY <1>2, <1>4
  <2> QED
    BY <1>1, <2>1, WrittenFacts
<1>6. LinkNames' = LinkNames
  BY <1>5 DEF LinkNames
<1>7. Restamps
  BY <1>5 DEF Restamps
<1>8. UniqueIndices' /\ CleanSlate'
  <2>1. \A k \in LinkNames : k \in Pair
    BY DEF LinkNames
  <2> QED
    BY <1>2, <1>5, <1>6, <2>1 DEF UniqueIndices, CleanSlate, Sound
<1>9. ASSUME NEW k \in Pair \ {pr} PROVE Steady(k)
  <2>1. k \in torn => k \in torn'
    BY <1>1, <1>3, DoubtStays
  <2> QED
    BY <1>2, <1>5, <1>6, <2>1 DEF Steady
<1>10. Unwired' = Unwired
  BY <1>2, <1>6 DEF Unwired
<1>11. ASSUME pr \in Clear' PROVE Matches(pr)'
  <2>1. pr \in Clear \/ (p \notin touched /\ ~loc[p].bad)
    <3>1. CASE pr \in torn
      <4>1. Mended(pr)
        BY <1>5, <1>11, <3>1 DEF History, Clear
      <4>2. PICK q \in Proc \ touched : /\ pc[q] \in {"disrupted", "restored"} /\ pc'[q] = "idle"
                                        /\ loc[q].pr = pr /\ ~loc[q].bad
        BY <4>1 DEF Mended
      <4>3. q = p
        BY <1>3, <4>2
      <4> QED
        BY <4>2, <4>3
    <3> QED
      BY <1>6, <1>10, <1>11, <3>1 DEF Clear
  <2>2. links[pr].made = loc[p].made /\ Applied(p)
    BY <1>1, <1>2, <2>1 DEF Flight
  <2>3. links'[pr].st = st /\ links'[pr].netem = loc[p].netem
    BY <1>5, <2>2
  <2>4. \A s \in Side : tc'[pr][s] = TcArgs(loc[p].netem)
    BY <1>1, <1>2, <2>2 DEF Applied
  <2> QED
    BY <1>4, <2>3, <2>4 DEF Matches
<1>12. ThreadSound(p)'
  BY <1>3 DEF ThreadSound, Flying
<1> QED
  BY <1>1, <1>2, <1>3, <1>7, <1>8, <1>9, <1>11, <1>12, SoundNext

\* The thread goes on as k: to the other side, or to the write.
TcThen(p, k) ==
  IF loc[p].side = "a" THEN Goto(p, pc[p], [k EXCEPT !.side = "b"])
  ELSE Goto(p, IF pc[p] = "tc_del" THEN "restored" ELSE "disrupted", k)

Advanced(p) ==
  /\ \/ loc[p].side = "a" /\ pc'[p] = pc[p] /\ loc'[p].side = "b"
     \/ loc[p].side = "b" /\ pc'[p] \in {"disrupted", "restored"}
  /\ loc'[p].pr = loc[p].pr /\ loc'[p].made = loc[p].made /\ loc'[p].idx = loc[p].idx
  /\ loc'[p].netem = loc[p].netem

LEMMA TcAdvances ==
  ASSUME Shape, NEW p \in Proc, pc[p] \in {"tc_replace", "tc_del"}, NEW k \in LocalSet,
         TcThen(p, k), k.pr = loc[p].pr, k.made = loc[p].made, k.idx = loc[p].idx,
         k.netem = loc[p].netem, k.side = loc[p].side
  PROVE  Advanced(p) /\ loc'[p].bad = k.bad
<1>1. loc[p].side \in Side
  BY OtherLink DEF OnLink
<1>2. CASE loc[p].side = "a"
  <2> DEFINE j == [k EXCEPT !.side = "b"]
  <2>1. /\ j.side = "b" /\ j.pr = k.pr /\ j.made = k.made /\ j.idx = k.idx
        /\ j.netem = k.netem /\ j.bad = k.bad
    BY DEF LocalSet
  <2>2. Goto(p, pc[p], j)
    BY <1>2 DEF TcThen
  <2> HIDE DEF j
  <2>3. pc'[p] = pc[p] /\ loc'[p] = j
    BY <2>2, Bystanders
  <2> QED
    BY <1>2, <2>1, <2>3 DEF Advanced
<1>3. CASE loc[p].side = "b"
  <2>1. PICK label \in {"restored", "disrupted"} : Goto(p, label, k)
    BY <1>3 DEF TcThen
  <2>2. pc'[p] = label /\ loc'[p] = k
    BY <2>1, Bystanders
  <2> QED
    BY <1>3, <2>2 DEF Advanced
<1> QED
  BY <1>1, <1>2, <1>3 DEF Side

\* A command that takes effect, one that does not reach the end or finds no interface
\* there, and one that fails.
LEMMA TcOutcomes ==
  ASSUME Shape, NEW p \in Proc, Tc(p)
  PROVE  LET mine == Interface(At(loc[p].pr, loc[p].side), loc[p].idx, loc[p].side)
         IN \/ /\ Advanced(p) /\ loc'[p].bad = loc[p].bad
               /\ \E k \in mine : tc' = [tc EXCEPT ![k][loc[p].side] = TcArgs(loc[p].netem)]
            \/ Advanced(p) /\ loc'[p].bad /\ UNCHANGED tc
            \/ /\ faults' # faults /\ UNCHANGED tc
               /\ (Advanced(p) /\ loc'[p].bad) \/ Finish(p)
<1> DEFINE mine == Interface(At(loc[p].pr, loc[p].side), loc[p].idx, loc[p].side)
           b == [loc[p] EXCEPT !.bad = TRUE]
<1>1. \/ /\ TcThen(p, loc[p])
         /\ \E k \in mine : tc' = [tc EXCEPT ![k][loc[p].side] = TcArgs(loc[p].netem)]
      \/ TcThen(p, b) /\ UNCHANGED tc
      \/ Fails("tc") /\ UNCHANGED tc /\ (TcThen(p, b) \/ Finish(p))
  BY Zenon DEF Tc, TcThen
<1>2. pc[p] \in {"tc_replace", "tc_del"} /\ loc[p] \in LocalSet
  BY OtherLink DEF Tc, OnLink
<1>3. TcThen(p, loc[p]) => Advanced(p) /\ loc'[p].bad = loc[p].bad
  BY <1>2, TcAdvances
<1>4. TcThen(p, b) => Advanced(p) /\ loc'[p].bad
  <2>1. /\ b \in LocalSet /\ b.bad = TRUE
        /\ b.pr = loc[p].pr /\ b.made = loc[p].made /\ b.idx = loc[p].idx
        /\ b.netem = loc[p].netem /\ b.side = loc[p].side
    BY <1>2 DEF LocalSet
  <2> HIDE DEF b
  <2>2. ASSUME TcThen(p, b) PROVE Advanced(p) /\ loc'[p].bad = b.bad
    BY <1>2, <2>1, <2>2, TcAdvances
  <2> QED
    BY <2>1, <2>2
<1>5. Fails("tc") => faults' # faults
  BY DEF Fails, Shape, CountsOK
<1> HIDE DEF mine, b
<1>6. \/ /\ Advanced(p) /\ loc'[p].bad = loc[p].bad
         /\ \E k \in mine : tc' = [tc EXCEPT ![k][loc[p].side] = TcArgs(loc[p].netem)]
      \/ Advanced(p) /\ loc'[p].bad /\ UNCHANGED tc
      \/ /\ faults' # faults /\ UNCHANGED tc
         /\ (Advanced(p) /\ loc'[p].bad) \/ Finish(p)
  BY <1>1, <1>3, <1>4, <1>5
<1> QED
  BY <1>6 DEF mine

\* tc reaches the link that was looked up, or one that is from now on in doubt.
LEMMA TcSound ==
  ASSUME Shape, Shape', Sound, History, NEW p \in Proc, Tc(p)
  PROVE  Sound'
<1> DEFINE mine == Interface(At(loc[p].pr, loc[p].side), loc[p].idx, loc[p].side)
<1>1. PICK pr : pr = loc[p].pr
  OBVIOUS
<1>2. /\ pc[p] \in {"tc_replace", "tc_del"} /\ pc[p] \in Flying /\ Flight(p)
      /\ UNCHANGED <<links, started>>
      /\ pc[p] \notin {"disrupted", "restored"}
  BY DEF Tc, Flying, Sound, ThreadSound, tables
<1>3. pr \in Pair /\ loc[p].side \in Side
  BY <1>1, <1>2, OtherLink DEF OnLink
<1>4. \A q \in Proc \ {p} : pc'[q] = pc[q] /\ loc'[q] = loc[q]
  <2>1. \E label, k : Goto(p, label, k)
    BY DEF Tc, Finish
  <2> QED
    BY <2>1, Bystanders
<1>5. LinkNames' = LinkNames /\ Restamps /\ UniqueIndices'
  BY <1>2 DEF LinkNames, Restamps, UniqueIndices, Sound
<1>6. \A k \in Pair : k \in torn => k \in torn'
  BY <1>2, <1>4, DoubtStays
<1>7. \/ UNCHANGED tc
      \/ \E k \in mine : tc' = [tc EXCEPT ![k][loc[p].side] = TcArgs(loc[p].netem)]
  BY TcOutcomes
<1>8. \A k \in mine : /\ k \in LinkNames /\ k \in Pair /\ links[k].idx = loc[p].idx
                      /\ tc[k][loc[p].side] # Cut
  BY DEF Interface, LinkNames
<1> HIDE DEF mine
<1>9. CleanSlate'
  <2>1. \A k \in Pair \ LinkNames : tc'[k] = tc[k]
    BY <1>7, <1>8 DEF Shape, TcOK
  <2> QED
    BY <1>5, <2>1 DEF CleanSlate, Sound
<1>10. Tcs(p)
  <2>1. Advanced(p) \/ Finish(p)
    BY TcOutcomes
  <2>2. CASE Advanced(p)
    BY <1>2, <2>2 DEF Advanced, Tcs
  <2>3. CASE Finish(p)
    BY <1>2, <2>3, Bystanders DEF Finish, Tcs
  <2> QED
    BY <2>1, <2>2, <2>3
<1>11. ASSUME NEW k \in Pair \ {pr} PROVE Steady(k)
  <2> SUFFICES ASSUME k \in LinkNames' \ torn', tc'[k] # tc[k]
               PROVE  FALSE
    <3>1. k \in torn => k \in torn'
      BY <1>6
    <3> QED
      BY <1>2, <1>5, <3>1 DEF Steady
  <2>1. k \in mine
    BY <1>7, <1>8 DEF Shape, TcOK
  <2>2. links[k].made # loc[p].made
    BY <1>1, <1>2, <1>8, <2>1 DEF Flight
  <2>3. Torn(k)
    BY <1>10, <2>2 DEF Torn
  <2> QED
    BY <2>3 DEF History
<1>12. pr \in Clear' => pr \in Clear
  <2> SUFFICES ASSUME pr \in Clear' PROVE pr \in Clear
    OBVIOUS
  <2>1. pr \in LinkNames \ torn /\ \A s \in Side : tc'[pr][s] # Cut
    BY <1>3, <1>5, <1>6 DEF Clear, Unwired
  <2>2. ASSUME NEW s \in Side, tc[pr][s] = Cut PROVE FALSE
    <3>1. PICK k \in mine : tc' = [tc EXCEPT ![k][loc[p].side] = TcArgs(loc[p].netem)]
      BY <1>7, <2>1, <2>2
    <3>2. k = pr /\ s = loc[p].side
      BY <1>3, <1>8, <2>1, <2>2, <3>1 DEF Shape, TcOK
    <3> QED
      BY <1>8, <2>2, <3>1, <3>2
  <2> QED
    BY <2>1, <2>2 DEF Clear, Unwired
<1>13. ASSUME pr \in Clear' PROVE pc'[p] \in Flying /\ loc'[p].pr = pr
  <2>1. faults' = faults
    BY <1>1, <1>3, <1>10, <1>13 DEF Torn, History, Clear
  <2>2. Advanced(p)
    BY <2>1, TcOutcomes
  <2> QED
    BY <1>1, <1>2, <2>2 DEF Advanced, Flying
<1>14. ASSUME pc'[p] \in Flying PROVE Flight(p)'
  <2>1. ~Finish(p) /\ Advanced(p)
    <3>1. ~Finish(p)
      BY <1>14, Bystanders DEF Finish, Flying
    <3> QED
      BY <3>1, TcOutcomes
  <2>2. /\ loc'[p].pr = pr /\ loc'[p].made = loc[p].made /\ loc'[p].idx = loc[p].idx
        /\ loc'[p].netem = loc[p].netem
    BY <1>1, <2>1 DEF Advanced
  <2>3. ASSUME links[pr].made = loc[p].made, Applied(p), ~loc'[p].bad
        PROVE  Applied(p)'
    <3>1. links[pr].idx = loc[p].idx /\ pr \in LinkNames
      BY <1>1, <1>2, <1>3, <2>3 DEF Flight, LinkNames
    <3>2. \E k \in mine : tc' = [tc EXCEPT ![k][loc[p].side] = TcArgs(loc[p].netem)]
      BY <2>1, <2>3, TcOutcomes DEF mine
    <3>3. \A k \in mine : k = pr
      BY <1>8, <3>1 DEF Sound, UniqueIndices
    <3>4. tc' = [tc EXCEPT ![pr][loc[p].side] = TcArgs(loc[p].netem)]
      BY <3>2, <3>3
    <3>5. /\ tc'[pr][loc[p].side] = TcArgs(loc[p].netem)
          /\ \A s \in Side \ {loc[p].side} : tc'[pr][s] = tc[pr][s]
      BY <1>3, <3>4 DEF Shape, TcOK
    <3>6. CASE loc[p].side = "a"
      <4>1. pc'[p] = pc[p] /\ loc'[p].side = "b"
        BY <2>1, <3>6 DEF Advanced
      <4> QED
        BY <1>2, <2>2, <3>5, <3>6, <4>1 DEF Applied
    <3>7. CASE loc[p].side = "b"
      <4>1. pc'[p] \in {"disrupted", "restored"}
        BY <2>1, <3>7 DEF Advanced
      <4>2. tc[pr]["a"] = TcArgs(loc[p].netem)
        BY <1>1, <1>2, <2>3, <3>7 DEF Applied
      <4>3. \A s \in Side : tc'[pr][s] = TcArgs(loc[p].netem)
        BY <3>5, <3>7, <4>2 DEF Side
      <4> QED
        BY <2>2, <4>1, <4>3 DEF Applied
    <3> QED
      BY <1>3, <3>6, <3>7 DEF Side
  <2>4. ASSUME pr \in Clear'
        PROVE  links'[pr].made = loc[p].made /\ Applied(p)'
    <3>1. pr \in Clear
      BY <1>12, <2>4
    <3>2. links[pr].made = loc[p].made /\ Applied(p)
      BY <1>1, <1>2, <3>1 DEF Flight
    <3>3. ~loc'[p].bad
      BY <1>1, <1>3, <1>10, <2>4 DEF Torn, History, Clear
    <3> QED
      BY <1>2, <2>3, <3>2, <3>3
  <2>5. ASSUME p \notin touched'
        PROVE  links'[pr].made = loc[p].made /\ (~loc'[p].bad => Applied(p)')
    <3>1. p \notin touched
      BY <1>14, <2>5 DEF History, Flying
    <3>2. links[pr].made = loc[p].made
      BY <1>1, <1>2, <3>1 DEF Flight
    <3>3. ASSUME ~loc'[p].bad PROVE Applied(p)'
      <4>1. ~loc[p].bad
        BY <2>1, <3>3, TcOutcomes
      <4>2. Applied(p)
        BY <1>1, <1>2, <3>1, <4>1 DEF Flight
      <4> QED
        BY <2>3, <3>2, <3>3, <4>2
    <3> QED
      BY <1>2, <3>2, <3>3
  <2> QED
    BY <1>1, <1>2, <1>3, <2>2, <2>4, <2>5 DEF Flight
<1>15. pc'[p] \notin {"made_link", "gone_net"}
  <2>1. CASE Finish(p)
    BY <2>1, Bystanders DEF Finish
  <2>2. CASE Advanced(p)
    BY <1>2, <2>2 DEF Advanced
  <2> QED
    BY <2>1, <2>2, TcOutcomes
<1>16. ThreadSound(p)'
  BY <1>14, <1>15 DEF ThreadSound
<1>17. \A k \in Clear' : k = loc[p].pr /\ loc'[p].pr # k => Matches(k)'
  BY <1>1, <1>13
<1> QED
  BY <1>1, <1>2, <1>4, <1>5, <1>9, <1>11, <1>16, <1>17, SoundNext

-----------------------------------------------------------------------------
(* The theorem *)

\* The number of the pairs before a pair tells it from the others.
LEMMA InitIndices ==
  ASSUME NEW now \in SUBSET Pair, NEW pr \in now, NEW qr \in now,
         Cardinality({k \in now : Before(k, pr)}) = Cardinality({k \in now : Before(k, qr)})
  PROVE  pr = qr
<1>1. ASSUME NEW x \in now, NEW y \in now, Before(x, y)
      PROVE  Cardinality({k \in now : Before(k, x)}) < Cardinality({k \in now : Before(k, y)})
  <2>1. IsFiniteSet({k \in now : Before(k, y)})
    BY PairFacts, FS_Subset
  <2>2. {k \in now : Before(k, x)} \subseteq {k \in now : Before(k, y)}
    BY <1>1, PairsAreSorted
  <2>3. x \in {k \in now : Before(k, y)} \ {k \in now : Before(k, x)}
    BY <1>1, PairsAreSorted
  <2> QED
    BY <2>1, <2>2, <2>3, CountsGrow
<1>2. ASSUME NEW x \in now PROVE Cardinality({k \in now : Before(k, x)}) \in Nat
  BY PairFacts, FS_Subset, FS_CardinalityType
<1>3. ~Before(pr, qr)
  BY <1>1, <1>2
<1>4. ~Before(qr, pr)
  BY <1>1, <1>2
<1> QED
  BY <1>3, <1>4, PairsAreSorted

LEMMA InitSound ==
  ASSUME Init
  PROVE  Sound
<1>1. PICK s \in Scenes :
         links = [pr \in Pair |->
                       IF pr \notin s.now THEN NoLink
                       ELSE [NoLink EXCEPT !.made = 1, !.st = "up",
                                           !.idx = Cardinality({q \in s.now : Before(q, pr)})]]
  BY DEF Init
<1>2. PICK now \in SUBSET Pair : now = s.now
  BY SceneAssumption
<1> DEFINE Nth(pr) == Cardinality({q \in now : Before(q, pr)})
<1>3. ASSUME NEW pr \in now
      PROVE  /\ links[pr].made = 1 /\ links[pr].st = "up" /\ links[pr].netem = NoNetem
             /\ links[pr].idx = Nth(pr)
  BY <1>1, <1>2 DEF NoLink
<1>4. \A pr \in Pair \ now : links[pr].made = 0
  BY <1>1, <1>2 DEF NoLink
<1>5. LinkNames = now
  <2> HIDE DEF Nth
  <2> QED
    BY <1>2, <1>3, <1>4 DEF LinkNames
<1>6. UniqueIndices
  <2>1. \A pr, qr \in now : Nth(pr) = Nth(qr) => pr = qr
    BY InitIndices
  <2> HIDE DEF Nth
  <2> QED
    BY <1>3, <1>5, <2>1 DEF UniqueIndices
<1>7. /\ tc = [pr \in Pair |-> NoTc]
      /\ \A p \in Proc : pc[p] = "idle" /\ loc[p].pr \notin Pair
  BY PairFacts DEF Init, NoLocal
<1>8. ASSUME NEW pr \in LinkNames PROVE Matches(pr)
  <2>1. TcArgs(NoNetem) = NoNetem /\ NoNetem.loss = 0
    BY DEF TcArgs, NoNetem
  <2>2. links[pr].st = "up" /\ links[pr].netem = NoNetem
    BY <1>3, <1>5
  <2>3. \A side \in Side : tc[pr][side] = NoNetem
    BY <1>7 DEF LinkNames, NoTc
  <2> QED
    BY <2>1, <2>2, <2>3 DEF Matches
<1>9. CleanSlate /\ Overlaps /\ Settles
  BY <1>7, <1>8 DEF CleanSlate, Overlaps, Settles, Clear
<1> QED
  BY <1>6, <1>7, <1>9 DEF Sound, ThreadSound, Flying

LEMMA LifeSound ==
  ASSUME Shape, Shape', Sound, History, NEW p \in Proc, LifeCall(p) \/ LifeStep(p)
  PROVE  Sound'
<1>1. CASE \/ NodeMade(p) \/ ContainerGone(p) \/ NodeDropped(p)
           \/ \E n \in Node : NodeReserved(p, n) \/ DeleteNode(p, n)
  <2>1. pc[p] = "idle" \/ pc[p] \in OnNode
    BY <1>1 DEF NodeMade, ContainerGone, NodeDropped, NodeReserved, DeleteNode, Begin, OnNode
  <2>2. loc[p].n \in Node \/ pc[p] = "idle"
    BY <2>1 DEF Shape, ThreadsOK, Fits
  <2> QED
    BY <1>1, <2>2, NodeIsAside, AsideSound
<1>2. CASE \E pr \in Pair : DeleteLink(p, pr) \/ (\E cl \in CL : LinkReserved(p, pr, cl))
  BY <1>2, DeleteLinkSound, LinkReservedSound
<1>3. CASE LinkMade(p) \/ GoneNext(p) \/ NetGone(p) \/ LinkPopped(p)
  BY <1>3, LinkMadeSound, GoneNextSound, NetGoneSound, LinkPoppedSound
<1> QED
  BY <1>1, <1>2, <1>3 DEF LifeCall, LifeStep

LEMMA StepSound ==
  ASSUME Shape, Shape', Sound, [Next]_liveVars
  PROVE  Sound'
<1>1. CASE UNCHANGED liveVars
  <2>1. UNCHANGED <<links, tc, torn, touched, pc, loc, started>>
    BY <1>1 DEF liveVars, vars
  <2>2. LinkNames' = LinkNames /\ Clear' = Clear
    BY <2>1 DEF LinkNames, Clear, Unwired
  <2>3. \A pr : Matches(pr)' = Matches(pr)
    BY <2>1 DEF Matches
  <2>4. UniqueIndices' /\ CleanSlate' /\ Overlaps' /\ Settles'
    BY <2>1, <2>2, <2>3 DEF Sound, UniqueIndices, CleanSlate, Overlaps, Settles
  <2>5. ASSUME NEW p \in Proc PROVE ThreadSound(p)'
    BY <2>1, <2>2, <2>3 DEF Sound, ThreadSound, Making, Leaving, Flight, Applied
  <2> QED
    BY <2>4, <2>5 DEF Sound
<1>2. ASSUME History, NEW p \in Proc, LifeCall(p) \/ LifeStep(p)
      PROVE  Sound'
  BY <1>2, LifeSound
<1>3. ASSUME History, NEW p \in Proc,
             ExitCall(p) \/ ExitStep(p) \/ RawCall(p) \/ DocCall(p) \/ DocStep(p)
      PROVE  Sound'
  BY <1>3, ExitCallIsAside, ExitStepIsAside, DocumentsAreAside, AsideSound
<1>4. ASSUME History, NEW p \in Proc, DisruptCall(p) \/ DisruptStep(p)
      PROVE  Sound'
  BY <1>4, LookSound, TcSound, DoneSound DEF DisruptCall, DisruptStep, DisruptLink, RestoreLink
<1>5. ASSUME History, NEW n \in Node, ContainerExits(n)
      PROVE  Sound'
  BY <1>5, ContainerExitsSound
<1> QED
  BY <1>1, <1>2, <1>3, <1>4, <1>5 DEF Next, Call, Step

\* However many threads disrupt, restore, make and remove links at the same time,
\* whatever deletions fail half-way and whatever containers exit: unless the qdiscs of a
\* link are in doubt or an end of it has no interface, its status and its netem are what
\* tc does at both ends, and a call that nothing interfered with ends all doubt
\* (disrupt_link, restore_link, delete_link).
THEOREM StatusIsTrue == Spec => []StatusMatchesTc
<1>1. Init => Sound
  BY InitSound
<1>2. Shape /\ Shape' /\ Sound /\ [Next]_liveVars => Sound'
  BY StepSound
<1>3. Shape /\ Sound => StatusMatchesTc
  BY SoundSuffices
<1> QED
  BY <1>1, <1>2, <1>3, ShapeHolds, PTL DEF Spec
=============================================================================

---------------------------- MODULE LiveViewProofs ----------------------------
(***************************************************************************)
(* Proofs about LiveView, for any nodes, requests, scenes and bounds: what  *)
(* is shown or on its way names a process and an epoch, and these identify  *)
(* the nodes.                                                              *)
(***************************************************************************)
EXTENDS LiveView, SequenceTheorems, WellFoundedInduction, TLAPS

\* What the browser holds: what it shows, and what it may come to show.
Held == {shown, NoTopology} \union Range(pushed) \union {asked[r].data : r \in Requests}

MadeNow == {<<n, live[n].inc>> : n \in {m \in Node : live[m].st = "made"}}

States == {"absent", "creating", "made"}

\* A message at most is under way, and a request has its two fields.
OneMessage == pushed = <<>> \/ \E t \in Range(pushed) : pushed = <<t>>
AskedOK == asked = [r \in Requests |-> [st |-> asked[r].st, data |-> asked[r].data]]

Nodes == [Node -> [inc : 0..MaxMade, st : States]]

ServerOK ==
  /\ live \in Nodes /\ \A n \in Node : live[n].inc <= made
  /\ epoch \in Nat /\ boot \in {1, 2} /\ made \in 0..MaxMade

\* The topologies H are of the past, or are what process b has in epoch e, the nodes
\* M. Two of them of one process and epoch have the same nodes.
Past(t, b, e) == t.boot < b \/ (t.boot = b /\ t.epoch < e)
Now(t, b, e, M) == t.boot = b /\ t.epoch = e /\ MadeIn(t) = M

Coherent(H, b, e, M) ==
  /\ \A t \in H : t.boot \in Nat /\ t.epoch \in Nat /\ (Past(t, b, e) \/ Now(t, b, e, M))
  /\ \A t, u \in H : t.boot = u.boot /\ t.epoch = u.epoch => MadeIn(t) = MadeIn(u)

IInv ==
  /\ ServerOK /\ OneMessage /\ AskedOK
  /\ \A t \in Held : t.nodes \in Nodes
  /\ Coherent(Held, boot, epoch, MadeNow)

-----------------------------------------------------------------------------
(* Coherence *)

\* A snapshot of the server may join what is held.
LEMMA SnapshotJoins ==
  ASSUME NEW H, NEW H2, NEW s, NEW b \in Nat, NEW e \in Nat, NEW M,
         Coherent(H, b, e, M), Now(s, b, e, M), H2 \subseteq H \union {s}
  PROVE  Coherent(H2, b, e, M)
<1>1. \A t \in H : t.boot \in Nat /\ t.epoch \in Nat /\ (Past(t, b, e) \/ Now(t, b, e, M))
  BY DEF Coherent
<1>2. ASSUME NEW t \in H2
      PROVE  t.boot \in Nat /\ t.epoch \in Nat /\ (Past(t, b, e) \/ Now(t, b, e, M))
  BY <1>1, <1>2 DEF Now
<1>3. ASSUME NEW t \in H, t.boot = b, t.epoch = e
      PROVE  MadeIn(t) = M
  BY <1>1, <1>3 DEF Past, Now
<1>4. ASSUME NEW t \in H2, NEW u \in H2, t.boot = u.boot, t.epoch = u.epoch
      PROVE  MadeIn(t) = MadeIn(u)
  <2>1. CASE t \in H /\ u \in H
    BY <2>1, <1>4 DEF Coherent
  <2>2. CASE t = s \/ u = s
    BY <2>2, <1>3, <1>4 DEF Now
  <2> QED BY <2>1, <2>2
<1> QED BY <1>2, <1>4 DEF Coherent

\* When the server moves on, to a later epoch or a later process, what is held
\* becomes the past.
LEMMA ServerMovesOn ==
  ASSUME NEW H, NEW H2, NEW b \in Nat, NEW e \in Nat, NEW M,
         NEW b2 \in Nat, NEW e2 \in Nat, NEW M2,
         Coherent(H, b, e, M), H2 \subseteq H,
         b2 > b \/ (b2 = b /\ e2 > e)
  PROVE  Coherent(H2, b2, e2, M2)
<1>1. ASSUME NEW t \in H2
      PROVE  t.boot \in Nat /\ t.epoch \in Nat /\ Past(t, b2, e2)
  BY <1>1 DEF Coherent, Past, Now
<1> QED BY <1>1 DEF Coherent

\* What get_topology() returns is of this process and this epoch.
LEMMA TopologyIsNow == \A m : Now(Topology(m), boot, epoch, MadeNow)
BY DEF Topology, Now, MadeIn, MadeNow

-----------------------------------------------------------------------------
(* Steps of the server *)

\* The view stays, and the server moves on by an epoch.
LEMMA CommitStep ==
  ASSUME IInv, NEW n \in Node, CommitNode(n) \/ DeleteNode(n), UNCHANGED viewVars
  PROVE  IInv'
<1>1. ServerOK' /\ epoch' = epoch + 1 /\ boot' = boot
  <2>1. live \in Nodes /\ made \in Nat /\ \A m \in Node : live[m].inc <= made
    BY DEF IInv, ServerOK
  <2>2. \A m \in Node : /\ live'[m] \in [inc : 0..MaxMade, st : States]
                        /\ live'[m].inc \in {live[m].inc, 0}
    BY <2>1, BoundAssumption DEF Nodes, States, CommitNode, DeleteNode, Absent
  <2>3. live' \in Nodes
    BY <2>1, <2>2 DEF Nodes, CommitNode, DeleteNode
  <2>4. \A m \in Node : live'[m].inc <= made
    BY <2>1, <2>2 DEF Nodes
  <2> QED BY <2>3, <2>4 DEF IInv, ServerOK, CommitNode, DeleteNode
<1>2. Held' = Held /\ OneMessage' /\ AskedOK'
  BY DEF IInv, viewVars, topoVars, Held, OneMessage, AskedOK
<1>3. Coherent(Held', boot', epoch', MadeNow')
  BY <1>1, <1>2, ServerMovesOn DEF IInv, ServerOK
<1> QED BY <1>1, <1>2, <1>3 DEF IInv

\* A placeholder comes or goes: no node that is made does.
LEMMA PlaceholderStep ==
  ASSUME IInv, NEW n \in Node, ReserveNode(n) \/ UnreserveNode(n), UNCHANGED viewVars
  PROVE  IInv'
<1>1. ServerOK' /\ epoch' = epoch /\ boot' = boot
  <2>1. live \in Nodes /\ made \in Nat /\ \A m \in Node : live[m].inc <= made
    BY DEF IInv, ServerOK
  <2>2. made' \in 0..MaxMade /\ made' >= made
    BY BoundAssumption DEF IInv, ServerOK, ReserveNode, UnreserveNode
  <2>3. \A m \in Node : /\ live'[m] \in [inc : 0..MaxMade, st : States]
                        /\ live'[m].inc \in {live[m].inc, 0, made'}
    BY <2>1, <2>2, BoundAssumption DEF Nodes, States, ReserveNode, UnreserveNode, Absent
  <2>4. live' \in Nodes
    BY <2>1, <2>3 DEF Nodes, ReserveNode, UnreserveNode
  <2>5. \A m \in Node : live'[m].inc <= made'
    BY <2>1, <2>2, <2>3 DEF Nodes
  <2> QED BY <2>2, <2>4, <2>5 DEF IInv, ServerOK, ReserveNode, UnreserveNode
<1>2. live[n].st # "made" /\ live'[n].st # "made" /\ \A m \in Node \ {n} : live'[m] = live[m]
  BY DEF IInv, ServerOK, Nodes, States, ReserveNode, UnreserveNode, Absent, Present
<1>3. MadeNow' = MadeNow
  BY <1>2 DEF MadeNow
<1>4. Held' = Held /\ OneMessage' /\ AskedOK'
  BY DEF IInv, viewVars, topoVars, Held, OneMessage, AskedOK
<1> QED BY <1>1, <1>3, <1>4 DEF IInv

\* Steps that change no node.
LEMMA OtherStep ==
  ASSUME IInv, UNCHANGED <<live, epoch, boot, made, shown, pushed, asked>>
  PROVE  IInv'
<1>1. MadeNow' = MadeNow /\ Held' = Held
  BY DEF MadeNow, Held
<1>2. ServerOK' /\ OneMessage' /\ AskedOK'
  BY DEF IInv, ServerOK, OneMessage, AskedOK
<1> QED BY <1>1, <1>2 DEF IInv

LEMMA PollKeepsNodes ==
  ASSUME PollStep \/ (\E n \in Node : PrintLine(n) \/ Bundle(n))
  PROVE  UNCHANGED <<live, epoch, boot, made>>
BY DEF PollStep, PollStart, PollNode, Publish, CountBlocks, Trigger, ReadLines, CountAgain,
       CountBundles, PrintLine, Bundle, nodeVars

-----------------------------------------------------------------------------
(* Steps of the browser *)

\* The server stays, and what is held is what was, and at most a snapshot more.
LEMMA ViewStep ==
  ASSUME IInv, NEW m, UNCHANGED <<live, epoch, boot, made>>,
         OneMessage', AskedOK', Held' \subseteq Held \union {Topology(m)}
  PROVE  IInv'
<1>1. MadeNow' = MadeNow
  BY DEF MadeNow
<1>2. ServerOK'
  BY DEF IInv, ServerOK
<1>3. Coherent(Held', boot, epoch, MadeNow)
  BY SnapshotJoins, TopologyIsNow DEF IInv, ServerOK
<1>4. Topology(m).nodes \in Nodes
  BY DEF IInv, ServerOK, Topology
<1>5. \A t \in Held' : t.nodes \in Nodes
  BY <1>4 DEF IInv
<1> QED BY <1>1, <1>2, <1>3, <1>5 DEF IInv

LEMMA HeadIsHeld ==
  ASSUME OneMessage, pushed # <<>>
  PROVE  Head(pushed) \in Held
BY DEF OneMessage, Held, Range

LEMMA RangeOfOne == \A x : Range(<<x>>) = {x}
BY DEF Range

LEMMA PushStep == IInv /\ Push => IInv'
<1> SUFFICES ASSUME IInv, Push PROVE IInv'
  OBVIOUS
<1>1. Range(pushed') = {Topology(TRUE)} /\ pushed' = <<Topology(TRUE)>>
  BY RangeOfOne DEF Push
<1>2. OneMessage'
  BY <1>1 DEF OneMessage
<1>3. AskedOK'
  BY DEF IInv, AskedOK, Push
<1>4. Held' \subseteq Held \union {Topology(TRUE)}
  BY <1>1 DEF Push, Held, NoTopology, Absent
<1> QED BY <1>2, <1>3, <1>4, ViewStep DEF Push, statsVars

LEMMA ReceiveStep == IInv /\ Receive => IInv'
<1> SUFFICES ASSUME IInv, Receive PROVE IInv'
  OBVIOUS
<1>1. Range(pushed') = {} /\ OneMessage'
  BY DEF Receive, Range, OneMessage
<1>2. AskedOK'
  BY DEF IInv, AskedOK, Receive
<1>3. shown' \in Held
  BY HeadIsHeld DEF IInv, Receive, Show, Held
<1>4. Held' \subseteq Held
  BY <1>1, <1>3 DEF Receive, Held, NoTopology, Absent
<1> QED BY <1>1, <1>2, <1>4, ViewStep DEF Receive, statsVars

\* A request is made, answered, shown or lost.
LEMMA AskStep ==
  ASSUME IInv, NEW r \in Requests, Ask(r) \/ Answer(r) \/ Arrive(r) \/ LoseAnswer(r)
  PROVE  IInv'
<1>1. OneMessage' /\ pushed' = pushed /\ UNCHANGED <<live, epoch, boot, made>>
  BY DEF IInv, OneMessage, Ask, Answer, Arrive, LoseAnswer, statsVars, nodeVars
<1>2. AskedOK'
  BY DEF IInv, AskedOK, Ask, Answer, Arrive, LoseAnswer, Idle
<1>3. \A q \in Requests : asked'[q].data \in {asked[q].data, NoTopology, Topology(FALSE)}
  <2>1. asked = [q \in Requests |-> [st |-> asked[q].st, data |-> asked[q].data]]
    BY DEF IInv, AskedOK
  <2>2. CASE Ask(r)
    <3>1. \A q \in Requests : asked'[q] = IF q = r THEN [asked[r] EXCEPT !.st = "asked"] ELSE asked[q]
      BY <2>1, <2>2 DEF Ask
    <3>2. asked[r] = [st |-> asked[r].st, data |-> asked[r].data]
      BY <2>1
    <3>3. [asked[r] EXCEPT !.st = "asked"].data = asked[r].data
      BY <3>2
    <3> QED BY <3>1, <3>3
  <2>3. CASE Answer(r)
    <3> DEFINE T == Topology(FALSE)
    <3>1. asked' = [asked EXCEPT ![r] = [st |-> "answered", data |-> T]]
      BY <2>3 DEF Answer
    <3> HIDE DEF T
    <3>2. \A q \in Requests : asked'[q].data \in {asked[q].data, T}
      BY <2>1, <3>1
    <3> QED BY <3>2 DEF T
  <2>4. CASE Arrive(r) \/ LoseAnswer(r)
    <3>1. asked' = [asked EXCEPT ![r] = Idle]
      BY <2>4 DEF Arrive, LoseAnswer
    <3>2. Idle.data = NoTopology
      BY DEF Idle
    <3>3. \A q \in Requests : asked'[q] = IF q = r THEN Idle ELSE asked[q]
      BY <2>1, <3>1
    <3> QED BY <3>2, <3>3
  <2> QED BY <2>2, <2>3, <2>4
<1>4. shown' \in Held
  BY DEF Ask, Answer, Arrive, LoseAnswer, Show, Held
<1>5. Held' \subseteq Held \union {Topology(FALSE)}
  BY <1>1, <1>3, <1>4 DEF Held, NoTopology, Absent
<1> QED BY <1>1, <1>2, <1>5, ViewStep

\* A new process is a later one, whatever its epoch.
LEMMA RebootStep == IInv /\ Reboot => IInv'
<1> SUFFICES ASSUME IInv, Reboot PROVE IInv'
  OBVIOUS
<1>1. ServerOK' /\ boot' > boot
  <2>1. live \in Nodes /\ Absent \in [inc : 0..MaxMade, st : States] /\ made \in Nat
    BY BoundAssumption DEF IInv, ServerOK, Nodes, States, Absent
  <2>2. \A n \in Node : /\ [live[n] EXCEPT !.st = "made"] \in [inc : 0..MaxMade, st : States]
                        /\ [live[n] EXCEPT !.st = "made"].inc = live[n].inc
    BY <2>1 DEF Nodes, States
  <2>3. live' \in Nodes /\ \A n \in Node : live'[n].inc \in {live[n].inc, 0}
    <3>1. PICK half \in SUBSET {n \in Node : live[n].st = "creating"} :
            live' = [n \in Node |-> IF Readable(n) THEN live[n]
                                    ELSE IF n \in half THEN [live[n] EXCEPT !.st = "made"] ELSE Absent]
      BY DEF Reboot
    <3>2. \A n \in Node : /\ live'[n] \in [inc : 0..MaxMade, st : States]
                          /\ live'[n].inc \in {live[n].inc, 0}
      BY <2>1, <2>2, <3>1 DEF Nodes, Absent
    <3> QED BY <3>1, <3>2 DEF Nodes
  <2> QED BY <2>1, <2>3 DEF IInv, ServerOK, Reboot
<1>2. Range(pushed') = {} /\ OneMessage'
  BY DEF Reboot, Range, OneMessage
<1>3. AskedOK'
  BY DEF IInv, AskedOK, Reboot, Idle
<1>4. \A q \in Requests : asked'[q].data \in {asked[q].data, NoTopology}
  BY DEF Reboot, Idle
<1>5. Held' \subseteq Held
  BY <1>2, <1>4 DEF Reboot, Held, NoTopology, Absent
<1>6. Coherent(Held', boot', epoch', MadeNow')
  BY <1>1, <1>5, ServerMovesOn DEF IInv, ServerOK
<1> QED BY <1>1, <1>2, <1>3, <1>5, <1>6 DEF IInv

-----------------------------------------------------------------------------
(* The theorem *)

LEMMA InitCoherent == LiveInit => IInv
<1> SUFFICES ASSUME LiveInit PROVE IInv
  OBVIOUS
<1>1. ServerOK
  BY BoundAssumption DEF LiveInit, StatsInit, ServerOK, Nodes, States, Absent
<1>2. OneMessage /\ AskedOK
  BY DEF LiveInit, OneMessage, AskedOK, Idle
<1>3. Held = {NoTopology}
  BY DEF LiveInit, Held, Range, Idle
<1>4. NoTopology.boot = 0 /\ NoTopology.epoch = 0
  BY DEF NoTopology
<1>5. Coherent(Held, boot, epoch, MadeNow)
  BY <1>3, <1>4, boot = 1 DEF Coherent, Past, LiveInit, StatsInit
<1>6. NoTopology.nodes \in Nodes
  BY BoundAssumption DEF NoTopology, Nodes, States, Absent
<1> QED BY <1>1, <1>2, <1>3, <1>5, <1>6 DEF IInv

LEMMA StepCoherent == IInv /\ [LiveNext]_liveVars => IInv'
<1> SUFFICES ASSUME IInv, [LiveNext]_liveVars PROVE IInv'
  OBVIOUS
<1>1. CASE \/ PollStep /\ UNCHANGED viewVars
           \/ \E n \in Node : PrintLine(n) /\ UNCHANGED viewVars
  BY <1>1, PollKeepsNodes, OtherStep DEF viewVars, topoVars
<1>2. CASE AskStats \/ ShowStats \/ EndImport \/ StartImport
  BY <1>2, OtherStep DEF AskStats, ShowStats, EndImport, StartImport, statsVars
<1>3. CASE \E n \in Node : ConnectLogs(n) \/ ReadLogs(n) \/ ShowLines(n) \/ DropLogs(n)
  BY <1>3, OtherStep DEF ConnectLogs, ReadLogs, ShowLines, DropLogs, statsVars, topoVars
<1>4. CASE Push \/ Receive
  BY <1>4, PushStep, ReceiveStep
<1>5. CASE \E r \in Requests : Ask(r) \/ Answer(r) \/ Arrive(r) \/ LoseAnswer(r)
  BY <1>5, AskStep
<1>6. CASE NodeStep /\ UNCHANGED viewVars
  <2> PICK n \in Node : \/ ReserveNode(n) \/ CommitNode(n) \/ UnreserveNode(n) \/ DeleteNode(n)
                        \/ Bundle(n) \/ PrintLine(n)
    BY <1>6 DEF NodeStep
  <2>1. CASE CommitNode(n) \/ DeleteNode(n)
    BY <1>6, <2>1, CommitStep
  <2>2. CASE ReserveNode(n) \/ UnreserveNode(n)
    BY <1>6, <2>2, PlaceholderStep
  <2>3. CASE Bundle(n) \/ PrintLine(n)
    BY <1>6, <2>3, PollKeepsNodes, OtherStep DEF viewVars, topoVars
  <2> QED BY <2>1, <2>2, <2>3
<1>7. CASE Reboot
  BY <1>7, RebootStep
<1>8. CASE UNCHANGED liveVars
  BY <1>8, OtherStep DEF liveVars, statsVars, viewVars, topoVars
<1> QED BY <1>1, <1>2, <1>3, <1>4, <1>5, <1>6, <1>7, <1>8 DEF LiveNext, Running

\* What is held, and the server's own topology, are coherent.
LEMMA CoherentIdentifies == IInv => EpochIdentifiesNodes
<1> SUFFICES ASSUME IInv PROVE EpochIdentifiesNodes
  OBVIOUS
<1>1. Topologies \subseteq Held \union {Topology(FALSE)}
  BY DEF Topologies, Held
<1>2. boot \in Nat /\ epoch \in Nat /\ Coherent(Held, boot, epoch, MadeNow)
  BY DEF IInv, ServerOK
<1>3. Now(Topology(FALSE), boot, epoch, MadeNow)
  BY TopologyIsNow
<1>4. Coherent(Topologies, boot, epoch, MadeNow)
  BY <1>1, <1>2, <1>3, SnapshotJoins
<1> QED BY <1>4 DEF Coherent, EpochIdentifiesNodes

\* Two topologies of one process and one epoch have the same nodes, at any number
\* of nodes and requests, whatever is late: the pair that the browser compares when
\* it decides to flush the badges tells node sets apart (docker_manager.py:75-83;
\* app.js:35-38).
THEOREM EpochSound == LiveSpec => []EpochIdentifiesNodes
BY InitCoherent, StepCoherent, CoherentIdentifies, PTL DEF LiveSpec

-----------------------------------------------------------------------------
(* What the badges rest on *)

LEMMA SameNodes ==
  ASSUME NEW t, NEW u, MadeIn(t) = MadeIn(u), NEW n \in Node, t.nodes[n].st = "made"
  PROVE  u.nodes[n].inc = t.nodes[n].inc
<1>1. <<n, t.nodes[n].inc>> \in MadeIn(u)
  BY DEF MadeIn
<1>2. PICK m \in Node : <<n, t.nodes[n].inc>> = <<m, u.nodes[m].inc>>
  BY <1>1 DEF MadeIn
<1> QED BY <1>2

\* A topology that is shown at last flushes the badges, unless it has the same nodes.
LEMMA ShowFlushes ==
  ASSUME IInv, NEW t \in Held, Show(t), NEW n \in Node,
         shown.nodes[n].st = "made", shown'.nodes[n].inc # shown.nodes[n].inc
  PROVE  badges'[n] = NoStats
<1>1. shown # NoTopology
  BY DEF NoTopology, Absent
<1>2. shown' = t /\ badges' = Flushed(t)
  BY DEF Show
<1>3. shown \in Held
  BY DEF Held
<1>4. ~(shown.epoch = t.epoch /\ shown.boot = t.boot)
  BY <1>2, <1>3, SameNodes DEF IInv, Coherent
<1> QED BY <1>1, <1>2, <1>4 DEF Flushed, NoBadges, Nothing

BadgeStep == \A n \in Node :
  shown.nodes[n].st = "made" /\ shown'.nodes[n].inc # shown.nodes[n].inc => badges'[n] = NoStats

LEMMA StepFlushes == IInv /\ [LiveNext]_liveVars => BadgeStep
<1> SUFFICES ASSUME IInv, [LiveNext]_liveVars PROVE BadgeStep
  OBVIOUS
<1>1. CASE shown' = shown
  BY <1>1 DEF BadgeStep
<1>2. CASE Receive
  <2>1. CASE Importing
    BY <1>1, <1>2, <2>1 DEF Receive
  <2>2. CASE ~Importing
    BY <1>2, <2>2, HeadIsHeld, ShowFlushes DEF BadgeStep, Receive, IInv
  <2> QED BY <2>1, <2>2
<1>3. CASE \E r \in Requests : Arrive(r)
  BY <1>3, ShowFlushes DEF BadgeStep, Arrive, Held
<1>4. Receive \/ (\E r \in Requests : Arrive(r)) \/ shown' = shown
  BY DEF LiveNext, Running, Push, AskStats, ShowStats, EndImport, StartImport, Reboot, Ask, Answer,
         LoseAnswer, ConnectLogs, ReadLogs, ShowLines, DropLogs, liveVars, viewVars, topoVars
<1> QED BY <1>1, <1>2, <1>3, <1>4

\* The badge of a node that is gone from the topology shown, or that another node has
\* replaced, goes in the same step: no late answer, no order of messages and no
\* restart leaves it (app.js:186-198).
THEOREM StaleBadgesFlushed == LiveSpec => BadgesGoWithNodes
<1>1. LiveSpec => []IInv
  BY InitCoherent, StepCoherent, PTL DEF LiveSpec
<1>2. IInv /\ [LiveNext]_liveVars => [BadgeStep]_liveVars
  BY StepFlushes
<1> QED BY <1>1, <1>2, PTL DEF LiveSpec, BadgesGoWithNodes, BadgeStep
-----------------------------------------------------------------------------
(* Statistics *)

StatOK(s) == s.dlv \in 0..MaxBundles /\ s.of \in 0..MaxMade
StatsOK(f) == DOMAIN f = Node /\ \A n \in Node : StatOK(f[n])

\* While the poller asks a node, there is one that it asks.
PollOK(p) ==
  /\ DOMAIN p = {"at", "todo", "n", "of", "fresh", "tries", "lines", "ok", "vals", "result"}
  /\ p.todo \subseteq Node
  /\ p.at \in {"asleep", "next"} \/ p.n \in Node
  /\ p.of \in 0..MaxMade
  /\ StatsOK(p.result)

StatInv ==
  /\ total \in [Node -> 0..MaxBundles]
  /\ PollOK(poll) /\ StatsOK(snapshot) /\ StatsOK(askedStats.data) /\ StatsOK(badges)

LEMMA NoStatsOK == StatOK(NoStats) /\ StatsOK(Nothing) /\ PollOK(Asleep)
<1>1. StatOK(NoStats)
  BY BoundAssumption DEF StatOK, NoStats
<1>2. StatsOK(Nothing)
  BY <1>1 DEF StatsOK, Nothing
<1>3. PollOK(Asleep)
  BY <1>2, BoundAssumption DEF PollOK, Asleep
<1> QED BY <1>1, <1>2, <1>3

\* The poller goes on to the next node.
LEMMA DoneOK ==
  ASSUME PollOK(poll), NEW st, StatOK(st)
  PROVE  PollOK(Done(st))
<1> DEFINE p == Done(st)
<1>1. /\ DOMAIN p = DOMAIN poll /\ p.todo = poll.todo /\ p.at = "next" /\ p.of = 0
      /\ p.result = [poll.result EXCEPT ![poll.n] = st]
  BY DEF PollOK, Done
<1>2. StatsOK(p.result)
  BY <1>1 DEF PollOK, StatsOK
<1> HIDE DEF p
<1> QED BY <1>1, <1>2, BoundAssumption DEF PollOK, p

LEMMA TimedOutOK == PollOK(poll) /\ TimedOut => PollOK(poll')
BY DoneOK, NoStatsOK DEF TimedOut

\* Of what the poller knows nothing changes but its place, blocks, lines and values.
LEMMA PollMoves ==
  ASSUME PollOK(poll), NEW p, DOMAIN p = DOMAIN poll,
         p.todo = poll.todo, p.n = poll.n, p.of = poll.of, p.result = poll.result,
         poll.at \notin {"asleep", "next"} \/ p.at = poll.at
  PROVE  PollOK(p)
BY DEF PollOK

\* The least node left is one of them.
LEMMA LeastLeft ==
  ASSUME NEW S, S \subseteq Node, S # {}
  PROVE  Min(S) \in S
<1> DEFINE Less == {ss \in Nat \X Nat : ss[1] < ss[2]}
<1>1. IsWellFoundedOn(Less, Nat)
  BY NatLessThanWellFounded DEF OpToRel
<1>2. S \subseteq Nat
  BY NodeAssumption
<1>3. PICK x \in S : \A y \in S : ~ (<<y, x>> \in Less)
  <2> HIDE DEF Less
  <2> QED BY <1>1, <1>2, WFMin
<1>4. \A y \in S : x <= y
  <2> SUFFICES ASSUME NEW y \in S PROVE x <= y
    OBVIOUS
  <2>1. ~ (y < x)
    BY <1>2, <1>3
  <2> QED BY <1>2, <2>1
<1> QED BY <1>4 DEF Min

LEMMA PollNodeOK ==
  ASSUME IInv, PollOK(poll), PollNode
  PROVE  PollOK(poll')
<1> DEFINE n == Min(poll.todo)
<1>1. n \in poll.todo /\ n \in Node
  BY LeastLeft DEF PollOK, PollNode
<1>2. live[n].inc \in 0..MaxMade
  BY <1>1 DEF IInv, ServerOK, Nodes
<1> HIDE DEF n
<1>3. CASE Present(n)
  <2>1. poll' = [poll EXCEPT !.at = IF On("blocks") THEN "count" ELSE "sum", !.n = n, !.of = live[n].inc,
                             !.todo = @ \ {n}]
    BY <1>3 DEF PollNode, n
  <2>2. /\ DOMAIN poll' = DOMAIN poll /\ poll'.n = n /\ poll'.of = live[n].inc
        /\ poll'.todo = poll.todo \ {n} /\ poll'.result = poll.result
    BY <2>1 DEF PollOK
  <2> QED BY <1>1, <1>2, <2>2 DEF PollOK
<1>4. CASE ~Present(n)
  <2>1. poll' = [poll EXCEPT !.todo = @ \ {n}]
    BY <1>4 DEF PollNode, n
  <2> QED BY <2>1 DEF PollOK
<1> QED BY <1>3, <1>4

LEMMA CountBundlesOK ==
  ASSUME PollOK(poll), total \in [Node -> 0..MaxBundles], CountBundles
  PROVE  PollOK(poll')
<1> DEFINE st == [vals |-> poll.vals, dlv |-> Delivered(poll.n), of |-> poll.of,
                  ok |-> poll.ok /\ live[poll.n].inc = poll.of]
           st0 == [st EXCEPT !.dlv = 0, !.ok = FALSE]
<1>1. StatOK(st)
  BY DEF PollOK, CountBundles, StatOK, Delivered
<1>2. st0.dlv = 0 /\ st0.of = poll.of
  OBVIOUS
<1>3. StatOK(st0)
  BY <1>2, BoundAssumption DEF PollOK, StatOK
<1>4. poll' = Done(st) \/ poll' = Done(st0)
  BY DEF CountBundles
<1> HIDE DEF st, st0
<1> QED BY <1>1, <1>3, <1>4, DoneOK

LEMMA PollStepOK ==
  ASSUME IInv, PollOK(poll), total \in [Node -> 0..MaxBundles], PollStep
  PROVE  PollOK(poll')
<1>1. CASE PollStart
  <2>1. poll' = [Asleep EXCEPT !.at = "next", !.todo = {n \in Node : Present(n)}]
    BY <1>1 DEF PollStart
  <2>2. /\ DOMAIN poll' = DOMAIN Asleep /\ poll'.at = "next" /\ poll'.todo \subseteq Node
        /\ poll'.of = Asleep.of /\ poll'.result = Asleep.result
    BY <2>1 DEF Asleep
  <2> QED BY <2>2, NoStatsOK DEF PollOK
<1>2. CASE PollNode
  BY <1>2, PollNodeOK
<1>3. CASE Publish
  BY <1>3, NoStatsOK DEF Publish
<1>4. CASE CountBlocks \/ Trigger \/ ReadLines \/ CountAgain
  <2>1. CASE TimedOut
    BY <2>1, TimedOutOK
  <2>2. CASE ~TimedOut
    <3>1. /\ DOMAIN poll' = DOMAIN poll /\ poll'.todo = poll.todo /\ poll'.n = poll.n
          /\ poll'.of = poll.of /\ poll'.result = poll.result
          /\ poll.at \notin {"asleep", "next"}
      BY <1>4, <2>2 DEF CountBlocks, Trigger, ReadLines, CountAgain, PollOK
    <3> QED BY <3>1, PollMoves
  <2> QED BY <2>1, <2>2
<1>5. CASE CountBundles
  BY <1>5, CountBundlesOK
<1> QED BY <1>1, <1>2, <1>3, <1>4, <1>5 DEF PollStep

-----------------------------------------------------------------------------
(* Lines of a log *)

LogLine == [of : 0..MaxMade, no : 0..MaxBundles]

\* Of two lines of one container the first is the earlier.
Before(x, y) == x.of = y.of /\ x.of # 0 => x.no < y.no
Ordered(s) == \A i, j \in DOMAIN s : i < j => Before(s[i], s[j])
AllBefore(s, u) == \A i \in DOMAIN s, j \in DOMAIN u : Before(s[i], u[j])

\* What is shown, g, and the messages on their way, ms, in their order.
InOrder(g, ms) ==
  /\ Ordered(g)
  /\ \A i \in DOMAIN ms : Ordered(ms[i]) /\ AllBefore(g, ms[i])
  /\ \A i, j \in DOMAIN ms : i < j => AllBefore(ms[i], ms[j])

\* The lines of the container that is there, c, have been counted, unless the window
\* has been filled: then nothing is sent any more. No line is of a container to come.
Counted(s, last, c, m) ==
  \A i \in DOMAIN s : /\ s[i].of <= m
                      /\ s[i].of = c /\ c # 0 => s[i].no <= last \/ last >= Tail100

AllCounted(g, ms, last, c, m) ==
  Counted(g, last, c, m) /\ \A i \in DOMAIN ms : Counted(ms[i], last, c, m)

\* The first message is shown.
LEMMA ShowKeepsOrder ==
  ASSUME NEW g \in Seq(LogLine), NEW ms \in Seq(Seq(LogLine)), ms # <<>>, InOrder(g, ms)
  PROVE  InOrder(g \o Head(ms), Tail(ms))
<1> DEFINE h == Head(ms)
           t == Tail(ms)
<1>1. h = ms[1] /\ 1 \in DOMAIN ms /\ h \in Seq(LogLine)
  BY HeadTailProperties, EmptySeq
<1>2. \A i \in DOMAIN t : i \in Nat /\ i + 1 \in DOMAIN ms /\ t[i] = ms[i + 1] /\ 1 < i + 1
  BY HeadTailProperties
<1>3. \A i \in DOMAIN (g \o h) :
        \/ i \in DOMAIN g /\ (g \o h)[i] = g[i]
        \/ i > Len(g) /\ i - Len(g) \in DOMAIN h /\ (g \o h)[i] = h[i - Len(g)]
  BY <1>1
<1>4. Ordered(g) /\ Ordered(h) /\ AllBefore(g, h)
  BY <1>1 DEF InOrder
<1> HIDE DEF h, t
<1>5. Ordered(g \o h)
  <2> SUFFICES ASSUME NEW i \in DOMAIN (g \o h), NEW j \in DOMAIN (g \o h), i < j
               PROVE  Before((g \o h)[i], (g \o h)[j])
    BY DEF Ordered
  <2>1. i \in Int /\ j \in Int /\ Len(g) \in Int /\ DOMAIN g = 1..Len(g) /\ DOMAIN h = 1..Len(h)
    BY <1>1, g \o h \in Seq(LogLine)
  <2>2. CASE i \in DOMAIN g /\ (g \o h)[i] = g[i] /\ j \in DOMAIN g /\ (g \o h)[j] = g[j]
    BY <2>2, <1>4 DEF Ordered
  <2>3. CASE /\ i \in DOMAIN g /\ (g \o h)[i] = g[i]
             /\ j - Len(g) \in DOMAIN h /\ (g \o h)[j] = h[j - Len(g)]
    BY <2>3, <1>4 DEF AllBefore
  <2>4. CASE /\ i - Len(g) \in DOMAIN h /\ (g \o h)[i] = h[i - Len(g)]
             /\ j - Len(g) \in DOMAIN h /\ (g \o h)[j] = h[j - Len(g)]
    BY <2>1, <2>4, <1>4, i - Len(g) < j - Len(g) DEF Ordered
  <2>5. CASE i > Len(g) /\ j \in DOMAIN g
    BY <2>1, <2>5
  <2> QED BY <1>3, <2>2, <2>3, <2>4, <2>5
<1>6. \A i \in DOMAIN t : Ordered(t[i]) /\ AllBefore(g, t[i]) /\ AllBefore(h, t[i])
  BY <1>1, <1>2 DEF InOrder
<1>7. \A i \in DOMAIN t : AllBefore(g \o h, t[i])
  BY <1>3, <1>6 DEF AllBefore
<1>8. \A i, j \in DOMAIN t : i < j => AllBefore(t[i], t[j])
  <2> SUFFICES ASSUME NEW i \in DOMAIN t, NEW j \in DOMAIN t, i < j PROVE AllBefore(t[i], t[j])
    OBVIOUS
  <2>1. i + 1 < j + 1
    BY <1>2
  <2> QED BY <1>2, <2>1 DEF InOrder
<1> QED BY <1>5, <1>6, <1>7, <1>8 DEF InOrder, h, t

\* A message is sent whose lines come after all that were sent.
LEMMA SendKeepsOrder ==
  ASSUME NEW g \in Seq(LogLine), NEW ms \in Seq(Seq(LogLine)), NEW u \in Seq(LogLine), InOrder(g, ms),
         Ordered(u), AllBefore(g, u), \A i \in DOMAIN ms : AllBefore(ms[i], u)
  PROVE  InOrder(g, Append(ms, u))
<1> DEFINE s == Append(ms, u)
<1>1. \A i \in DOMAIN s : (i \in DOMAIN ms /\ s[i] = ms[i]) \/ (i = Len(ms) + 1 /\ s[i] = u)
  BY AppendProperties
<1>2. \A i \in DOMAIN ms : i \in Nat /\ i < Len(ms) + 1
  OBVIOUS
<1>3. Len(ms) + 1 \in Nat
  BY LenProperties
<1> HIDE DEF s
<1>4. \A i \in DOMAIN s : Ordered(s[i]) /\ AllBefore(g, s[i])
  BY <1>1 DEF InOrder
<1>5. \A i, j \in DOMAIN s : i < j => AllBefore(s[i], s[j])
  <2> SUFFICES ASSUME NEW i \in DOMAIN s, NEW j \in DOMAIN s, i < j PROVE AllBefore(s[i], s[j])
    OBVIOUS
  <2>1. CASE i \in DOMAIN ms /\ s[i] = ms[i] /\ j \in DOMAIN ms /\ s[j] = ms[j]
    BY <2>1 DEF InOrder
  <2>2. CASE i \in DOMAIN ms /\ s[i] = ms[i] /\ s[j] = u
    BY <2>2
  <2>3. CASE i = Len(ms) + 1 /\ j \in DOMAIN ms
    BY <1>2, <1>3, <2>3
  <2>4. CASE i = Len(ms) + 1 /\ j = Len(ms) + 1
    BY <1>3, <2>4
  <2> QED BY <1>1, <2>1, <2>2, <2>3, <2>4
<1> QED BY <1>4, <1>5 DEF InOrder, s

\* What has been counted stays so when a message is shown.
LEMMA ShowKeepsCount ==
  ASSUME NEW g \in Seq(LogLine), NEW ms \in Seq(Seq(LogLine)), ms # <<>>, NEW last, NEW c, NEW m,
         AllCounted(g, ms, last, c, m)
  PROVE  AllCounted(g \o Head(ms), Tail(ms), last, c, m)
<1> DEFINE h == Head(ms)
           t == Tail(ms)
<1>1. h = ms[1] /\ 1 \in DOMAIN ms /\ h \in Seq(LogLine)
  BY HeadTailProperties, EmptySeq
<1>2. \A i \in DOMAIN t : i + 1 \in DOMAIN ms /\ t[i] = ms[i + 1]
  BY HeadTailProperties
<1>3. \A i \in DOMAIN (g \o h) :
        \/ i \in DOMAIN g /\ (g \o h)[i] = g[i]
        \/ i - Len(g) \in DOMAIN h /\ (g \o h)[i] = h[i - Len(g)]
  BY <1>1
<1>4. Counted(g, last, c, m) /\ Counted(h, last, c, m)
  BY <1>1 DEF AllCounted
<1> HIDE DEF h, t
<1>5. Counted(g \o h, last, c, m)
  BY <1>3, <1>4 DEF Counted
<1>6. \A i \in DOMAIN t : Counted(t[i], last, c, m)
  BY <1>2 DEF AllCounted
<1> QED BY <1>5, <1>6 DEF AllCounted, h, t

LEMMA LineNumbers ==
  ASSUME NEW s \in Seq(LogLine), NEW i \in DOMAIN s
  PROVE  s[i].of \in Int /\ s[i].no \in Int
<1>1. s[i] \in LogLine
  BY ElementOfSeq
<1> QED BY <1>1 DEF LogLine

\* More has been counted, or another container is there, or none.
LEMMA CountGrows ==
  ASSUME NEW s \in Seq(LogLine), NEW last \in Nat, NEW last2 \in Nat, NEW c \in Nat, NEW c2 \in Nat,
         NEW m \in Nat, NEW m2 \in Nat, Counted(s, last, c, m),
         last2 >= last, m2 >= m, c2 \in {0, c} \/ c2 > m
  PROVE  Counted(s, last2, c2, m2)
<1>1. Tail100 \in Nat
  BY TailAssumption
<1>2. ASSUME NEW i \in DOMAIN s
      PROVE  /\ s[i].of <= m2
             /\ s[i].of = c2 /\ c2 # 0 => s[i].no <= last2 \/ last2 >= Tail100
  <2>1. s[i].of \in Int /\ s[i].no \in Int
    BY <1>2, LineNumbers
  <2>2. s[i].of <= m /\ (s[i].of = c /\ c # 0 => s[i].no <= last \/ last >= Tail100)
    BY <1>2 DEF Counted
  <2> QED BY <1>1, <2>1, <2>2
<1> QED BY <1>2 DEF Counted

LEMMA AllCountGrows ==
  ASSUME NEW g \in Seq(LogLine), NEW ms \in Seq(Seq(LogLine)),
         NEW last \in Nat, NEW last2 \in Nat, NEW c \in Nat, NEW c2 \in Nat, NEW m \in Nat, NEW m2 \in Nat,
         AllCounted(g, ms, last, c, m), last2 >= last, m2 >= m, c2 \in {0, c} \/ c2 > m
  PROVE  AllCounted(g, ms, last2, c2, m2)
<1>1. \A i \in DOMAIN ms : ms[i] \in Seq(LogLine)
  BY ElementOfSeq
<1> QED BY <1>1, CountGrows DEF AllCounted

\* A turn sends lines that follow all that was counted: c is the container that is
\* there, t the length of its log, o how much of it lies before the window.
LEMMA TurnCounts ==
  ASSUME NEW s \in Seq(LogLine), NEW u \in Seq(LogLine), NEW last \in Nat, NEW len \in Nat,
         NEW c \in Nat, NEW m \in Nat, NEW o \in Nat,
         Counted(s, last, c, m), len > last, len <= Tail100, c <= m, o = 0 \/ len = Tail100,
         \A i \in DOMAIN u : u[i].of = c /\ u[i].no = last + i + o /\ last + i <= len
  PROVE  AllBefore(s, u) /\ Ordered(u) /\ Counted(u, len, c, m)
<1>1. Tail100 \in Nat
  BY TailAssumption
<1>2. \A i \in DOMAIN s : s[i].of \in Int /\ s[i].no \in Int
  BY LineNumbers
<1>3. \A i \in DOMAIN u : i \in Nat /\ i > 0
  OBVIOUS
<1>4. AllBefore(s, u)
  <2> SUFFICES ASSUME NEW i \in DOMAIN s, NEW j \in DOMAIN u, s[i].of = c, c # 0
               PROVE  s[i].no < u[j].no
    BY DEF AllBefore, Before
  <2>1. s[i].no <= last
    BY <1>1 DEF Counted
  <2> QED BY <1>2, <1>3, <2>1
<1>5. Ordered(u)
  BY <1>3 DEF Ordered, Before
<1>6. Counted(u, len, c, m)
  BY <1>1, <1>3 DEF Counted
<1> QED BY <1>4, <1>5, <1>6

LEMMA MinOfTwo ==
  ASSUME NEW a \in Nat, NEW b \in Nat
  PROVE  Min({a, b}) = IF a <= b THEN a ELSE b
BY DEF Min

-----------------------------------------------------------------------------
(* Terminals *)

Lines == Seq(LogLine)

Terminal == [open : BOOLEAN, got : Lines]
Session == [up : BOOLEAN, last : 0..Tail100, clean : BOOLEAN, of : 0..MaxMade]

TerminalTypes ==
  /\ total \in [Node -> 0..MaxBundles]
  /\ term \in [Node -> Terminal] /\ session \in [Node -> Session] /\ logs \in [Node -> Seq(Lines)]

\* A terminal is open for each node that is shown; it alone has a session, and a
\* session alone has messages.
TerminalOpen(n) ==
  /\ term[n].open <=> (On("terminal") /\ Shown(n))
  /\ session[n].up => term[n].open
  /\ session[n].up \/ logs[n] = <<>>

TerminalLines(n) ==
  /\ InOrder(term[n].got, logs[n])
  /\ session[n].up => AllCounted(term[n].got, logs[n], session[n].last, live[n].inc, made)

TermInv == TerminalTypes /\ \A n \in Node : TerminalOpen(n) /\ TerminalLines(n)

LEMMA NothingSent ==
  /\ <<>> \in Lines /\ <<>> \in Seq(Lines)
  /\ \A g : Ordered(g) => InOrder(g, <<>>)
  /\ Ordered(<<>>) /\ InOrder(<<>>, <<>>)
  /\ \A last, c, m : AllCounted(<<>>, <<>>, last, c, m)
<1>1. DOMAIN <<>> = {} /\ <<>> \in Lines /\ <<>> \in Seq(Lines)
  BY EmptySeq DEF Lines
<1>2. \A g : Ordered(g) => InOrder(g, <<>>)
  BY <1>1 DEF InOrder
<1>3. Ordered(<<>>)
  BY <1>1 DEF Ordered
<1>4. \A last, c, m : AllCounted(<<>>, <<>>, last, c, m)
  BY <1>1 DEF AllCounted, Counted
<1> QED BY <1>1, <1>2, <1>3, <1>4

LEMMA Connected ==
  ASSUME NEW u, NEW l, NEW c, NEW o, NEW b
  PROVE  [[up |-> u, last |-> l, clean |-> c, of |-> o] EXCEPT !.up = b] =
           [up |-> b, last |-> l, clean |-> c, of |-> o]
OBVIOUS

LEMMA Opened ==
  ASSUME NEW t \in Terminal, NEW b
  PROVE  [t EXCEPT !.open = b] = [open |-> b, got |-> t.got]
BY DEF Terminal

LEMMA Printed ==
  ASSUME NEW t \in Terminal, NEW g
  PROVE  [t EXCEPT !.got = g] = [open |-> t.open, got |-> g]
BY DEF Terminal

LEMMA ClosedTyped ==
  /\ Closed \in Terminal /\ NoSession \in Session
  /\ [NoSession EXCEPT !.up = TRUE] \in Session
  /\ [NoSession EXCEPT !.up = TRUE] = [up |-> TRUE, last |-> 0, clean |-> TRUE, of |-> 0]
<1>1. Closed \in Terminal
  BY NothingSent DEF Closed, Terminal
<1>2. 0 \in 0..Tail100 /\ 0 \in 0..MaxMade
  BY TailAssumption, BoundAssumption
<1>3. NoSession \in Session
  BY <1>2 DEF NoSession, Session
<1>4. [NoSession EXCEPT !.up = TRUE] = [up |-> TRUE, last |-> 0, clean |-> TRUE, of |-> 0]
  BY Connected DEF NoSession
<1>5. [up |-> TRUE, last |-> 0, clean |-> TRUE, of |-> 0] \in Session
  BY <1>2 DEF Session
<1> QED BY <1>1, <1>3, <1>4, <1>5

\* Only the server moves: the terminals stay as they are. A node that is made anew is
\* a container to come.
LEMMA ServerKeepsTerminals ==
  ASSUME IInv, IInv', TermInv, UNCHANGED <<term, session, logs, shown, scene>>,
         total' \in [Node -> 0..MaxBundles], made' >= made,
         \A n \in Node : live'[n].inc \in {0, live[n].inc} \/ live'[n].inc > made
  PROVE  TermInv'
<1>1. TerminalTypes'
  BY DEF TermInv, TerminalTypes
<1>2. ASSUME NEW n \in Node
      PROVE  TerminalOpen(n)' /\ TerminalLines(n)'
  <2>1. TerminalOpen(n)'
    BY <1>2 DEF TermInv, TerminalOpen, On, Shown
  <2>2. live[n].inc \in Nat /\ live'[n].inc \in Nat /\ made \in Nat /\ made' \in Nat
    BY <1>2 DEF IInv, ServerOK, Nodes
  <2>5. session[n].last \in Nat /\ term[n].got \in Seq(LogLine) /\ logs[n] \in Seq(Seq(LogLine))
    BY <1>2 DEF TermInv, TerminalTypes, Terminal, Session, Lines
  <2>6. InOrder(term[n].got, logs[n])
    BY <1>2 DEF TermInv, TerminalLines
  <2>7. term'[n] = term[n] /\ session'[n] = session[n] /\ logs'[n] = logs[n]
    OBVIOUS
  <2>3. CASE session[n].up
    <3>1. AllCounted(term[n].got, logs[n], session[n].last, live[n].inc, made)
      BY <1>2, <2>3 DEF TermInv, TerminalLines
    <3> DEFINE g == term[n].got
               ms == logs[n]
               last == session[n].last
               c == live[n].inc
               c2 == live'[n].inc
    <3>2. c2 \in {0, c} \/ c2 > made
      BY <1>2
    <3>3. last >= last
      BY <2>5
    <3> HIDE DEF g, ms, last, c, c2
    <3>4. /\ g \in Seq(LogLine) /\ ms \in Seq(Seq(LogLine)) /\ last \in Nat /\ c \in Nat /\ c2 \in Nat
          /\ AllCounted(g, ms, last, c, made)
      BY <2>2, <2>5, <3>1 DEF g, ms, last, c, c2
    <3>5. AllCounted(g, ms, last, c2, made')
      BY <2>2, <3>2, <3>3, <3>4, AllCountGrows
    <3>6. AllCounted(term'[n].got, logs'[n], session'[n].last, live'[n].inc, made')
      BY <2>7, <3>5 DEF g, ms, last, c2
    <3>7. InOrder(term'[n].got, logs'[n])
      BY <2>6, <2>7
    <3> QED BY <2>1, <3>6, <3>7 DEF TerminalLines
  <2>4. CASE ~session[n].up
    <3>1. InOrder(term'[n].got, logs'[n])
      BY <2>6, <2>7
    <3>2. ~session'[n].up
      BY <2>4, <2>7
    <3> QED BY <2>1, <3>1, <3>2 DEF TerminalLines
  <2> QED BY <2>1, <2>3, <2>4
<1> QED BY <1>1, <1>2 DEF TermInv

\* A topology is shown, with its terminals.
LEMMA ShowKeepsTerminals ==
  ASSUME TermInv, NEW t, Show(t), UNCHANGED statsVars
  PROVE  TermInv'
<1> DEFINE there(n) == On("terminal") /\ t.nodes[n].st # "absent"
<1>1. /\ term' = [n \in Node |-> IF there(n) THEN [term[n] EXCEPT !.open = TRUE] ELSE Closed]
      /\ session' = [n \in Node |-> IF there(n) THEN session[n] ELSE NoSession]
      /\ logs' = [n \in Node |-> IF there(n) THEN logs[n] ELSE <<>>]
      /\ shown' = t /\ UNCHANGED <<scene, total, live, made>>
  BY DEF Show, SyncTerminals, statsVars
<1>2. \A n \in Node : [term[n] EXCEPT !.open = TRUE] = [open |-> TRUE, got |-> term[n].got]
  <2>1. \A n \in Node : term[n] \in Terminal
    BY DEF TermInv, TerminalTypes
  <2> QED BY <2>1, Opened
<1>3. TerminalTypes'
  BY <1>1, <1>2, ClosedTyped, NothingSent DEF TermInv, TerminalTypes, Terminal
<1>4. ASSUME NEW n \in Node
      PROVE  TerminalOpen(n)' /\ TerminalLines(n)'
  <2>1. (On("terminal") /\ Shown(n))' <=> there(n)
    BY <1>1 DEF On, Shown
  <2> HIDE DEF there
  <2>2. CASE there(n)
    <3>1. term'[n].open = TRUE /\ term'[n].got = term[n].got /\ session'[n] = session[n] /\ logs'[n] = logs[n]
      BY <1>1, <1>2, <1>4, <2>2
    <3> QED BY <1>1, <1>4, <2>1, <2>2, <3>1 DEF TermInv, TerminalOpen, TerminalLines
  <2>3. CASE ~there(n)
    <3>1. term'[n] = Closed /\ session'[n] = NoSession /\ logs'[n] = <<>>
      BY <1>1, <1>4, <2>3
    <3> QED BY <2>1, <2>3, <3>1, NothingSent DEF TerminalOpen, TerminalLines, Closed, NoSession
  <2> QED BY <2>2, <2>3
<1> QED BY <1>3, <1>4 DEF TermInv

\* One terminal, its session and its messages change; nothing else does.
LEMMA OneTerminal ==
  ASSUME TermInv, NEW n \in Node, UNCHANGED <<statsVars, shown>>,
         NEW t \in Terminal, NEW s \in Session, NEW ms \in Seq(Lines),
         term' = [term EXCEPT ![n] = t], session' = [session EXCEPT ![n] = s],
         logs' = [logs EXCEPT ![n] = ms],
         t.open = term[n].open, s.up => t.open, s.up \/ ms = <<>>,
         InOrder(t.got, ms), s.up => AllCounted(t.got, ms, s.last, live[n].inc, made)
  PROVE  TermInv'
<1>1. TerminalTypes'
  BY DEF TermInv, TerminalTypes, statsVars
<1>2. UNCHANGED <<scene, live, made, shown>>
  BY DEF statsVars
<1>3. ASSUME NEW m \in Node
      PROVE  TerminalOpen(m)' /\ TerminalLines(m)'
  <2>1. TerminalOpen(m) /\ TerminalLines(m)
    BY <1>3 DEF TermInv
  <2>2. CASE m = n
    <3>1. term'[m] = t /\ session'[m] = s /\ logs'[m] = ms
      BY <1>3, <2>2 DEF TermInv, TerminalTypes
    <3>2. t.open <=> (On("terminal") /\ Shown(m))
      BY <2>1, <2>2 DEF TerminalOpen
    <3>3. TerminalOpen(m)'
      BY <1>2, <3>1, <3>2 DEF TerminalOpen, On, Shown
    <3>4. TerminalLines(m)'
      BY <1>2, <2>2, <3>1 DEF TerminalLines
    <3> QED BY <3>3, <3>4
  <2>3. CASE m # n
    <3>1. term'[m] = term[m] /\ session'[m] = session[m] /\ logs'[m] = logs[m]
      BY <1>3, <2>3 DEF TermInv, TerminalTypes
    <3>2. TerminalOpen(m)'
      BY <1>2, <2>1, <3>1 DEF TerminalOpen, On, Shown
    <3>3. TerminalLines(m)'
      BY <1>2, <2>1, <3>1 DEF TerminalLines
    <3> QED BY <3>2, <3>3
  <2> QED BY <2>2, <2>3
<1> QED BY <1>1, <1>3 DEF TermInv

LEMMA ConnectKeepsTerminals ==
  ASSUME TermInv, NEW n \in Node, ConnectLogs(n)
  PROVE  TermInv'
<1> DEFINE t == [open |-> TRUE, got |-> <<>>]
           s == [NoSession EXCEPT !.up = TRUE]
<1>1. term[n] \in Terminal /\ logs \in [Node -> Seq(Lines)] /\ TerminalOpen(n)
  BY DEF TermInv, TerminalTypes
<1>2. term[n].open = TRUE /\ ~session[n].up
  BY <1>1 DEF ConnectLogs, Terminal
<1>3. logs[n] = <<>>
  BY <1>1, <1>2 DEF TerminalOpen
<1>4. [term[n] EXCEPT !.got = <<>>] = t
  <2>1. [term[n] EXCEPT !.got = <<>>] = [open |-> term[n].open, got |-> <<>>]
    BY <1>1, Printed
  <2> QED BY <1>2, <2>1
<1>5. term' = [term EXCEPT ![n] = t]
  BY <1>4 DEF ConnectLogs
<1>6. session' = [session EXCEPT ![n] = s] /\ UNCHANGED <<statsVars, shown>>
  BY DEF ConnectLogs, topoVars
<1>7. logs' = [logs EXCEPT ![n] = <<>>]
  BY <1>1, <1>3 DEF ConnectLogs
<1>8. t \in Terminal /\ t.open = TRUE /\ t.got = <<>>
  BY NothingSent DEF Terminal
<1>9. s \in Session /\ s.up = TRUE /\ s.last = 0
  BY ClosedTyped
<1> HIDE DEF t, s
<1>10. t.open = term[n].open /\ (s.up => t.open) /\ (s.up \/ <<>> = <<>>)
  BY <1>2, <1>8
<1>11. InOrder(t.got, <<>>) /\ AllCounted(t.got, <<>>, s.last, live[n].inc, made) /\ <<>> \in Seq(Lines)
  BY <1>8, NothingSent
<1> QED BY <1>5, <1>6, <1>7, <1>8, <1>9, <1>10, <1>11, OneTerminal

LEMMA DropKeepsTerminals ==
  ASSUME TermInv, NEW n \in Node, DropLogs(n)
  PROVE  TermInv'
<1>1. term \in [Node -> Terminal] /\ TerminalOpen(n) /\ InOrder(term[n].got, logs[n])
  BY DEF TermInv, TerminalTypes, TerminalLines
<1>2. term' = [term EXCEPT ![n] = term[n]] /\ term[n] \in Terminal
  BY <1>1 DEF DropLogs
<1>3. session' = [session EXCEPT ![n] = NoSession] /\ logs' = [logs EXCEPT ![n] = <<>>]
  BY DEF DropLogs
<1>4. InOrder(term[n].got, <<>>)
  BY <1>1, NothingSent DEF InOrder
<1>5. UNCHANGED <<statsVars, shown>>
  BY DEF DropLogs, topoVars
<1>6. NoSession.up = FALSE
  BY DEF NoSession
<1> QED BY <1>2, <1>3, <1>4, <1>5, <1>6, ClosedTyped, NothingSent, OneTerminal

LEMMA ShownLinesKeepTerminals ==
  ASSUME TermInv, NEW n \in Node, ShowLines(n)
  PROVE  TermInv'
<1> DEFINE g == term[n].got \o Head(logs[n])
           t == [open |-> term[n].open, got |-> g]
           ms == Tail(logs[n])
<1>1. /\ term \in [Node -> Terminal] /\ session \in [Node -> Session] /\ logs \in [Node -> Seq(Lines)]
      /\ TerminalOpen(n) /\ TerminalLines(n)
  BY DEF TermInv, TerminalTypes
<1>2. logs[n] # <<>> /\ session[n].up /\ session[n] \in Session
  BY <1>1 DEF TerminalOpen, ShowLines
<1>3. term[n].got \in Lines /\ logs[n] \in Seq(Lines) /\ term[n].open \in BOOLEAN
  BY <1>1 DEF Terminal
<1>4. g \in Lines /\ ms \in Seq(Lines)
  BY <1>2, <1>3, HeadTailProperties DEF Lines
<1>5. [term[n] EXCEPT !.got = @ \o Head(logs[n])] = t
  <2>1. term[n] \in Terminal
    BY <1>1
  <2> QED BY <2>1, Printed
<1>6. term' = [term EXCEPT ![n] = t] /\ logs' = [logs EXCEPT ![n] = ms]
  BY <1>5 DEF ShowLines
<1>7. session' = [session EXCEPT ![n] = session[n]] /\ UNCHANGED <<statsVars, shown>>
  BY <1>1 DEF ShowLines, topoVars
<1>8. InOrder(g, ms)
  BY <1>1, <1>2, <1>3, ShowKeepsOrder DEF TerminalLines, Lines
<1>9. AllCounted(g, ms, session[n].last, live[n].inc, made)
  BY <1>1, <1>2, <1>3, ShowKeepsCount DEF TerminalLines, Lines
<1>10. t \in Terminal /\ t.open = term[n].open /\ t.got = g
  BY <1>3, <1>4 DEF Terminal
<1>11. session[n].up => t.open
  BY <1>1, <1>10 DEF TerminalOpen
<1> HIDE DEF t, g, ms
<1> QED BY <1>2, <1>4, <1>6, <1>7, <1>8, <1>9, <1>10, <1>11, OneTerminal

\* What docker exec prints: the window's lines, the last of the log.
LEMMA OutputIs ==
  ASSUME IInv, TermInv, NEW n \in Node
  PROVE  /\ Output(n) \in Seq(LogLine) /\ Len(Output(n)) <= Tail100
         /\ Readable(n) =>
              \E o \in Nat : /\ o = 0 \/ Len(Output(n)) = Tail100
                             /\ \A k \in DOMAIN Output(n) : Output(n)[k] = [of |-> live[n].inc, no |-> k + o]
         /\ ~Readable(n) => Output(n) = <<[of |-> 0, no |-> 0]>>
<1> DEFINE t == total[n]
           w == Min({t, Tail100})
<1>1. t \in Nat /\ t <= MaxBundles /\ Tail100 \in Nat /\ Tail100 > 0
  BY TailAssumption, BoundAssumption DEF TermInv, TerminalTypes
<1>2. w \in Nat /\ w <= t /\ w <= Tail100 /\ (w = t \/ w = Tail100)
  BY <1>1, MinOfTwo
<1>3. live[n].inc \in 0..MaxMade
  BY DEF IInv, ServerOK, Nodes
<1>4. ASSUME Readable(n)
      PROVE  Output(n) = [k \in 1..w |-> [of |-> live[n].inc, no |-> k + t - w]]
  BY <1>4 DEF Output, Line
<1>5. ASSUME ~Readable(n)
      PROVE  Output(n) = <<[of |-> 0, no |-> 0]>>
  BY <1>5 DEF Output, Complaint
<1> HIDE DEF t, w
<1>6. CASE Readable(n)
  <2>1. \A k \in 1..w : k + t - w \in 0..MaxBundles /\ k + t - w = k + (t - w)
    BY <1>1, <1>2, BoundAssumption
  <2>2. \A k \in 1..w : [of |-> live[n].inc, no |-> k + t - w] \in LogLine
    BY <1>3, <2>1 DEF LogLine
  <2>3. Output(n) \in Seq(LogLine) /\ Len(Output(n)) = w /\ DOMAIN Output(n) = 1..w
    BY <1>2, <1>4, <1>6, <2>2
  <2>4. t - w \in Nat /\ (t - w = 0 \/ w = Tail100)
    BY <1>1, <1>2
  <2>5. \A k \in DOMAIN Output(n) : Output(n)[k] = [of |-> live[n].inc, no |-> k + (t - w)]
    BY <1>4, <1>6, <2>1, <2>3
  <2> QED BY <1>2, <1>6, <2>3, <2>4, <2>5
<1>7. CASE ~Readable(n)
  <2>1. [of |-> 0, no |-> 0] \in LogLine
    BY BoundAssumption DEF LogLine
  <2> DEFINE x == [of |-> 0, no |-> 0]
  <2> HIDE DEF x
  <2>3. <<x>> \in Seq(LogLine) /\ Len(<<x>>) = 1
    BY <2>1 DEF x
  <2>4. Output(n) = <<x>>
    BY <1>5, <1>7 DEF x
  <2>2. Output(n) \in Seq(LogLine) /\ Len(Output(n)) <= Tail100
    BY <1>1, <2>3, <2>4
  <2> QED BY <1>5, <1>7, <2>2
<1> QED BY <1>6, <1>7

LEMMA NewLinesAre ==
  ASSUME NEW s \in Seq(LogLine), NEW last \in Nat, Len(s) > last
  PROVE  /\ NewLines(last, s) \in Seq(LogLine)
         /\ \A i \in DOMAIN NewLines(last, s) : /\ last + i \in DOMAIN s /\ last + i <= Len(s)
                                                /\ NewLines(last, s)[i] = s[last + i]
<1> DEFINE u == NewLines(last, s)
<1>1. Len(s) \in Nat /\ DOMAIN s = 1..Len(s)
  BY LenProperties
<1>2. \A i \in (last + 1)..Len(s) : s[i] \in LogLine
  BY <1>1, ElementOfSeq
<1>3. /\ u \in Seq(LogLine) /\ Len(u) = Len(s) - last
      /\ \A i \in 1..(Len(s) - last) : u[i] = s[last + i]
  BY <1>1, <1>2, SubSeqProperties DEF NewLines
<1>4. DOMAIN u = 1..(Len(s) - last)
  BY <1>3, LenProperties
<1> HIDE DEF u
<1>5. \A i \in DOMAIN u : last + i \in DOMAIN s /\ last + i <= Len(s)
  BY <1>1, <1>4
<1> QED BY <1>3, <1>4, <1>5 DEF u

LEMMA ReadKeepsTerminals ==
  ASSUME IInv, TermInv, NEW n \in Node, ReadLogs(n)
  PROVE  TermInv'
<1> DEFINE lines == Output(n)
           last == session[n].last
           u == NewLines(last, lines)
           len == Len(lines)
           c == live[n].inc
           clean == session[n].clean /\ (Readable(n) /\ session[n].of \in {0, live[n].inc})
           s == [up |-> TRUE, last |-> len, clean |-> clean, of |-> c]
           g == term[n].got
           ms == logs[n]
<1>1. /\ term \in [Node -> Terminal] /\ session \in [Node -> Session] /\ logs \in [Node -> Seq(Lines)]
      /\ TerminalOpen(n) /\ TerminalLines(n)
  BY DEF TermInv, TerminalTypes
<1>2. session[n].up /\ len > last
  BY DEF ReadLogs
<1>3. c \in 0..MaxMade /\ c \in Nat /\ c <= made /\ made \in Nat
  BY DEF IInv, ServerOK, Nodes
<1>4. g \in Seq(LogLine) /\ ms \in Seq(Seq(LogLine)) /\ last \in Nat /\ session[n] \in Session
  BY <1>1 DEF Terminal, Session, Lines
<1>5. lines \in Seq(LogLine) /\ len <= Tail100 /\ len \in Nat /\ len \in 0..Tail100
  BY OutputIs, LenProperties, TailAssumption
<1>6. u \in Seq(LogLine)
  BY <1>2, <1>4, <1>5, NewLinesAre
<1>7. session' = [session EXCEPT ![n] = s]
  BY DEF ReadLogs, SeenAfter
<1>8. logs' = [logs EXCEPT ![n] = Append(ms, u)] /\ term' = [term EXCEPT ![n] = term[n]]
  BY <1>1 DEF ReadLogs
<1>9. UNCHANGED <<statsVars, shown>>
  BY DEF ReadLogs, topoVars
<1>10. s \in Session /\ s.up = TRUE /\ s.last = len
  BY <1>3, <1>5 DEF Session
<1>11. InOrder(g, ms) /\ AllCounted(g, ms, last, c, made)
  BY <1>1, <1>2 DEF TerminalLines
<1>12. \A x \in {g} \union {ms[i] : i \in DOMAIN ms} : x \in Seq(LogLine) /\ Counted(x, last, c, made)
  BY <1>4, <1>11, ElementOfSeq DEF AllCounted
<1>13. /\ \A x \in {g} \union {ms[i] : i \in DOMAIN ms} : AllBefore(x, u) /\ Counted(x, len, c, made)
       /\ Ordered(u) /\ Counted(u, len, c, made)
  <2> HIDE DEF lines, last, u, len, c, g, ms
  <2>1. \A x \in {g} \union {ms[i] : i \in DOMAIN ms} : Counted(x, len, c, made)
    <3>1. len \in Nat /\ len >= last /\ made >= made /\ c \in {0, c}
      BY <1>2, <1>3, <1>4, <1>5 DEF len, last
    <3> QED BY <1>3, <1>4, <1>12, <3>1, CountGrows
  <2>2. \A i \in DOMAIN u : last + i \in DOMAIN lines /\ last + i <= len /\ u[i] = lines[last + i]
    BY <1>2, <1>4, <1>5, NewLinesAre DEF u, len
  <2>3. CASE Readable(n)
    <3>1. PICK o \in Nat : /\ o = 0 \/ len = Tail100
                           /\ \A k \in DOMAIN lines : lines[k] = [of |-> c, no |-> k + o]
      BY <2>3, OutputIs DEF lines, len, c
    <3>2. \A i \in DOMAIN u : u[i].of = c /\ u[i].no = last + i + o /\ last + i <= len
      BY <2>2, <3>1
    <3>3. \A x \in {g} \union {ms[i] : i \in DOMAIN ms} : AllBefore(x, u) /\ Ordered(u) /\ Counted(u, len, c, made)
      BY <1>2, <1>3, <1>4, <1>5, <1>6, <1>12, <3>1, <3>2, TurnCounts
    <3> QED BY <2>1, <3>3
  <2>4. CASE ~Readable(n)
    <3>1. \A i \in DOMAIN u : u[i].of = 0
      <4>1. lines = <<[of |-> 0, no |-> 0]>>
        BY <2>4, OutputIs DEF lines
      <4>2. \A k \in DOMAIN lines : lines[k].of = 0
        BY <4>1
      <4> QED BY <2>2, <4>2
    <3>2. \A x \in {g} \union {ms[i] : i \in DOMAIN ms} : AllBefore(x, u)
      BY <3>1 DEF AllBefore, Before
    <3>3. Ordered(u) /\ Counted(u, len, c, made)
      BY <1>3, <3>1 DEF Ordered, Before, Counted
    <3> QED BY <2>1, <3>2, <3>3
  <2> QED BY <2>3, <2>4
<1> HIDE DEF lines, last, u, len, c, clean, s, g, ms
<1>14. InOrder(g, Append(ms, u))
  BY <1>4, <1>6, <1>11, <1>13, SendKeepsOrder
<1>15. AllCounted(g, Append(ms, u), len, c, made)
  <2>1. \A i \in DOMAIN Append(ms, u) : Append(ms, u)[i] = u \/ (i \in DOMAIN ms /\ Append(ms, u)[i] = ms[i])
    BY <1>4, <1>6, AppendProperties
  <2> QED BY <1>13, <2>1 DEF AllCounted
<1>16. Append(ms, u) \in Seq(Lines) /\ term[n] \in Terminal /\ term[n].open
  BY <1>1, <1>2, <1>4, <1>6, AppendProperties DEF Lines, TerminalOpen
<1> QED BY <1>7, <1>8, <1>9, <1>10, <1>14, <1>15, <1>16, OneTerminal DEF g, c

LEMMA RebootKeepsTerminals ==
  ASSUME IInv, IInv', TermInv, Reboot
  PROVE  TermInv'
<1>1. UNCHANGED <<scene, total, made, shown, term>>
  BY DEF Reboot
<1>2. session' = [n \in Node |-> NoSession] /\ logs' = [n \in Node |-> <<>>]
  BY DEF Reboot
<1>3. TerminalTypes'
  BY <1>1, <1>2, ClosedTyped, NothingSent DEF TermInv, TerminalTypes
<1>4. ASSUME NEW n \in Node
      PROVE  TerminalOpen(n)' /\ TerminalLines(n)'
  <2>1. session'[n].up = FALSE /\ logs'[n] = <<>> /\ term'[n] = term[n]
    BY <1>1, <1>2, <1>4 DEF NoSession
  <2>2. TerminalOpen(n) /\ InOrder(term[n].got, logs[n])
    BY <1>4 DEF TermInv, TerminalLines
  <2>3. InOrder(term[n].got, <<>>)
    BY <2>2, NothingSent DEF InOrder
  <2>4. TerminalOpen(n)'
    BY <1>1, <2>1, <2>2 DEF TerminalOpen, On, Shown
  <2>5. TerminalLines(n)'
    BY <2>1, <2>3 DEF TerminalLines
  <2> QED BY <2>4, <2>5
<1> QED BY <1>3, <1>4 DEF TermInv

LEMMA CountTyped ==
  ASSUME total \in [Node -> 0..MaxBundles], NEW n \in Node,
         \/ ReserveNode(n) \/ CommitNode(n) \/ UnreserveNode(n) \/ DeleteNode(n)
         \/ Bundle(n) \/ PrintLine(n)
  PROVE  total' \in [Node -> 0..MaxBundles]
<1>1. MaxBundles \in Nat \ {0}
  BY BoundAssumption
<1>2. CASE ReserveNode(n) \/ DeleteNode(n)
  <2>1. total' = [total EXCEPT ![n] = 0]
    BY <1>2 DEF ReserveNode, DeleteNode, NewIon
  <2> QED BY <1>1, <2>1
<1>3. CASE Bundle(n)
  <2>1. total' = [total EXCEPT ![n] = @ + 1] /\ (total[n] < MaxBundles \/ total[n] = 0)
    BY <1>3 DEF Bundle
  <2>2. total[n] + 1 \in 0..MaxBundles
    BY <1>1, <2>1
  <2> QED BY <2>1, <2>2
<1>4. CASE CommitNode(n) \/ UnreserveNode(n) \/ PrintLine(n)
  BY <1>4 DEF CommitNode, UnreserveNode, PrintLine, nodeVars
<1> QED BY <1>2, <1>3, <1>4

\* The poller and ION count, and write no line of a terminal.
LEMMA NodesKeepTerminals ==
  ASSUME IInv, IInv', TermInv, PollStep \/ NodeStep \/ (\E n \in Node : PrintLine(n)), UNCHANGED viewVars
  PROVE  TermInv'
<1>1. total \in [Node -> 0..MaxBundles] /\ MaxBundles \in Nat \ {0}
  BY BoundAssumption DEF TermInv, TerminalTypes
<1>2. live \in Nodes /\ made \in Nat
  BY DEF IInv, ServerOK
<1>3. UNCHANGED <<term, session, logs, shown>>
  BY DEF viewVars, topoVars, termVars
<1>4. CASE PollStep \/ (\E n \in Node : PrintLine(n))
  <2>1. UNCHANGED nodeVars
    BY <1>4 DEF PollStep, PollStart, PollNode, Publish, CountBlocks, Trigger, ReadLines, CountAgain,
                CountBundles, PrintLine
  <2> QED BY <1>1, <1>2, <1>3, <2>1, ServerKeepsTerminals DEF nodeVars
<1>5. CASE NodeStep
  <2> PICK n \in Node : \/ ReserveNode(n) \/ CommitNode(n) \/ UnreserveNode(n) \/ DeleteNode(n)
                        \/ Bundle(n) \/ PrintLine(n)
    BY <1>5 DEF NodeStep
  <2>1. total' \in [Node -> 0..MaxBundles] /\ scene' = scene
    <3>1. total' \in [Node -> 0..MaxBundles]
      BY <1>1, CountTyped
    <3>2. scene' = scene
      BY DEF ReserveNode, CommitNode, UnreserveNode, DeleteNode, Bundle, PrintLine, nodeVars
    <3> QED BY <3>1, <3>2
  <2>2. made' >= made /\ \A m \in Node : live'[m].inc \in {0, live[m].inc} \/ live'[m].inc > made
    BY <1>2 DEF Nodes, ReserveNode, CommitNode, UnreserveNode, DeleteNode, Bundle, PrintLine, nodeVars, Absent
  <2> QED BY <1>3, <2>1, <2>2, ServerKeepsTerminals
<1> QED BY <1>4, <1>5

LEMMA InitTerminals == LiveInit => TermInv
<1> SUFFICES ASSUME LiveInit PROVE TermInv
  OBVIOUS
<1>1. TerminalTypes
  BY ClosedTyped, NothingSent, BoundAssumption DEF LiveInit, StatsInit, TerminalTypes
<1>2. ASSUME NEW n \in Node
      PROVE  TerminalOpen(n) /\ TerminalLines(n)
  <2>1. term[n] = Closed /\ session[n] = NoSession /\ logs[n] = <<>> /\ shown.nodes[n] = Absent
    BY <1>2 DEF LiveInit, NoTopology
  <2>2. term[n].open = FALSE /\ term[n].got = <<>> /\ session[n].up = FALSE /\ ~Shown(n)
    BY <2>1 DEF Closed, NoSession, Shown, Absent
  <2>3. TerminalOpen(n)
    BY <2>1, <2>2 DEF TerminalOpen
  <2>4. TerminalLines(n)
    BY <2>1, <2>2, NothingSent DEF TerminalLines
  <2> QED BY <2>3, <2>4
<1> QED BY <1>1, <1>2 DEF TermInv

LEMMA TerminalsStay ==
  ASSUME IInv, IInv', TermInv, UNCHANGED <<scene, total, live, made, shown, termVars>>
  PROVE  TermInv'
<1>1. total' \in [Node -> 0..MaxBundles] /\ made' >= made
  BY DEF TermInv, TerminalTypes, IInv, ServerOK
<1> QED BY <1>1, ServerKeepsTerminals DEF termVars

LEMMA StepTerminals == IInv /\ IInv' /\ TermInv /\ [LiveNext]_liveVars => TermInv'
<1> SUFFICES ASSUME IInv, IInv', TermInv, [LiveNext]_liveVars PROVE TermInv'
  OBVIOUS
<1>1. CASE \/ PollStep /\ UNCHANGED viewVars
           \/ \E n \in Node : PrintLine(n) /\ UNCHANGED viewVars
           \/ NodeStep /\ UNCHANGED viewVars
  BY <1>1, NodesKeepTerminals
<1>2. CASE Push \/ AskStats \/ ShowStats \/ EndImport \/ StartImport \/ UNCHANGED liveVars
  BY <1>2, TerminalsStay DEF Push, AskStats, ShowStats, EndImport, StartImport, liveVars, viewVars,
                             topoVars, statsVars
<1>3. CASE Receive
  <2>1. CASE Importing
    BY <1>3, <2>1, TerminalsStay DEF Receive, statsVars
  <2>2. CASE ~Importing
    BY <1>3, <2>2, ShowKeepsTerminals DEF Receive
  <2> QED BY <2>1, <2>2
<1>4. CASE \E r \in Requests : Ask(r) \/ Answer(r) \/ LoseAnswer(r)
  BY <1>4, TerminalsStay DEF Ask, Answer, LoseAnswer, statsVars, nodeVars
<1>5. CASE \E r \in Requests : Arrive(r)
  BY <1>5, ShowKeepsTerminals DEF Arrive
<1>6. CASE \E n \in Node : ConnectLogs(n) \/ ReadLogs(n) \/ ShowLines(n) \/ DropLogs(n)
  BY <1>6, ConnectKeepsTerminals, ReadKeepsTerminals, ShownLinesKeepTerminals, DropKeepsTerminals
<1>7. CASE Reboot
  BY <1>7, RebootKeepsTerminals
<1> QED BY <1>1, <1>2, <1>3, <1>4, <1>5, <1>6, <1>7 DEF LiveNext, Running

LEMMA TerminalsInOrder == TermInv => LinesOnceInOrder
BY DEF TermInv, TerminalLines, InOrder, Ordered, Before, LinesOnceInOrder

\* A terminal never shows a line of one container twice or out of order over one
\* connection, whatever the length of the window and of the log, whichever nodes are
\* made anew meanwhile and however late the messages are (websocket.py:68-96).
THEOREM LogsInOrder == LiveSpec => []LinesOnceInOrder
<1>1. LiveSpec => []IInv
  BY InitCoherent, StepCoherent, PTL DEF LiveSpec
<1> QED BY <1>1, InitTerminals, StepTerminals, TerminalsInOrder, PTL DEF LiveSpec

-----------------------------------------------------------------------------
(* Types *)

LEMMA InitStats == LiveInit => StatInv
BY NoStatsOK, BoundAssumption DEF LiveInit, StatsInit, StatInv, NoBadges, NoAnswer

\* The poller is left alone, or its count of blocks changes.
LEMMA BlocksOK ==
  ASSUME PollOK(poll), NEW k, poll' = [poll EXCEPT !.fresh = k]
  PROVE  PollOK(poll')
<1>1. DOMAIN poll' = DOMAIN poll /\ poll'.todo = poll.todo /\ poll'.n = poll.n /\ poll'.at = poll.at
      /\ poll'.of = poll.of /\ poll'.result = poll.result
  BY DEF PollOK
<1> QED BY <1>1, PollMoves

LEMMA NodesKeepStats ==
  ASSUME IInv, StatInv, NodeStep \/ (\E n \in Node : PrintLine(n)), UNCHANGED viewVars
  PROVE  StatInv'
<1> PICK n \in Node : \/ ReserveNode(n) \/ CommitNode(n) \/ UnreserveNode(n) \/ DeleteNode(n)
                      \/ Bundle(n) \/ PrintLine(n)
  BY DEF NodeStep
<1>1. total' \in [Node -> 0..MaxBundles]
  BY CountTyped DEF StatInv
<1>2. poll' = poll \/ \E k : poll' = [poll EXCEPT !.fresh = k]
  BY DEF ReserveNode, CommitNode, UnreserveNode, DeleteNode, Bundle, PrintLine, Recounted
<1>3. PollOK(poll')
  BY <1>2, BlocksOK DEF StatInv
<1>4. snapshot' = snapshot
  BY DEF ReserveNode, CommitNode, UnreserveNode, DeleteNode, Bundle, PrintLine
<1> QED BY <1>1, <1>3, <1>4 DEF StatInv, viewVars, topoVars

LEMMA PollKeepsStats ==
  ASSUME IInv, StatInv, PollStep, UNCHANGED viewVars
  PROVE  StatInv'
<1>1. PollOK(poll')
  BY PollStepOK DEF StatInv
<1>2. snapshot' \in {snapshot, poll.result} /\ total' = total
  BY DEF PollStep, PollStart, PollNode, Publish, CountBlocks, Trigger, ReadLines, CountAgain,
         CountBundles, nodeVars
<1>3. StatsOK(snapshot')
  BY <1>2 DEF StatInv, PollOK
<1> QED BY <1>1, <1>2, <1>3 DEF StatInv, viewVars, topoVars

\* The statistics stay, but for the badges that are flushed.
LEMMA StatsStay ==
  ASSUME StatInv, UNCHANGED <<total, poll, snapshot, askedStats>>, badges' \in {badges, NoBadges}
  PROVE  StatInv'
BY NoStatsOK DEF StatInv, NoBadges

LEMMA ShowStatsOK == StatInv /\ ShowStats => StatInv'
<1> SUFFICES ASSUME StatInv, ShowStats PROVE StatInv'
  OBVIOUS
<1>1. badges' = [n \in Node |-> IF Shown(n) THEN askedStats.data[n] ELSE NoStats]
  BY DEF ShowStats, Filtered
<1>2. StatsOK(badges')
  BY <1>1, NoStatsOK DEF StatsOK, StatInv
<1>3. StatsOK(askedStats'.data) /\ UNCHANGED <<total, poll, snapshot>>
  BY NoStatsOK DEF ShowStats, NoAnswer, statsVars
<1> QED BY <1>2, <1>3 DEF StatInv

LEMMA StepStats == IInv /\ StatInv /\ [LiveNext]_liveVars => StatInv'
<1> SUFFICES ASSUME IInv, StatInv, [LiveNext]_liveVars PROVE StatInv'
  OBVIOUS
<1>1. CASE PollStep /\ UNCHANGED viewVars
  BY <1>1, PollKeepsStats
<1>2. CASE (\E n \in Node : PrintLine(n) /\ UNCHANGED viewVars) \/ (NodeStep /\ UNCHANGED viewVars)
  BY <1>2, NodesKeepStats
<1>3. CASE AskStats
  <2>1. askedStats'.data = snapshot /\ UNCHANGED <<total, poll, snapshot, badges>>
    BY <1>3 DEF AskStats, statsVars
  <2> QED BY <2>1 DEF StatInv
<1>4. CASE ShowStats
  BY <1>4, ShowStatsOK
<1>5. CASE Reboot
  BY <1>5, NoStatsOK DEF Reboot, StatInv
<1>6. CASE Receive
  BY <1>6, StatsStay DEF Receive, Show, Flushed, statsVars
<1>7. CASE \E r \in Requests : Arrive(r)
  BY <1>7, StatsStay DEF Arrive, Show, Flushed, statsVars
<1>8. CASE \/ Push \/ EndImport \/ StartImport \/ UNCHANGED liveVars
           \/ \E r \in Requests : Ask(r) \/ Answer(r) \/ LoseAnswer(r)
           \/ \E n \in Node : ConnectLogs(n) \/ ReadLogs(n) \/ ShowLines(n) \/ DropLogs(n)
  BY <1>8, StatsStay DEF Push, EndImport, StartImport, Ask, Answer, LoseAnswer, ConnectLogs, ReadLogs,
       ShowLines, DropLogs, liveVars, viewVars, topoVars, statsVars, nodeVars
<1> QED BY <1>1, <1>2, <1>3, <1>4, <1>5, <1>6, <1>7, <1>8 DEF LiveNext, Running

LEMMA ViewTyped == IInv /\ TermInv /\ StatInv => LiveTypeOK
<1> SUFFICES ASSUME IInv, TermInv, StatInv PROVE LiveTypeOK
  OBVIOUS
<1>1. shown.nodes \in [Node -> [inc : 0..MaxMade, st : {"absent", "creating", "made"}]]
  BY DEF IInv, Held, Nodes, States
<1>2. ASSUME NEW n \in Node
      PROVE  /\ badges[n].dlv \in 0..MaxBundles /\ badges[n].of \in 0..MaxMade
             /\ term[n].got \in LineSeq
             /\ term[n].open <=> (On("terminal") /\ Shown(n))
             /\ session[n].up => term[n].open
             /\ session[n].last \in 0..Tail100
  <2>1. badges[n].dlv \in 0..MaxBundles /\ badges[n].of \in 0..MaxMade
    BY <1>2 DEF StatInv, StatsOK, StatOK
  <2>2. term[n].got \in LineSeq /\ session[n].last \in 0..Tail100
    BY <1>2 DEF TermInv, TerminalTypes, Terminal, Session, Lines, LogLine, LineSeq
  <2>3. TerminalOpen(n)
    BY <1>2 DEF TermInv
  <2> QED BY <2>1, <2>2, <2>3 DEF TerminalOpen
<1> QED BY <1>1, <1>2 DEF LiveTypeOK

\* Nodes, badges and terminals have their types at any number of nodes, requests and
\* classes, and a terminal is open for each node that is shown and for no other
\* (app.js:400-424).
THEOREM ViewTypes == LiveSpec => []LiveTypeOK
<1>1. LiveSpec => []IInv
  BY InitCoherent, StepCoherent, PTL DEF LiveSpec
<1>2. LiveSpec => []TermInv
  BY <1>1, InitTerminals, StepTerminals, PTL DEF LiveSpec
<1>3. LiveSpec => []StatInv
  BY <1>1, InitStats, StepStats, PTL DEF LiveSpec
<1> QED BY <1>1, <1>2, <1>3, ViewTyped, PTL

-----------------------------------------------------------------------------
(* Blocks of statistics *)

Classed == Range(Classes)
StatLine == [cls : Classed \union {"total"}, val : Nat]
BlockLen == Len(Classes) + 1
ClassAt(i) == IF i = 1 THEN "total" ELSE Classes[i - 1]

\* What is in ion.log and what ION is about to write, s, at a total of t: values do not
\* fall, classes come back after a block, and the end of s is the end of a block.
Stream(s, t) ==
  /\ \A i, j \in DOMAIN s : i < j => s[i].val <= s[j].val
  /\ \A i \in DOMAIN s : s[i].val <= t
  /\ \A i \in DOMAIN s : i + BlockLen \in DOMAIN s => s[i + BlockLen].cls = s[i].cls
  /\ \A j \in 0..(BlockLen - 1) : j < Len(s) => s[Len(s) - j].cls = ClassAt(BlockLen - j)

NotAbove(v, w) == \A c \in Classed : v[c] <= w[c]

LEMMA BlockIs ==
  ASSUME NEW v \in Nat
  PROVE  /\ BlockLen \in Nat \ {0}
         /\ Block(v) \in Seq(StatLine) /\ Len(Block(v)) = BlockLen
         /\ \A i \in 1..BlockLen : Block(v)[i].cls = ClassAt(i) /\ Block(v)[i].val = v
<1> DEFINE h == [cls |-> "total", val |-> v]
           f == [i \in DOMAIN Classes |-> [cls |-> Classes[i], val |-> v]]
           N == Len(Classes)
<1>1. N \in Nat /\ DOMAIN Classes = 1..N /\ \A i \in 1..N : Classes[i] \in Classed
  BY ClassesAssumption, LenProperties DEF Classed, Range
<1>2. h \in StatLine
  BY DEF StatLine
<1>3. \A i \in 1..N : f[i] \in StatLine /\ f[i].cls = Classes[i] /\ f[i].val = v
  BY <1>1 DEF StatLine
<1>4. DOMAIN f = 1..N /\ f = [i \in 1..N |-> f[i]]
  BY <1>1
<1>5. Block(v) = <<h>> \o f
  BY DEF Block
<1>6. h.cls = "total" /\ h.val = v
  OBVIOUS
<1> HIDE DEF h, f, N
<1>7. f \in Seq(StatLine) /\ Len(f) = N
  BY <1>1, <1>3, <1>4
<1>8. <<h>> \in Seq(StatLine) /\ Len(<<h>>) = 1 /\ <<h>>[1] = h
  BY <1>2
<1>9. /\ Block(v) \in Seq(StatLine) /\ Len(Block(v)) = 1 + N
      /\ \A i \in 1..(1 + N) : Block(v)[i] = IF i <= 1 THEN <<h>>[i] ELSE f[i - 1]
  BY <1>1, <1>5, <1>7, <1>8, ConcatProperties
<1>10. BlockLen = 1 + N /\ BlockLen \in Nat \ {0}
  BY <1>1 DEF BlockLen, N
<1>11. ASSUME NEW i \in 1..BlockLen
       PROVE  Block(v)[i].cls = ClassAt(i) /\ Block(v)[i].val = v
  <2>1. CASE i = 1
    BY <1>1, <1>6, <1>8, <1>9, <2>1 DEF ClassAt
  <2>2. CASE i # 1
    <3>1. i - 1 \in 1..N /\ Block(v)[i] = f[i - 1]
      BY <1>1, <1>9, <1>10, <2>2
    <3> QED BY <1>3, <2>2, <3>1 DEF ClassAt
  <2> QED BY <2>1, <2>2
<1> QED BY <1>9, <1>10, <1>11

\* A block is told: the stream goes on.
LEMMA StreamGoesOn ==
  ASSUME NEW s \in Seq(StatLine), NEW t \in Nat, Stream(s, t)
  PROVE  Stream(s \o Block(t), t)
<1> DEFINE b == Block(t)
           u == s \o b
           B == BlockLen
<1>1. /\ B \in Nat \ {0} /\ b \in Seq(StatLine) /\ Len(b) = B
      /\ \A i \in 1..B : b[i].cls = ClassAt(i) /\ b[i].val = t
  BY BlockIs
<1>2. Len(s) \in Nat /\ DOMAIN s = 1..Len(s) /\ \A i \in DOMAIN s : s[i].val \in Nat
  <2>1. \A i \in DOMAIN s : s[i] \in StatLine
    BY ElementOfSeq
  <2> QED BY <2>1, LenProperties DEF StatLine
<1> HIDE DEF b, B
<1>3. /\ u \in Seq(StatLine) /\ Len(u) = Len(s) + B /\ DOMAIN u = 1..(Len(s) + B)
      /\ \A i \in DOMAIN s : u[i] = s[i]
      /\ \A q \in 1..B : u[Len(s) + q] = b[q]
  <2>1. /\ u \in Seq(StatLine) /\ Len(u) = Len(s) + Len(b)
        /\ \A i \in 1..(Len(s) + Len(b)) : u[i] = IF i <= Len(s) THEN s[i] ELSE b[i - Len(s)]
    BY <1>1, ConcatProperties
  <2> HIDE DEF u
  <2>2. Len(u) = Len(s) + B /\ DOMAIN u = 1..(Len(s) + B)
    BY <1>1, <2>1, LenProperties
  <2>3. \A i \in DOMAIN s : u[i] = s[i]
    BY <1>1, <1>2, <2>1
  <2>4. \A q \in 1..B : u[Len(s) + q] = b[q]
    <3> TAKE q \in 1..B
    <3>1. Len(s) + q \in 1..(Len(s) + Len(b)) /\ ~(Len(s) + q <= Len(s)) /\ Len(s) + q - Len(s) = q
      BY <1>1, <1>2
    <3> QED BY <2>1, <3>1
  <2> QED BY <2>1, <2>2, <2>3, <2>4
<1> HIDE DEF u
<1>4. \A i \in DOMAIN u : i \in DOMAIN s \/ (i - Len(s) \in 1..B /\ i = Len(s) + (i - Len(s)))
  BY <1>1, <1>2, <1>3
<1>5. \A i \in DOMAIN u : \/ i \in DOMAIN s /\ u[i] = s[i]
                          \/ i > Len(s) /\ u[i].val = t /\ u[i].cls = ClassAt(i - Len(s))
  BY <1>1, <1>2, <1>3, <1>4
<1>6. \A i \in DOMAIN u : u[i].val <= t /\ u[i].val \in Nat
  BY <1>2, <1>5 DEF Stream
<1>7. \A i, j \in DOMAIN u : i < j => u[i].val <= u[j].val
  <2> SUFFICES ASSUME NEW i \in DOMAIN u, NEW j \in DOMAIN u, i < j PROVE u[i].val <= u[j].val
    OBVIOUS
  <2>1. CASE j \in DOMAIN s /\ u[j] = s[j]
    <3>1. i \in DOMAIN s
      BY <1>2, <1>3, <2>1
    <3> QED BY <1>3, <2>1, <3>1 DEF Stream
  <2>2. CASE u[j].val = t
    BY <1>6, <2>2
  <2> QED BY <1>5, <2>1, <2>2
<1>8. \A i \in DOMAIN u : i + B \in DOMAIN u => u[i + B].cls = u[i].cls
  <2> SUFFICES ASSUME NEW i \in DOMAIN u, i + B \in DOMAIN u PROVE u[i + B].cls = u[i].cls
    OBVIOUS
  <2>1. i \in DOMAIN s /\ u[i] = s[i]
    BY <1>1, <1>2, <1>3
  <2>2. CASE i + B \in DOMAIN s
    BY <1>3, <2>1, <2>2 DEF Stream, B
  <2>3. CASE i + B \notin DOMAIN s
    <3> DEFINE j == Len(s) - i
    <3>1. j \in 0..(B - 1) /\ j < Len(s) /\ i = Len(s) - j /\ i + B - Len(s) = B - j
      BY <1>1, <1>2, <1>3, <2>1, <2>3
    <3>2. s[i].cls = ClassAt(B - j)
      BY <3>1 DEF Stream, B
    <3> DEFINE k == i + B
    <3>6. k \in DOMAIN u /\ k \notin DOMAIN s
      BY <2>3
    <3>3. k - Len(s) = B - j
      BY <1>1, <1>2, <2>1
    <3> HIDE DEF k, j
    <3>4. u[k].cls = ClassAt(k - Len(s))
      BY <1>5, <3>6
    <3>5. u[k].cls = ClassAt(B - j)
      BY <3>3, <3>4
    <3> QED BY <2>1, <3>1, <3>2, <3>5 DEF k
  <2> QED BY <2>2, <2>3
<1>9. \A j \in 0..(B - 1) : j < Len(u) => u[Len(u) - j].cls = ClassAt(B - j)
  <2> SUFFICES ASSUME NEW j \in 0..(B - 1) PROVE u[Len(u) - j].cls = ClassAt(B - j)
    OBVIOUS
  <2>1. B - j \in 1..B /\ Len(u) - j = Len(s) + (B - j)
    BY <1>1, <1>2, <1>3
  <2> QED BY <1>1, <1>3, <2>1
<1> QED BY <1>6, <1>7, <1>8, <1>9 DEF Stream, B, u, b

\* A set of places in a sequence has a greatest one, which Max picks.
LEMMA LastPlace ==
  ASSUME NEW N \in Nat, NEW S, S \subseteq 1..N, S # {}
  PROVE  /\ Max(S) \in S
         /\ \A y \in S : y <= Max(S)
<1> DEFINE Less == {ss \in Nat \X Nat : ss[1] < ss[2]}
           T == {N - y : y \in S}
<1>1. IsWellFoundedOn(Less, Nat)
  BY NatLessThanWellFounded DEF OpToRel
<1>2. T \subseteq Nat /\ T # {}
  <2>1. \A y \in S : N - y \in Nat
    OBVIOUS
  <2>2. \A x \in T : x \in Nat
    BY <2>1
  <2>3. PICK y \in S : TRUE
    OBVIOUS
  <2>4. N - y \in T
    OBVIOUS
  <2> HIDE DEF T
  <2> QED BY <2>2, <2>4
<1>3. PICK x \in T : \A y \in T : ~ (<<y, x>> \in Less)
  <2> HIDE DEF Less, T
  <2> QED BY <1>1, <1>2, WFMin
<1>4. PICK m \in S : x = N - m
  BY <1>3
<1>5. \A y \in S : y <= m
  <2> SUFFICES ASSUME NEW y \in S PROVE y <= m
    OBVIOUS
  <2>1. N - y \in T /\ N - y \in Nat /\ x \in Nat
    BY <1>2, <1>3
  <2>2. ~ (N - y < x)
    BY <1>3, <2>1
  <2> QED BY <1>4, <2>1, <2>2
<1> QED BY <1>4, <1>5 DEF Max

\* The last line of a class is what counts.
LEMMA ParsedIs ==
  ASSUME NEW s \in Seq(StatLine), NEW c \in Classed
  PROVE  \/ Parsed(s)[c] = 0 /\ \A i \in DOMAIN s : s[i].cls # c
         \/ \E m \in DOMAIN s : /\ s[m].cls = c /\ Parsed(s)[c] = s[m].val /\ s[m].val \in Nat
                                /\ \A i \in DOMAIN s : s[i].cls = c => i <= m
<1> DEFINE at == {i \in DOMAIN s : s[i].cls = c}
<1>1. Parsed(s)[c] = IF at = {} THEN 0 ELSE s[Max(at)].val
  BY DEF Parsed, Classed
<1>2. Len(s) \in Nat /\ DOMAIN s = 1..Len(s)
  BY LenProperties
<1>3. \A i \in DOMAIN s : s[i].val \in Nat
  <2>1. \A i \in DOMAIN s : s[i] \in StatLine
    BY ElementOfSeq
  <2> QED BY <2>1 DEF StatLine
<1>4. CASE at = {}
  BY <1>1, <1>4
<1>5. CASE at # {}
  <2> DEFINE m == Max(at)
  <2>1. at \subseteq 1..Len(s)
    BY <1>2
  <2>2. m \in at /\ \A y \in at : y <= m
    <3> HIDE DEF at
    <3> QED BY <1>2, <1>5, <2>1, LastPlace
  <2>3. Parsed(s)[c] = s[m].val
    BY <1>1, <1>5
  <2> HIDE DEF m
  <2> QED BY <1>3, <2>2, <2>3
<1> QED BY <1>4, <1>5

LEMMA ParsedNothing == \A c \in Classed : Parsed(<<>>)[c] = 0
<1>1. \A c \in Classed : {i \in DOMAIN <<>> : <<>>[i].cls = c} = {}
  OBVIOUS
<1> QED BY <1>1 DEF Parsed, Classed

LEMMA ParsedTyped ==
  ASSUME NEW s \in Seq(StatLine)
  PROVE  \A c \in Classed : Parsed(s)[c] \in Nat
BY ParsedIs

\* The front of a stream is forgotten.
LEMMA StreamForgets ==
  ASSUME NEW s \in Seq(StatLine), NEW u \in Seq(StatLine), NEW t \in Nat, NEW k \in Nat, Stream(s, t),
         Len(u) = Len(s) - k, \A i \in DOMAIN u : u[i] = s[i + k]
  PROVE  Stream(u, t)
<1> DEFINE B == BlockLen
<1>1. Len(s) \in Nat /\ DOMAIN s = 1..Len(s) /\ Len(u) \in Nat /\ DOMAIN u = 1..Len(u) /\ B \in Nat \ {0}
  BY LenProperties, ClassesAssumption DEF BlockLen
<1> HIDE DEF B
<1>2. \A i \in DOMAIN u : i \in Nat /\ i + k \in DOMAIN s
  BY <1>1
<1>3. \A i, j \in DOMAIN u : i < j => u[i].val <= u[j].val
  <2> SUFFICES ASSUME NEW i \in DOMAIN u, NEW j \in DOMAIN u, i < j PROVE u[i].val <= u[j].val
    OBVIOUS
  <2>1. i + k < j + k
    BY <1>2
  <2> QED BY <1>2, <2>1 DEF Stream
<1>4. \A i \in DOMAIN u : u[i].val <= t
  BY <1>2 DEF Stream
<1>5. \A i \in DOMAIN u : i + B \in DOMAIN u => u[i + B].cls = u[i].cls
  <2> SUFFICES ASSUME NEW i \in DOMAIN u, i + B \in DOMAIN u PROVE u[i + B].cls = u[i].cls
    OBVIOUS
  <2> DEFINE a == i + k
             b == i + B
  <2>1. a \in DOMAIN s /\ b + k \in DOMAIN s /\ b + k = a + B
    BY <1>1, <1>2
  <2>2. u[i] = s[a] /\ u[b] = s[b + k]
    OBVIOUS
  <2> HIDE DEF a, b
  <2>3. s[a + B].cls = s[a].cls
    BY <2>1 DEF Stream, B
  <2> QED BY <2>1, <2>2, <2>3 DEF b
<1>6. \A j \in 0..(B - 1) : j < Len(u) => u[Len(u) - j].cls = ClassAt(B - j)
  <2> SUFFICES ASSUME NEW j \in 0..(B - 1), j < Len(u) PROVE u[Len(u) - j].cls = ClassAt(B - j)
    OBVIOUS
  <2> DEFINE a == Len(u) - j
  <2>1. a \in DOMAIN u /\ a + k = Len(s) - j /\ j < Len(s)
    BY <1>1
  <2> HIDE DEF a
  <2>2. s[Len(s) - j].cls = ClassAt(B - j)
    BY <2>1 DEF Stream, B
  <2> QED BY <2>1, <2>2 DEF a
<1> QED BY <1>3, <1>4, <1>5, <1>6 DEF Stream, B

\* ION writes a line: the stream is the same, less what the window forgets.
Written(l, p) == LastLines(Append(l, Head(p)), Window)

LEMMA LineWritten ==
  ASSUME NEW l \in Seq(StatLine), NEW p \in Seq(StatLine), p # <<>>, Len(l) <= Window
  PROVE  \E k \in {0, 1} :
           /\ Written(l, p) \in Seq(StatLine) /\ Len(Written(l, p)) = Len(l) + 1 - k
           /\ Len(Written(l, p)) <= Window /\ Tail(p) \in Seq(StatLine)
           /\ k = 1 => Len(l) = Window
           /\ \A i \in DOMAIN Written(l, p) : Written(l, p)[i] = (l \o p)[i + k]
           /\ Written(l, p) \o Tail(p) \in Seq(StatLine) /\ Len(Written(l, p) \o Tail(p)) = Len(l \o p) - k
           /\ \A i \in DOMAIN (Written(l, p) \o Tail(p)) : (Written(l, p) \o Tail(p))[i] = (l \o p)[i + k]
<1> DEFINE a == Append(l, Head(p))
           u == Written(l, p)
           s == l \o p
           q == Tail(p)
<1>a. PICK L \in Nat : L = Len(l)
  BY LenProperties
<1>b. PICK M \in Nat : M = Len(p) /\ M >= 1
  <2>1. Len(p) \in Nat /\ Len(p) # 0
    BY LenProperties, EmptySeq
  <2> QED BY <2>1
<1>c. PICK W \in Nat : W = Window
  BY WindowAssumption
<1>d. L <= W
  BY <1>a, <1>c
<1>0. PICK k \in Int : \/ k = 0 /\ L + 1 <= W
                       \/ k = 1 /\ L = W
  <2>1. L + 1 <= W \/ L = W
    BY <1>d
  <2> QED BY <2>1
<1>1. DOMAIN l = 1..L /\ DOMAIN p = 1..M
  BY <1>a, <1>b, LenProperties
<1>2. /\ Head(p) \in StatLine /\ Head(p) = p[1] /\ q \in Seq(StatLine) /\ Len(q) = M - 1
      /\ \A i \in 1..Len(q) : q[i] = p[i + 1]
  BY <1>b, EmptySeq, HeadTailProperties
<1>3. a \in Seq(StatLine) /\ Len(a) = L + 1 /\ \A i \in 1..L : a[i] = l[i]
  BY <1>a, <1>2, AppendProperties
<1>4. a[L + 1] = p[1]
  BY <1>a, <1>2, AppendProperties
<1>5. /\ s \in Seq(StatLine) /\ Len(s) = L + M
      /\ \A i \in 1..(L + M) : s[i] = IF i <= L THEN l[i] ELSE p[i - L]
  BY <1>a, <1>b, ConcatProperties
<1>e. u = LastLines(a, W)
  BY <1>c DEF Written
<1> HIDE DEF a, s, q, u
<1>6. \A i \in 1..(L + 1) : a[i] = s[i]
  <2> TAKE i \in 1..(L + 1)
  <2>1. CASE i <= L
    BY <1>a, <1>b, <1>c, <1>0, <1>1, <1>3, <1>5, <2>1
  <2>2. CASE i = L + 1
    <3>1. i - L = 1 /\ i \in 1..(L + M) /\ ~(i <= L)
      BY <1>a, <1>b, <1>c, <1>0, <1>1, <2>2
    <3>2. s[i] = p[1]
      BY <1>5, <3>1
    <3> QED BY <1>4, <2>2, <3>2
  <2> QED BY <1>a, <1>b, <1>c, <1>0, <1>1, <2>1, <2>2
<1>7. /\ u \in Seq(StatLine) /\ Len(u) = L + 1 - k /\ Len(u) <= W
      /\ \A i \in 1..(L + 1 - k) : u[i] = a[i + k]
  <2>1. CASE Len(a) <= W
    <3>1. u = a /\ k = 0
      BY <1>a, <1>c, <1>e, <1>0, <1>3, <2>1 DEF LastLines
    <3> QED BY <1>a, <1>b, <1>c, <1>0, <1>1, <1>3, <2>1, <3>1
  <2>2. CASE ~(Len(a) <= W)
    <3>1. k = 1 /\ L = W
      BY <1>a, <1>c, <1>0, <1>3, <2>2
    <3>2. u = SubSeq(a, 2, Len(a))
      <4>1. Len(a) - W + 1 = 2
        BY <1>a, <1>b, <1>c, <1>0, <1>1, <1>3, <3>1
      <4> QED BY <1>c, <1>e, <2>2, <4>1 DEF LastLines
    <3>3. \A i \in 2..Len(a) : a[i] \in StatLine
      BY <1>a, <1>b, <1>c, <1>0, <1>1, <1>3, ElementOfSeq
    <3>4. /\ u \in Seq(StatLine) /\ Len(u) = Len(a) - 1
          /\ \A i \in 1..(Len(a) - 1) : u[i] = a[i + 1]
      <4>1. 2 \in 1..(Len(a) + 1) /\ Len(a) \in (2 - 1)..Len(a)
        BY <1>a, <1>b, <1>c, <1>0, <1>1, <1>3
      <4>2. /\ SubSeq(a, 2, Len(a)) \in Seq(StatLine)
            /\ Len(SubSeq(a, 2, Len(a))) = Len(a) - 1
            /\ \A i \in 1..(Len(a) - 1) : SubSeq(a, 2, Len(a))[i] = a[i + 1]
        BY <1>a, <1>b, <1>c, <1>0, <1>1, <1>3, <3>3
      <4> QED BY <3>2, <4>2
    <3> QED BY <1>a, <1>b, <1>c, <1>0, <1>1, <1>3, <3>1, <3>4
  <2> QED BY <2>1, <2>2
<1>8. k \in {0, 1} /\ (k = 1 => L = W)
  BY <1>0
<1>9. DOMAIN u = 1..(L + 1 - k)
  BY <1>7, LenProperties
<1>10. \A i \in DOMAIN u : u[i] = s[i + k]
  <2> TAKE i \in DOMAIN u
  <2>1. i + k \in 1..(L + 1)
    BY <1>a, <1>b, <1>c, <1>0, <1>1, <1>8, <1>9
  <2> QED BY <1>6, <1>7, <1>9, <2>1
<1> DEFINE v == u \o q
<1>11. /\ v \in Seq(StatLine) /\ Len(v) = Len(u) + Len(q)
       /\ \A i \in 1..(Len(u) + Len(q)) : v[i] = IF i <= Len(u) THEN u[i] ELSE q[i - Len(u)]
  BY <1>2, <1>7, ConcatProperties
<1> HIDE DEF v
<1>12. Len(v) = Len(s) - k /\ DOMAIN v = 1..(Len(u) + Len(q))
  BY <1>a, <1>b, <1>c, <1>0, <1>1, <1>2, <1>5, <1>7, <1>8, <1>11, LenProperties
<1>13. \A i \in DOMAIN v : v[i] = s[i + k]
  <2> TAKE i \in DOMAIN v
  <2>1. CASE i <= Len(u)
    BY <1>7, <1>9, <1>10, <1>11, <1>12, <2>1
  <2>2. CASE ~(i <= Len(u))
    <3> DEFINE j == i - Len(u)
               x == i + k
    <3>1. i \in Int /\ i > L + 1 - k /\ i <= L + M - k /\ Len(u) = L + 1 - k /\ Len(q) = M - 1
      <4>1. Len(u) + Len(q) = L + M - k
        BY <1>0, <1>2, <1>7
      <4> QED BY <1>0, <1>2, <1>7, <1>12, <2>2, <4>1
    <3>2. j \in 1..Len(q) /\ x \in 1..(L + M) /\ ~(x <= L) /\ x - L = j + 1
      BY <1>0, <3>1
    <3>3. v[i] = q[j]
      BY <1>11, <1>12, <2>2
    <3> HIDE DEF j, x
    <3>4. s[x] = p[x - L]
      BY <1>5, <3>2
    <3>5. s[x] = q[j]
      BY <1>2, <3>2, <3>4
    <3> QED BY <3>3, <3>5 DEF x
  <2> QED BY <2>1, <2>2
<1> QED BY <1>a, <1>b, <1>c, <1>2, <1>7, <1>8, <1>10, <1>11, <1>12, <1>13 DEF s, q, v, u

\* A line of a class is in the window still, or a later one of the class is, since the
\* window holds a block. So no value that was read falls.
LEMMA LineKeepsValues ==
  ASSUME NEW l \in Seq(StatLine), NEW p \in Seq(StatLine), p # <<>>, Len(l) <= Window,
         NEW t \in Nat, Stream(l \o p, t)
  PROVE  /\ Written(l, p) \in Seq(StatLine) /\ Len(Written(l, p)) <= Window /\ Tail(p) \in Seq(StatLine)
         /\ Stream(Written(l, p) \o Tail(p), t)
         /\ NotAbove(Parsed(l), Parsed(Written(l, p)))
<1> DEFINE u == Written(l, p)
           s == l \o p
           v == u \o Tail(p)
<1>1. PICK k \in {0, 1} :
        /\ u \in Seq(StatLine) /\ Len(u) = Len(l) + 1 - k
        /\ Len(u) <= Window /\ Tail(p) \in Seq(StatLine)
        /\ k = 1 => Len(l) = Window
        /\ \A i \in DOMAIN u : u[i] = s[i + k]
        /\ v \in Seq(StatLine) /\ Len(v) = Len(s) - k
        /\ \A i \in DOMAIN v : v[i] = s[i + k]
  BY LineWritten
<1>2. s \in Seq(StatLine) /\ \A i \in DOMAIN l : i \in DOMAIN s /\ s[i] = l[i]
  OBVIOUS
<1>3. PICK L \in Nat, M \in Nat, W \in Nat, B \in Nat :
        /\ L = Len(l) /\ DOMAIN l = 1..L /\ M = Len(s) /\ DOMAIN s = 1..M /\ M >= L + 1
        /\ W = Window /\ B = BlockLen /\ B >= 1 /\ B <= W
  <2>1. /\ Len(l) \in Nat /\ DOMAIN l = 1..Len(l) /\ Len(s) \in Nat /\ DOMAIN s = 1..Len(s)
        /\ Len(p) \in Nat /\ Len(p) # 0 /\ Len(s) = Len(l) + Len(p)
    BY LenProperties, EmptySeq, ConcatProperties
  <2>2. Len(Classes) \in Nat /\ Window \in Nat /\ Window > Len(Classes)
    BY ClassesAssumption, WindowAssumption, LenProperties
  <2>3. BlockLen \in Nat /\ BlockLen >= 1 /\ BlockLen <= Window
    BY <2>2 DEF BlockLen
  <2>4. Len(s) >= Len(l) + 1
    BY <2>1
  <2> HIDE DEF s
  <2> QED BY <2>1, <2>2, <2>3, <2>4
<1> HIDE DEF s, v, u
<1>4. Stream(v, t)
  <2>1. k \in Nat
    OBVIOUS
  <2> QED BY <1>1, <1>2, <2>1, StreamForgets DEF s
<1>5. ASSUME NEW c \in Classed
      PROVE  Parsed(l)[c] <= Parsed(u)[c]
  <2>1. Parsed(u)[c] \in Nat
    BY <1>1, ParsedTyped
  <2>2. CASE Parsed(l)[c] = 0
    BY <2>1, <2>2
  <2>3. CASE \E m \in DOMAIN l : l[m].cls = c /\ Parsed(l)[c] = l[m].val /\ l[m].val \in Nat
    <3> PICK m \in DOMAIN l : l[m].cls = c /\ Parsed(l)[c] = l[m].val /\ l[m].val \in Nat
      BY <2>3
    <3>1. m \in DOMAIN s /\ s[m] = l[m] /\ m \in 1..L
      BY <1>2, <1>3
    <3>2. DOMAIN u = 1..(L + 1 - k)
      BY <1>1, <1>3, LenProperties
    <3>3. PICK d \in DOMAIN u : u[d].cls = c /\ l[m].val <= u[d].val /\ u[d].val \in Nat
      <4>1. ASSUME NEW x \in 1..M, x >= m, x > k, x <= L + 1, s[x].cls = c
            PROVE  \E d \in DOMAIN u : u[d].cls = c /\ l[m].val <= u[d].val /\ u[d].val \in Nat
        <5> DEFINE d == x - k
        <5>1. d \in DOMAIN u /\ d + k = x
          BY <1>3, <3>2, <4>1
        <5> HIDE DEF d
        <5>2. u[d] = s[x]
          BY <1>1, <5>1
        <5>3. s[x].val \in Nat
          <6>1. s[x] \in StatLine
            BY <1>2, <1>3, ElementOfSeq
          <6> QED BY <6>1 DEF StatLine
        <5>4. s[m].val <= s[x].val
          <6>1. CASE x = m
            BY <3>1, <6>1
          <6>2. CASE m < x
            BY <1>3, <3>1, <6>2 DEF Stream, s
          <6> QED BY <3>1, <4>1, <6>1, <6>2
        <5> QED BY <3>1, <4>1, <5>1, <5>2, <5>3, <5>4
      <4>2. CASE m > k
        BY <1>3, <3>1, <4>1, <4>2
      <4>3. CASE ~(m > k)
        <5>1. m = 1 /\ k = 1 /\ L = W
          BY <1>1, <1>3, <3>1, <4>3
        <5> DEFINE x == m + B
        <5>2. x \in 1..M /\ x >= m /\ x > k /\ x <= L + 1
          BY <1>3, <5>1
        <5>3. s[x].cls = c
          BY <1>3, <3>1, <5>2 DEF Stream, s
        <5> HIDE DEF x
        <5> QED BY <4>1, <5>2, <5>3
      <4> QED BY <4>2, <4>3
    <3>4. \/ Parsed(u)[c] = 0 /\ \A i \in DOMAIN u : u[i].cls # c
          \/ \E i \in DOMAIN u : /\ u[i].cls = c /\ Parsed(u)[c] = u[i].val /\ u[i].val \in Nat
                                 /\ \A j \in DOMAIN u : u[j].cls = c => j <= i
      BY <1>1, ParsedIs
    <3>5. PICK i \in DOMAIN u : Parsed(u)[c] = u[i].val /\ u[i].val \in Nat /\ d <= i
      BY <3>3, <3>4
    <3>6. u[d].val <= u[i].val
      <4>1. CASE d = i
        BY <3>5, <4>1
      <4>2. CASE d < i
        <5>1. d + k \in DOMAIN s /\ i + k \in DOMAIN s /\ d + k < i + k
          <6>1. d \in 1..(L + 1 - k) /\ i \in 1..(L + 1 - k) /\ k \in {0, 1}
            BY <3>2
          <6> QED BY <1>3, <4>2, <6>1
        <5>2. s[d + k].val <= s[i + k].val
          BY <5>1 DEF Stream, s
        <5> QED BY <1>1, <5>2
      <4> QED BY <3>2, <3>5, <4>1, <4>2
    <3> QED BY <3>3, <3>5, <3>6
  <2> QED BY <2>2, <2>3, ParsedIs
<1> QED BY <1>1, <1>4, <1>5 DEF NotAbove, v, u

-----------------------------------------------------------------------------
(* What is known of a node does not fall back *)

\* Each log with what is about to be written is a stream; without "blocks" there is none.
LogOK(n) ==
  /\ Stream(ionlog[n] \o printing[n], total[n]) /\ Len(ionlog[n]) <= Window
  /\ On("blocks") \/ (ionlog[n] = <<>> /\ printing[n] = <<>>)
  /\ Present(n) => live[n].inc # 0

LogsOK ==
  /\ ionlog \in [Node -> Seq(StatLine)] /\ printing \in [Node -> Seq(StatLine)]
  /\ \A n \in Node : LogOK(n)

\* An answer has numbers, and is of a node of the past or the present.
Answer1(s) ==
  /\ s.dlv \in Nat /\ \A c \in Classed : s.vals[c] \in Nat
  /\ s.of \in Nat /\ s.of <= made /\ (s.ok => s.of # 0)

\* The counts of the container have gone on since.
Below(s, n) ==
  s.ok /\ s.of = live[n].inc => s.dlv <= total[n] /\ NotAbove(s.vals, Parsed(ionlog[n]))

\* Of one node, s is not above u.
Follows(s, u) == s.ok /\ u.ok /\ s.of = u.of => s.dlv <= u.dlv /\ NotAbove(s.vals, u.vals)

AnswersOK ==
  \A n \in Node : /\ Answer1(snapshot[n]) /\ Below(snapshot[n], n)
                  /\ Answer1(poll.result[n]) /\ Below(poll.result[n], n)
                  /\ Follows(snapshot[n], poll.result[n])

\* Values v, which the poller has read of its node, lie between those of the last
\* snapshot and those of the log.
Between(v) ==
  live[poll.n].inc = poll.of =>
    /\ NotAbove(v, Parsed(ionlog[poll.n]))
    /\ snapshot[poll.n].ok /\ snapshot[poll.n].of = poll.of => NotAbove(snapshot[poll.n].vals, v)

Resting == poll.at \in {"asleep", "next"}

ReadOK ==
  /\ On("blocks") \/ poll.at \in {"asleep", "next", "sum"}
  /\ poll.lines \in Seq(StatLine) /\ \A c \in Classed : poll.vals[c] \in Nat
  /\ Resting => poll.vals = NoValues
  /\ ~Resting => poll.of # 0 /\ poll.of <= made
  /\ poll.at = "now" /\ poll.lines # <<>> => Between(Parsed(poll.lines))
  /\ poll.at = "sum" /\ poll.ok => Between(poll.vals)

FallInv == LogsOK /\ AnswersOK /\ ReadOK

LEMMA NotAboveAgain ==
  ASSUME NEW u, NEW v, NEW w, NotAbove(u, v), NotAbove(v, w),
         \A c \in Classed : u[c] \in Nat /\ v[c] \in Nat /\ w[c] \in Nat
  PROVE  NotAbove(u, w)
BY DEF NotAbove

LEMMA NothingKnown ==
  /\ \A c \in Classed : NoValues[c] = 0
  /\ NoStats.ok = FALSE /\ NoStats.vals = NoValues /\ NoStats.dlv = 0 /\ NoStats.of = 0
BY DEF NoStats, NoValues, Classed

\* An answer that did not come in full says nothing.
LEMMA NoAnswerOK ==
  ASSUME made \in Nat
  PROVE  Answer1(NoStats) /\ (\A n : Below(NoStats, n)) /\ (\A s : Follows(s, NoStats) /\ Follows(NoStats, s))
BY NothingKnown DEF Answer1, Below, Follows

\* The logs go on, or are of a container to come, and what the poller knows stays.
LEMMA LogsGoOn ==
  ASSUME IInv, IInv', StatInv, StatInv', FallInv, LogsOK', UNCHANGED <<scene, snapshot>>, made' >= made,
         UNCHANGED <<poll.at, poll.n, poll.of, poll.lines, poll.vals, poll.ok, poll.result>>,
         \A n \in Node :
           \/ /\ live'[n].inc = live[n].inc /\ total'[n] >= total[n]
              /\ NotAbove(Parsed(ionlog[n]), Parsed(ionlog'[n]))
           \/ live'[n].inc = 0 \/ live'[n].inc > made
  PROVE  FallInv'
<1>1. made \in Nat /\ made' \in Nat
  BY DEF IInv, ServerOK
<1>2. \A n \in Node : total[n] \in Nat /\ total'[n] \in Nat
  BY DEF StatInv
<1>3. \A n \in Node : \A c \in Classed : Parsed(ionlog[n])[c] \in Nat /\ Parsed(ionlog'[n])[c] \in Nat
  BY ParsedTyped DEF FallInv, LogsOK
<1>4. ASSUME NEW n \in Node, NEW s, Answer1(s), Below(s, n)
      PROVE  Answer1(s)' /\ Below(s, n)'
  <2>1. Answer1(s)'
    BY <1>1, <1>4 DEF Answer1
  <2>2. ASSUME s.ok, s.of = live'[n].inc
        PROVE  s.dlv <= total'[n] /\ NotAbove(s.vals, Parsed(ionlog'[n]))
    <3>1. live'[n].inc = live[n].inc /\ total'[n] >= total[n] /\ NotAbove(Parsed(ionlog[n]), Parsed(ionlog'[n]))
      BY <1>1, <1>4, <2>2 DEF Answer1
    <3>2. s.dlv <= total[n] /\ NotAbove(s.vals, Parsed(ionlog[n]))
      BY <1>4, <2>2, <3>1 DEF Below
    <3>3. s.dlv <= total'[n]
      BY <1>2, <1>4, <3>1, <3>2 DEF Answer1
    <3>4. NotAbove(s.vals, Parsed(ionlog'[n]))
      BY <1>3, <1>4, <3>1, <3>2, NotAboveAgain DEF Answer1
    <3> QED BY <3>3, <3>4
  <2> QED BY <2>1, <2>2 DEF Below
<1>5. AnswersOK'
  BY <1>4 DEF FallInv, AnswersOK, Follows
<1>6. ASSUME NEW v, \A c \in Classed : v[c] \in Nat, ~Resting, Between(v)
      PROVE  Between(v)'
  <2>1. poll.n \in Node /\ poll.of # 0 /\ poll.of <= made /\ poll.of \in Nat
    BY <1>6 DEF StatInv, PollOK, FallInv, ReadOK, Resting
  <2>2. ASSUME live'[poll.n].inc = poll.of
        PROVE  /\ NotAbove(v, Parsed(ionlog'[poll.n]))
               /\ snapshot[poll.n].ok /\ snapshot[poll.n].of = poll.of => NotAbove(snapshot[poll.n].vals, v)
    <3>1. live'[poll.n].inc = live[poll.n].inc /\ NotAbove(Parsed(ionlog[poll.n]), Parsed(ionlog'[poll.n]))
      BY <1>1, <2>1, <2>2
    <3>2. /\ NotAbove(v, Parsed(ionlog[poll.n]))
          /\ snapshot[poll.n].ok /\ snapshot[poll.n].of = poll.of => NotAbove(snapshot[poll.n].vals, v)
      BY <1>6, <2>2, <3>1 DEF Between
    <3>3. NotAbove(v, Parsed(ionlog'[poll.n]))
      BY <1>3, <1>6, <2>1, <3>1, <3>2, NotAboveAgain
    <3> QED BY <3>2, <3>3
  <2> QED BY <2>2 DEF Between
<1>7. ReadOK'
  <2>1. ReadOK /\ Resting' = Resting
    BY DEF FallInv, Resting
  <2>2. poll.at = "now" /\ poll.lines # <<>> => Between(Parsed(poll.lines))'
    <3>1. \A c \in Classed : Parsed(poll.lines)[c] \in Nat
      BY <2>1, ParsedTyped DEF ReadOK
    <3>2. ASSUME poll.at = "now", poll.lines # <<>>
          PROVE  Between(Parsed(poll.lines))'
      <4> DEFINE v == Parsed(poll.lines)
      <4>1. Between(v) /\ ~Resting
        BY <2>1, <3>2 DEF ReadOK, Resting
      <4>2. Parsed(poll.lines)' = v
        BY DEF Parsed
      <4> QED BY <1>6, <3>1, <4>1, <4>2
    <3> QED BY <3>2
  <2>3. poll.at = "sum" /\ poll.ok => Between(poll.vals)'
    BY <1>6, <2>1 DEF ReadOK, Resting
  <2> QED BY <1>1, <2>1, <2>2, <2>3 DEF ReadOK, On, StatInv, PollOK
<1> QED BY <1>5, <1>7 DEF FallInv

LEMMA EmptyStream ==
  ASSUME NEW t
  PROVE  Stream(<<>> \o <<>>, t) /\ Len(<<>>) <= Window /\ <<>> \in Seq(StatLine) /\ <<>> \o <<>> = <<>>
<1>1. <<>> \o <<>> = <<>> /\ DOMAIN <<>> = {} /\ Len(<<>>) = 0 /\ <<>> \in Seq(StatLine)
  BY EmptySeq
<1>2. BlockLen \in Nat /\ Window \in Nat
  BY ClassesAssumption, WindowAssumption, LenProperties DEF BlockLen
<1>3. Stream(<<>>, t)
  BY <1>1, <1>2 DEF Stream
<1> QED BY <1>1, <1>2, <1>3

\* A node comes or goes: its log is new.
LEMMA NewLogs ==
  ASSUME IInv, StatInv, LogsOK, NEW n \in Node, ReserveNode(n) \/ DeleteNode(n)
  PROVE  LogsOK' /\ \A m \in Node : \/ /\ live'[m].inc = live[m].inc /\ total'[m] >= total[m]
                                       /\ NotAbove(Parsed(ionlog[m]), Parsed(ionlog'[m]))
                                    \/ live'[m].inc = 0 \/ live'[m].inc > made
<1>1. /\ total' = [total EXCEPT ![n] = 0] /\ ionlog' = [ionlog EXCEPT ![n] = <<>>]
      /\ printing' = [printing EXCEPT ![n] = <<>>] /\ scene' = scene
  BY DEF ReserveNode, DeleteNode, NewIon
<1>2. live \in Nodes /\ made \in Nat
  BY DEF IInv, ServerOK
<1>3. /\ live'[n].inc = 0 \/ live'[n].inc > made
      /\ live'[n].st # "absent" => live'[n].inc # 0
      /\ \A m \in Node \ {n} : live'[m] = live[m]
  BY <1>2 DEF Nodes, ReserveNode, DeleteNode, Absent
<1>4. /\ ionlog \in [Node -> Seq(StatLine)] /\ printing \in [Node -> Seq(StatLine)]
      /\ total \in [Node -> 0..MaxBundles]
  BY DEF LogsOK, StatInv
<1>5. ionlog' \in [Node -> Seq(StatLine)] /\ printing' \in [Node -> Seq(StatLine)]
  BY <1>1, <1>4, EmptyStream
<1>6. LogOK(n)'
  <2>1. total'[n] = 0 /\ ionlog'[n] = <<>> /\ printing'[n] = <<>>
    BY <1>1, <1>4
  <2> QED BY <1>1, <1>3, <2>1, EmptyStream DEF LogOK, Present
<1>7. ASSUME NEW m \in Node, m # n
      PROVE  LogOK(m)' /\ live'[m].inc = live[m].inc /\ total'[m] >= total[m]
                       /\ NotAbove(Parsed(ionlog[m]), Parsed(ionlog'[m]))
  <2>1. /\ ionlog'[m] = ionlog[m] /\ printing'[m] = printing[m] /\ total'[m] = total[m] /\ live'[m] = live[m]
        /\ total[m] \in Nat
    BY <1>1, <1>3, <1>4, <1>7
  <2>2. LogOK(m)
    BY <1>7 DEF LogsOK
  <2>3. LogOK(m)'
    BY <1>1, <2>1, <2>2 DEF LogOK, Present, On
  <2>4. NotAbove(Parsed(ionlog[m]), Parsed(ionlog[m]))
    BY <1>4, <1>7, ParsedTyped DEF NotAbove
  <2> QED BY <2>1, <2>3, <2>4
<1> QED BY <1>3, <1>5, <1>6, <1>7 DEF LogsOK

\* A placeholder is committed or given up.
LEMMA OldLogs ==
  ASSUME IInv, StatInv, LogsOK, NEW n \in Node, CommitNode(n) \/ UnreserveNode(n)
  PROVE  LogsOK' /\ \A m \in Node : \/ /\ live'[m].inc = live[m].inc /\ total'[m] >= total[m]
                                       /\ NotAbove(Parsed(ionlog[m]), Parsed(ionlog'[m]))
                                    \/ live'[m].inc = 0 \/ live'[m].inc > made
<1>1. UNCHANGED <<total, ionlog, printing, scene>>
  BY DEF CommitNode, UnreserveNode, ionVars
<1>2. live \in Nodes
  BY DEF IInv, ServerOK
<1>3. \A m \in Node : /\ live'[m].inc = 0 \/ live'[m].inc = live[m].inc
                      /\ live'[m].st # "absent" => live[m].st # "absent" /\ live'[m].inc = live[m].inc
  BY <1>2 DEF Nodes, CommitNode, UnreserveNode, Absent
<1>4. LogsOK'
  BY <1>1, <1>3 DEF LogsOK, LogOK, Present, On
<1>5. \A m \in Node : total'[m] >= total[m] /\ NotAbove(Parsed(ionlog[m]), Parsed(ionlog'[m]))
  BY <1>1, ParsedTyped DEF LogsOK, StatInv, NotAbove
<1> QED BY <1>3, <1>4, <1>5

LEMMA BundleLogs ==
  ASSUME IInv, StatInv, LogsOK, NEW n \in Node, Bundle(n)
  PROVE  LogsOK' /\ \A m \in Node : /\ live'[m].inc = live[m].inc /\ total'[m] >= total[m]
                                    /\ NotAbove(Parsed(ionlog[m]), Parsed(ionlog'[m]))
<1>1. UNCHANGED <<live, ionlog, printing, scene>> /\ total' = [total EXCEPT ![n] = @ + 1]
  BY DEF Bundle, ionVars
<1>2. \A m \in Node : total[m] \in Nat /\ total'[m] \in Nat /\ total'[m] >= total[m]
  BY <1>1 DEF StatInv
<1>3. \A m \in Node : ionlog[m] \o printing[m] \in Seq(StatLine)
  BY DEF LogsOK
<1>4. ASSUME NEW s \in Seq(StatLine), NEW t \in Nat, NEW t2 \in Nat, t2 >= t, Stream(s, t)
      PROVE  Stream(s, t2)
  <2>1. \A i \in DOMAIN s : s[i].val \in Nat
    <3>1. \A i \in DOMAIN s : s[i] \in StatLine
      BY ElementOfSeq
    <3> QED BY <3>1 DEF StatLine
  <2> QED BY <1>4, <2>1 DEF Stream
<1>5. \A m \in Node : Stream(ionlog[m] \o printing[m], total'[m])
  BY <1>2, <1>3, <1>4 DEF LogsOK, LogOK
<1>6. LogsOK'
  BY <1>1, <1>5 DEF LogsOK, LogOK, Present, On
<1>7. \A m \in Node : NotAbove(Parsed(ionlog[m]), Parsed(ionlog'[m]))
  BY <1>1, ParsedTyped DEF LogsOK, NotAbove
<1> QED BY <1>1, <1>2, <1>6, <1>7

LEMMA PrintLogs ==
  ASSUME IInv, StatInv, LogsOK, NEW n \in Node, PrintLine(n)
  PROVE  LogsOK' /\ \A m \in Node : /\ live'[m].inc = live[m].inc /\ total'[m] >= total[m]
                                    /\ NotAbove(Parsed(ionlog[m]), Parsed(ionlog'[m]))
<1> DEFINE l == ionlog[n]
           p == printing[n]
<1>1. /\ UNCHANGED <<live, total, scene>> /\ p # <<>>
      /\ printing' = [printing EXCEPT ![n] = Tail(p)] /\ ionlog' = [ionlog EXCEPT ![n] = Written(l, p)]
  BY DEF PrintLine, nodeVars, Written
<1>2. /\ ionlog \in [Node -> Seq(StatLine)] /\ printing \in [Node -> Seq(StatLine)]
      /\ \A m \in Node : LogOK(m) /\ total[m] \in Nat
  BY DEF LogsOK, StatInv
<1>3. l \in Seq(StatLine) /\ p \in Seq(StatLine) /\ Len(l) <= Window /\ Stream(l \o p, total[n])
  BY <1>2 DEF LogOK
<1>4. /\ Written(l, p) \in Seq(StatLine) /\ Len(Written(l, p)) <= Window /\ Tail(p) \in Seq(StatLine)
      /\ Stream(Written(l, p) \o Tail(p), total[n])
      /\ NotAbove(Parsed(l), Parsed(Written(l, p)))
  BY <1>1, <1>2, <1>3, LineKeepsValues
<1>5. ionlog' \in [Node -> Seq(StatLine)] /\ printing' \in [Node -> Seq(StatLine)]
  BY <1>1, <1>2, <1>4
<1>6. ionlog'[n] = Written(l, p) /\ printing'[n] = Tail(p)
  BY <1>1, <1>2
<1>7. On("blocks")
  BY <1>1, <1>2 DEF LogOK
<1> HIDE DEF l, p
<1>8. LogOK(n)'
  BY <1>1, <1>2, <1>4, <1>6, <1>7 DEF LogOK, Present, On
<1>9. ASSUME NEW m \in Node, m # n
      PROVE  LogOK(m)' /\ NotAbove(Parsed(ionlog[m]), Parsed(ionlog'[m]))
  <2>1. ionlog'[m] = ionlog[m] /\ printing'[m] = printing[m]
    BY <1>1, <1>2, <1>9
  <2>2. LogOK(m)'
    BY <1>1, <1>2, <2>1 DEF LogOK, Present, On
  <2>3. NotAbove(Parsed(ionlog[m]), Parsed(ionlog[m]))
    BY <1>2, ParsedTyped DEF NotAbove
  <2> QED BY <2>1, <2>2, <2>3
<1>10. NotAbove(Parsed(ionlog[n]), Parsed(ionlog'[n]))
  BY <1>4, <1>6 DEF l
<1>11. \A m \in Node : LogOK(m)' /\ NotAbove(Parsed(ionlog[m]), Parsed(ionlog'[m]))
  BY <1>8, <1>9, <1>10
<1> QED BY <1>1, <1>2, <1>5, <1>11 DEF LogsOK

LEMMA NodesKeepFall ==
  ASSUME IInv, IInv', StatInv, StatInv', FallInv, NodeStep \/ (\E n \in Node : PrintLine(n))
  PROVE  FallInv'
<1> PICK n \in Node : \/ ReserveNode(n) \/ CommitNode(n) \/ UnreserveNode(n) \/ DeleteNode(n)
                      \/ Bundle(n) \/ PrintLine(n)
  BY DEF NodeStep
<1>1. LogsOK
  BY DEF FallInv
<1>2. LogsOK' /\ \A m \in Node : \/ /\ live'[m].inc = live[m].inc /\ total'[m] >= total[m]
                                    /\ NotAbove(Parsed(ionlog[m]), Parsed(ionlog'[m]))
                                 \/ live'[m].inc = 0 \/ live'[m].inc > made
  <2>1. CASE ReserveNode(n) \/ DeleteNode(n)
    BY <1>1, <2>1, NewLogs
  <2>2. CASE CommitNode(n) \/ UnreserveNode(n)
    BY <1>1, <2>2, OldLogs
  <2>3. CASE Bundle(n)
    BY <1>1, <2>3, BundleLogs
  <2>4. CASE PrintLine(n)
    BY <1>1, <2>4, PrintLogs
  <2> QED BY <2>1, <2>2, <2>3, <2>4
<1>3. UNCHANGED <<scene, snapshot>> /\ made' >= made
  <2>1. made \in Nat
    BY DEF IInv, ServerOK
  <2> QED BY <2>1 DEF ReserveNode, CommitNode, UnreserveNode, DeleteNode, Bundle, PrintLine, nodeVars
<1>4. UNCHANGED <<poll.at, poll.n, poll.of, poll.lines, poll.vals, poll.ok, poll.result>>
  <2>1. poll' = poll \/ \E k : poll' = [poll EXCEPT !.fresh = k]
    BY DEF ReserveNode, CommitNode, UnreserveNode, DeleteNode, Bundle, PrintLine, Recounted
  <2> QED BY <2>1 DEF StatInv, PollOK
<1> QED BY <1>2, <1>3, <1>4, LogsGoOn

\* The poller has an answer and goes on.
LEMMA DoneFalls ==
  ASSUME StatInv, FallInv, NEW st, UNCHANGED <<scene, live, total, made, ionlog, printing, snapshot>>,
         poll' = Done(st), Answer1(st), Below(st, poll.n), Follows(snapshot[poll.n], st)
  PROVE  FallInv'
<1>1. /\ poll'.at = "next" /\ poll'.lines = <<>> /\ poll'.vals = NoValues
      /\ poll'.result = [poll.result EXCEPT ![poll.n] = st]
  BY DEF Done, StatInv, PollOK
<1>2. LogsOK'
  BY DEF FallInv, LogsOK, LogOK, Present, On
<1>3. \A n \in Node : \/ poll'.result[n] = poll.result[n]
                      \/ n = poll.n /\ poll'.result[n] = st
  BY <1>1 DEF StatInv, PollOK, StatsOK
<1>4. AnswersOK'
  BY <1>3 DEF FallInv, AnswersOK, Answer1, Below, Follows
<1>5. ReadOK'
  BY <1>1, NothingKnown, EmptySeq DEF ReadOK, Resting
<1> QED BY <1>2, <1>4, <1>5 DEF FallInv

\* It goes on with the same node, having read or not.
LEMMA ReadFalls ==
  ASSUME FallInv, LogsOK', UNCHANGED <<scene, live, total, made, ionlog, snapshot>>,
         UNCHANGED <<poll.n, poll.of, poll.result>>, ReadOK'
  PROVE  FallInv'
<1>1. AnswersOK'
  BY DEF FallInv, AnswersOK, Answer1, Below, Follows
<1> QED BY <1>1 DEF FallInv

LEMMA SleepFalls ==
  ASSUME IInv, FallInv, UNCHANGED <<scene, live, total, made, ionlog, printing, snapshot>>, PollStart
  PROVE  FallInv'
<1>1. /\ poll'.at = "next" /\ poll'.lines = <<>> /\ poll'.vals = NoValues /\ poll'.result = Nothing
  BY DEF PollStart, Asleep
<1>2. LogsOK'
  BY DEF FallInv, LogsOK, LogOK, Present, On
<1>3. \A n \in Node : Nothing[n] = NoStats
  BY DEF Nothing
<1>4. AnswersOK'
  BY <1>1, <1>3, NoAnswerOK DEF FallInv, AnswersOK, Answer1, Below, Follows, IInv, ServerOK
<1>5. ReadOK'
  BY <1>1, NothingKnown, EmptySeq DEF ReadOK, Resting
<1> QED BY <1>2, <1>4, <1>5 DEF FallInv

LEMMA PublishFalls ==
  ASSUME IInv, FallInv, UNCHANGED <<scene, live, total, made, ionlog, printing>>, Publish
  PROVE  FallInv'
<1>1. /\ poll'.at = "asleep" /\ poll'.lines = <<>> /\ poll'.vals = NoValues /\ poll'.result = Nothing
      /\ snapshot' = poll.result
  BY DEF Publish, Asleep
<1>2. LogsOK'
  BY DEF FallInv, LogsOK, LogOK, Present, On
<1>3. \A n \in Node : Nothing[n] = NoStats
  BY DEF Nothing
<1>4. AnswersOK'
  BY <1>1, <1>3, NoAnswerOK DEF FallInv, AnswersOK, Answer1, Below, Follows, IInv, ServerOK
<1>5. ReadOK'
  BY <1>1, NothingKnown, EmptySeq DEF ReadOK, Resting
<1> QED BY <1>2, <1>4, <1>5 DEF FallInv

\* The next node is asked. Without "blocks" nothing was ever read.
LEMMA PollNodeFalls ==
  ASSUME IInv, StatInv, FallInv, UNCHANGED <<scene, live, total, made, ionlog, printing, snapshot>>, PollNode
  PROVE  FallInv'
<1> DEFINE n == Min(poll.todo)
<1>1. n \in Node
  BY LeastLeft DEF PollNode, StatInv, PollOK
<1>2. LogsOK'
  BY DEF FallInv, LogsOK, LogOK, Present, On
<1>3. Resting /\ poll.vals = NoValues /\ poll.lines \in Seq(StatLine) /\ poll.at = "next"
  BY DEF PollNode, FallInv, ReadOK, Resting
<1> HIDE DEF n
<1>4. CASE Present(n)
  <2>1. poll' = [poll EXCEPT !.at = IF On("blocks") THEN "count" ELSE "sum", !.n = n, !.of = live[n].inc,
                             !.todo = @ \ {n}]
    BY <1>4 DEF PollNode, n
  <2>2. /\ poll'.at = IF On("blocks") THEN "count" ELSE "sum"
        /\ poll'.n = n /\ poll'.of = live[n].inc /\ poll'.result = poll.result
        /\ poll'.vals = NoValues /\ poll'.lines = poll.lines
    BY <1>3, <2>1 DEF StatInv, PollOK
  <2>3. AnswersOK'
    BY <2>2 DEF FallInv, AnswersOK, Answer1, Below, Follows
  <2>4. poll'.of # 0 /\ poll'.of <= made
    BY <1>1, <1>4, <2>2 DEF IInv, ServerOK, FallInv, LogsOK, LogOK
  <2>5. ASSUME poll'.at = "sum"
        PROVE  Between(NoValues)'
    <3>1. ~On("blocks")
      BY <2>2, <2>5
    <3>2. ionlog[n] = <<>> /\ ionlog[n] \in Seq(StatLine)
      BY <1>1, <3>1 DEF FallInv, LogsOK, LogOK
    <3>3. \A c \in Classed : Parsed(ionlog[n])[c] = 0
      BY <3>2, ParsedNothing
    <3>4. NotAbove(NoValues, Parsed(ionlog[n]))
      BY <3>3, NothingKnown DEF NotAbove
    <3>5. snapshot[n].ok /\ snapshot[n].of = live[n].inc => NotAbove(snapshot[n].vals, NoValues)
      BY <1>1, <3>3, NothingKnown DEF FallInv, AnswersOK, Below, NotAbove
    <3> QED BY <2>2, <3>4, <3>5 DEF Between
  <2>6. ReadOK'
    <3>1. poll'.at \in {"count", "sum"} /\ (On("blocks") \/ poll'.at = "sum")
      BY <2>2
    <3>2. Between(poll.vals)' <=> Between(NoValues)'
      BY <2>2
    <3> QED BY <1>3, <2>2, <2>4, <2>5, <3>1, <3>2, NothingKnown DEF ReadOK, Resting, On
  <2> QED BY <1>2, <2>3, <2>6 DEF FallInv
<1>5. CASE ~Present(n)
  <2>1. poll' = [poll EXCEPT !.todo = @ \ {n}]
    BY <1>5 DEF PollNode, n
  <2>2. UNCHANGED <<poll.at, poll.n, poll.of, poll.result, poll.vals, poll.lines>>
    BY <2>1 DEF StatInv, PollOK
  <2>3. ReadOK'
    BY <1>3, <2>2, NothingKnown DEF ReadOK, Resting
  <2> QED BY <1>2, <2>2, <2>3, ReadFalls
<1> QED BY <1>4, <1>5

\* Blocks are counted, bpstats is called, the log is read.
LEMMA CountBlocksFalls ==
  ASSUME IInv, StatInv, FallInv, UNCHANGED <<scene, live, total, made, ionlog, printing, snapshot>>,
         CountBlocks \/ ReadLines, ~TimedOut
  PROVE  FallInv'
<1> DEFINE n == poll.n
<1>1. LogsOK'
  BY DEF FallInv, LogsOK, LogOK, Present, On
<1>2. ~Resting /\ On("blocks") /\ n \in Node /\ poll.at \in {"count", "read"}
  BY DEF CountBlocks, ReadLines, Resting, FallInv, ReadOK, StatInv, PollOK
<1>3. /\ UNCHANGED <<poll.n, poll.of, poll.result, poll.vals>>
      /\ \/ poll'.at = "trigger" /\ poll'.lines = poll.lines
         \/ poll'.at = "now" /\ poll'.lines = IF Readable(n) THEN ionlog[n] ELSE <<>>
  BY DEF CountBlocks, ReadLines, StatInv, PollOK
<1> HIDE DEF n
<1>4. poll'.lines \in Seq(StatLine)
  BY <1>2, <1>3, EmptySeq DEF FallInv, LogsOK, ReadOK
<1>5. ASSUME poll'.at = "now", poll'.lines # <<>>
      PROVE  Between(Parsed(poll.lines))'
  <2>1. poll'.lines = ionlog[n]
    BY <1>3, <1>5
  <2>2. NotAbove(Parsed(ionlog[n]), Parsed(ionlog[n]))
    BY <1>2, ParsedTyped DEF FallInv, LogsOK, NotAbove
  <2>3. live[n].inc = poll.of /\ snapshot[n].ok /\ snapshot[n].of = poll.of =>
          NotAbove(snapshot[n].vals, Parsed(ionlog[n]))
    BY <1>2 DEF FallInv, AnswersOK, Below
  <2>4. Parsed(poll.lines)' = Parsed(ionlog[n])
    BY <2>1 DEF Parsed
  <2> QED BY <1>3, <2>2, <2>3, <2>4 DEF Between, n
<1>6. ReadOK'
  BY <1>2, <1>3, <1>4, <1>5 DEF ReadOK, Resting, On, FallInv
<1> QED BY <1>1, <1>3, <1>6, ReadFalls

LEMMA TriggerFalls ==
  ASSUME IInv, StatInv, FallInv, UNCHANGED <<scene, live, total, made, ionlog, snapshot>>, Trigger
  PROVE  FallInv'
<1>1. ~Resting /\ On("blocks") /\ poll.n \in Node
  BY DEF Trigger, Resting, FallInv, ReadOK, StatInv, PollOK
<1> PICK n \in Node : n = poll.n
  BY <1>1
<1>2. UNCHANGED <<poll.n, poll.of, poll.result, poll.vals, poll.lines>> /\ poll'.at = "read"
  BY DEF Trigger, StatInv, PollOK
<1>3. printing' = printing \/ printing' = [printing EXCEPT ![n] = @ \o Block(total[n])]
  BY DEF Trigger, Told
<1>4. LogsOK'
  <2>1. CASE printing' = printing
    BY <2>1 DEF FallInv, LogsOK, LogOK, Present, On
  <2>2. CASE printing' = [printing EXCEPT ![n] = @ \o Block(total[n])]
    <3> DEFINE l == ionlog[n]
               p == printing[n]
               b == Block(total[n])
    <3>1. /\ ionlog \in [Node -> Seq(StatLine)] /\ printing \in [Node -> Seq(StatLine)]
          /\ \A m \in Node : LogOK(m) /\ total[m] \in Nat
      BY DEF FallInv, LogsOK, StatInv
    <3>2. l \in Seq(StatLine) /\ p \in Seq(StatLine) /\ b \in Seq(StatLine) /\ Stream(l \o p, total[n])
      BY <1>1, <3>1, BlockIs DEF LogOK
    <3>3. printing' = [printing EXCEPT ![n] = p \o b]
      BY <2>2
    <3> HIDE DEF l, p, b
    <3>4. p \o b \in Seq(StatLine) /\ l \o p \in Seq(StatLine)
      BY <3>2, ConcatProperties
    <3>5. Stream((l \o p) \o b, total[n])
      BY <1>1, <3>1, <3>2, <3>4, StreamGoesOn DEF b
    <3>6. (l \o p) \o b = l \o (p \o b)
      BY <3>2, ConcatAssociative
    <3>7. printing' \in [Node -> Seq(StatLine)] /\ printing'[n] = p \o b
      BY <1>1, <3>1, <3>3, <3>4
    <3>8. LogOK(n)'
      <4>1. ionlog'[n] = l /\ total'[n] = total[n] /\ live'[n] = live[n]
        BY DEF l
      <4>2. Stream(ionlog'[n] \o printing'[n], total'[n])
        BY <3>5, <3>6, <3>7, <4>1
      <4>3. Len(ionlog'[n]) <= Window /\ (Present(n) => live[n].inc # 0)
        BY <1>1, <3>1 DEF LogOK
      <4> QED BY <1>1, <4>1, <4>2, <4>3 DEF LogOK, Present, On
    <3>9. ASSUME NEW m \in Node, m # n
          PROVE  LogOK(m)'
      <4>1. printing'[m] = printing[m]
        BY <3>1, <3>3, <3>9
      <4> QED BY <3>1, <4>1 DEF LogOK, Present, On
    <3>10. \A m \in Node : LogOK(m)'
      BY <3>8, <3>9
    <3>11. ionlog' \in [Node -> Seq(StatLine)]
      BY <3>1
    <3> QED BY <3>7, <3>10, <3>11 DEF LogsOK
  <2> QED BY <1>3, <2>1, <2>2
<1>5. ReadOK'
  BY <1>1, <1>2 DEF ReadOK, Resting, On, FallInv
<1> QED BY <1>2, <1>4, <1>5, ReadFalls

\* What was read is parsed, from its first line on; or it is read again, or given up.
LEMMA CountAgainFalls ==
  ASSUME IInv, StatInv, FallInv, UNCHANGED <<scene, live, total, made, ionlog, printing, snapshot>>,
         CountAgain, ~TimedOut
  PROVE  FallInv'
<1> DEFINE s == poll.lines
<1>1. LogsOK'
  BY DEF FallInv, LogsOK, LogOK, Present, On
<1>2. poll.at = "now" /\ ~Resting /\ On("blocks") /\ ReadOK /\ s \in Seq(StatLine)
  BY DEF CountAgain, Resting, FallInv, ReadOK
<1>3. SubSeq(s, 1, Len(s)) = s
  BY <1>2, SubSeqFull
<1>4. /\ UNCHANGED <<poll.n, poll.of, poll.result>> /\ poll'.lines = <<>>
      /\ \/ poll'.at = "sum" /\ s # <<>> /\ poll'.vals = Parsed(s)
         \/ poll'.at = "read" /\ poll'.vals = poll.vals
         \/ poll'.at = "sum" /\ poll'.vals = poll.vals /\ poll'.ok = FALSE
  <2> DEFINE next == IF poll.tries > 1 THEN [poll EXCEPT !.at = "read", !.tries = @ - 1, !.lines = <<>>]
                     ELSE [poll EXCEPT !.at = "sum", !.ok = FALSE, !.lines = <<>>]
             v == Parsed(SubSeq(s, FirstBlock(s), Len(s)))
             new == [poll EXCEPT !.at = "sum", !.lines = <<>>, !.vals = v]
  <2>1. (poll' = new /\ FirstBlock(s) # 0) \/ poll' = next
    BY DEF CountAgain
  <2>2. FirstBlock(s) # 0 => s # <<>> /\ FirstBlock(s) = 1
    BY DEF FirstBlock
  <2>3. FirstBlock(s) # 0 => v = Parsed(s)
    BY <1>3, <2>2
  <2> HIDE DEF v, s
  <2>4. CASE poll' = new /\ FirstBlock(s) # 0
    BY <2>2, <2>3, <2>4 DEF StatInv, PollOK
  <2>5. CASE poll' = next
    BY <2>5 DEF StatInv, PollOK
  <2> QED BY <2>1, <2>4, <2>5
<1> HIDE DEF s
<1>5. ASSUME s # <<>>, poll'.vals = Parsed(s)
      PROVE  Between(poll.vals)'
  <2>1. Between(Parsed(s))
    BY <1>2, <1>5 DEF ReadOK, s
  <2> QED BY <1>4, <1>5, <2>1 DEF Between
<1>6. \A c \in Classed : poll'.vals[c] \in Nat
  BY <1>2, <1>4, ParsedTyped DEF ReadOK
<1>7. ReadOK'
  BY <1>2, <1>4, <1>5, <1>6, EmptySeq DEF ReadOK, Resting, On
<1> QED BY <1>1, <1>4, <1>7, ReadFalls

\* The bundles are counted: all that is known of the node goes into the answer.
LEMMA CountBundlesFalls ==
  ASSUME IInv, StatInv, FallInv, UNCHANGED <<scene, live, total, made, ionlog, printing, snapshot>>,
         CountBundles
  PROVE  FallInv'
<1> DEFINE n == poll.n
           st == [vals |-> poll.vals, dlv |-> Delivered(n), of |-> poll.of,
                  ok |-> poll.ok /\ live[n].inc = poll.of]
           st0 == [st EXCEPT !.dlv = 0, !.ok = FALSE]
<1>1. n \in Node /\ ~Resting /\ poll.at = "sum" /\ ReadOK
  BY DEF CountBundles, Resting, FallInv, StatInv, PollOK
<1>2. total[n] \in Nat /\ Answer1(snapshot[n]) /\ Below(snapshot[n], n) /\ poll.of \in Nat
  BY <1>1 DEF StatInv, PollOK, FallInv, AnswersOK
<1>3. poll' = Done(st) \/ poll' = Done(st0)
  BY DEF CountBundles
<1>4. st.vals = poll.vals /\ st.dlv = total[n] /\ st.of = poll.of /\ (st.ok <=> poll.ok /\ live[n].inc = poll.of)
  BY DEF Delivered
<1>5. st0.vals = poll.vals /\ st0.dlv = 0 /\ st0.of = poll.of /\ ~st0.ok
  OBVIOUS
<1> HIDE DEF n, st, st0
<1>6. Answer1(st) /\ Answer1(st0) /\ Below(st0, n) /\ Follows(snapshot[n], st0)
  BY <1>1, <1>2, <1>4, <1>5 DEF Answer1, Below, Follows, ReadOK
<1>7. ASSUME st.ok
      PROVE  Between(poll.vals) /\ live[n].inc = poll.of
  BY <1>1, <1>4, <1>7 DEF ReadOK
<1>8. Below(st, n)
  BY <1>2, <1>4, <1>7 DEF Below, Between, n
<1>9. Follows(snapshot[n], st)
  BY <1>2, <1>4, <1>7 DEF Follows, Between, Below, n
<1> QED BY <1>3, <1>6, <1>8, <1>9, DoneFalls DEF n

LEMMA PollKeepsFall ==
  ASSUME IInv, StatInv, FallInv, PollStep
  PROVE  FallInv'
<1>1. UNCHANGED <<scene, live, total, made, ionlog>>
  BY DEF PollStep, PollStart, PollNode, Publish, CountBlocks, Trigger, ReadLines, CountAgain,
         CountBundles, nodeVars, ionVars
<1>2. CASE Trigger
  BY <1>1, <1>2, TriggerFalls DEF Trigger
<1>3. CASE Publish
  BY <1>1, <1>3, PublishFalls DEF Publish, ionVars
<1>4. CASE ~Trigger /\ ~Publish
  <2>1. UNCHANGED <<printing, snapshot>>
    BY <1>4 DEF PollStep, PollStart, PollNode, CountBlocks, ReadLines, CountAgain, CountBundles, ionVars
  <2>2. CASE TimedOut
    <3>1. made \in Nat
      BY DEF IInv, ServerOK
    <3> QED BY <1>1, <2>1, <2>2, <3>1, NoAnswerOK, DoneFalls DEF TimedOut
  <2>3. CASE ~TimedOut
    BY <1>1, <1>4, <2>1, <2>3, SleepFalls, PollNodeFalls, CountBlocksFalls, CountAgainFalls,
       CountBundlesFalls DEF PollStep
  <2> QED BY <2>2, <2>3
<1> QED BY <1>2, <1>3, <1>4

\* A new process knows nothing; the logs of the containers it adopts stay.
LEMMA RebootKeepsFall ==
  ASSUME IInv, FallInv, Reboot
  PROVE  FallInv'
<1>1. /\ UNCHANGED <<scene, total, made, ionlog, printing>>
      /\ poll'.at = "asleep" /\ poll'.lines = <<>> /\ poll'.vals = NoValues /\ poll'.result = Nothing
      /\ snapshot' = Nothing
  BY DEF Reboot, Asleep, ionVars
<1>2. \A n \in Node : Present(n)' => Present(n) /\ live'[n].inc = live[n].inc
  <2>1. PICK half \in SUBSET {n \in Node : live[n].st = "creating"} :
          live' = [n \in Node |-> IF Readable(n) THEN live[n]
                                  ELSE IF n \in half THEN [live[n] EXCEPT !.st = "made"] ELSE Absent]
    BY DEF Reboot
  <2>2. live \in Nodes
    BY DEF IInv, ServerOK
  <2>3. \A n \in Node : [live[n] EXCEPT !.st = "made"].inc = live[n].inc
    BY <2>2 DEF Nodes
  <2> QED BY <2>1, <2>3 DEF Present, Readable, Absent
<1>3. LogsOK'
  <2>1. \A n \in Node : LogOK(n)'
    BY <1>1, <1>2 DEF FallInv, LogsOK, LogOK, On
  <2> QED BY <1>1, <2>1 DEF FallInv, LogsOK
<1>4. \A n \in Node : Nothing[n] = NoStats
  BY DEF Nothing
<1>5. AnswersOK'
  <2>1. \A n \in Node : snapshot'[n] = NoStats /\ poll'.result[n] = NoStats
    BY <1>1, <1>4
  <2>2. made' \in Nat
    BY <1>1 DEF IInv, ServerOK
  <2> QED BY <2>1, <2>2, NothingKnown DEF AnswersOK, Answer1, Below, Follows
<1>6. ReadOK'
  BY <1>1, NothingKnown, EmptySeq DEF ReadOK, Resting
<1> QED BY <1>3, <1>5, <1>6 DEF FallInv

LEMMA FallStays ==
  ASSUME FallInv, UNCHANGED <<scene, live, total, made, ionlog, printing, poll, snapshot>>
  PROVE  FallInv'
<1>1. LogsOK'
  BY DEF FallInv, LogsOK, LogOK, Present, On
<1>2. ReadOK'
  BY DEF FallInv, ReadOK, Resting, On, Between
<1> QED BY <1>1, <1>2, ReadFalls

LEMMA InitFalls == LiveInit => FallInv
<1> SUFFICES ASSUME LiveInit PROVE FallInv
  OBVIOUS
<1>1. /\ made = 0 /\ poll.at = "asleep" /\ poll.lines = <<>> /\ poll.vals = NoValues
      /\ poll.result = Nothing /\ snapshot = Nothing
      /\ \A n \in Node : total[n] = 0 /\ ionlog[n] = <<>> /\ printing[n] = <<>> /\ ~Present(n)
  BY DEF LiveInit, StatsInit, Asleep, Present, Absent
<1>2. LogsOK
  <2>1. ionlog \in [Node -> Seq(StatLine)] /\ printing \in [Node -> Seq(StatLine)]
    BY EmptySeq DEF LiveInit, StatsInit
  <2>2. \A n \in Node : LogOK(n)
    BY <1>1, EmptyStream, WindowAssumption, EmptySeq DEF LogOK
  <2> QED BY <2>1, <2>2 DEF LogsOK
<1>3. \A n \in Node : Nothing[n] = NoStats
  BY DEF Nothing
<1>4. AnswersOK
  BY <1>1, <1>3, NoAnswerOK DEF AnswersOK
<1>5. ReadOK
  BY <1>1, NothingKnown, EmptySeq DEF ReadOK, Resting
<1> QED BY <1>2, <1>4, <1>5 DEF FallInv

LEMMA StepFalls ==
  IInv /\ IInv' /\ StatInv /\ StatInv' /\ FallInv /\ [LiveNext]_liveVars => FallInv'
<1> SUFFICES ASSUME IInv, IInv', StatInv, StatInv', FallInv, [LiveNext]_liveVars PROVE FallInv'
  OBVIOUS
<1>1. CASE PollStep
  BY <1>1, PollKeepsFall
<1>2. CASE NodeStep \/ \E n \in Node : PrintLine(n)
  BY <1>2, NodesKeepFall
<1>3. CASE Reboot
  BY <1>3, RebootKeepsFall
<1>4. CASE \/ Push \/ Receive \/ AskStats \/ ShowStats \/ StartImport \/ EndImport \/ UNCHANGED liveVars
           \/ \E r \in Requests : Ask(r) \/ Answer(r) \/ Arrive(r) \/ LoseAnswer(r)
           \/ \E n \in Node : ConnectLogs(n) \/ ReadLogs(n) \/ ShowLines(n) \/ DropLogs(n)
  BY <1>4, FallStays DEF Push, Receive, AskStats, ShowStats, StartImport, EndImport, Ask, Answer, Arrive,
       LoseAnswer, ConnectLogs, ReadLogs, ShowLines, DropLogs, liveVars, statsVars, nodeVars, ionVars
<1> QED BY <1>1, <1>2, <1>3, <1>4 DEF LiveNext, Running

\* A snapshot is published, or lost with the process; otherwise it stays.
FallStep == \A n \in Node :
  snapshot[n].ok /\ snapshot'[n].ok /\ snapshot'[n].of = snapshot[n].of =>
    /\ snapshot'[n].dlv >= snapshot[n].dlv
    /\ \A c \in Range(Classes) : snapshot'[n].vals[c] >= snapshot[n].vals[c]

LEMMA SnapshotFollows == FallInv /\ [LiveNext]_liveVars => FallStep
<1> SUFFICES ASSUME FallInv, [LiveNext]_liveVars PROVE FallStep
  OBVIOUS
<1>1. snapshot' \in {snapshot, poll.result, Nothing}
  BY DEF LiveNext, Running, PollStep, PollStart, PollNode, Publish, CountBlocks, Trigger, ReadLines,
       CountAgain, CountBundles, NodeStep, ReserveNode, CommitNode, UnreserveNode, DeleteNode, Bundle,
       PrintLine, Reboot, Push, Receive, AskStats, ShowStats, StartImport, EndImport, Ask, Answer, Arrive,
       LoseAnswer, ConnectLogs, ReadLogs, ShowLines, DropLogs, liveVars, statsVars
<1>2. ASSUME NEW n \in Node
      PROVE  Follows(snapshot[n], snapshot'[n])
  <2>1. CASE snapshot' = snapshot
    BY <2>1 DEF FallInv, AnswersOK, Answer1, Follows, NotAbove
  <2>2. CASE snapshot' = poll.result
    BY <2>2 DEF FallInv, AnswersOK
  <2>3. CASE snapshot' = Nothing
    BY <2>3, NothingKnown DEF Nothing, Follows
  <2> QED BY <1>1, <2>1, <2>2, <2>3
<1>3. ASSUME NEW n \in Node
      PROVE  /\ snapshot[n].dlv \in Nat /\ \A c \in Classed : snapshot[n].vals[c] \in Nat
             /\ snapshot'[n].dlv \in Nat /\ \A c \in Classed : snapshot'[n].vals[c] \in Nat
  <2>1. Nothing[n] = NoStats
    BY DEF Nothing
  <2> QED BY <1>1, <2>1, NothingKnown DEF FallInv, AnswersOK, Answer1
<1> QED BY <1>2, <1>3 DEF FallStep, Follows, NotAbove, Classed

\* At any number of nodes, classes and bundles, and any window longer than a block:
\* what the snapshot says of a living node does not fall back from one answer in full
\* to the next, although blocks are read while they are written, the log is cut to its
\* last lines, and nodes are made anew, or the process is, while the poller is on its
\* way (docker_manager.py:690-709: the count never "silently caps/decreases"; 711-751,
\* 764-785).
THEOREM StatsKeepUp == LiveSpec => StatsNeverFallBack
<1>1. LiveSpec => []IInv
  BY InitCoherent, StepCoherent, PTL DEF LiveSpec
<1>2. LiveSpec => []StatInv
  BY <1>1, InitStats, StepStats, PTL DEF LiveSpec
<1>3. LiveSpec => []FallInv
  BY <1>1, <1>2, InitFalls, StepFalls, PTL DEF LiveSpec
<1>4. FallStep => [FallStep]_statsVars
  OBVIOUS
<1>5. LiveSpec => [][FallStep]_statsVars
  BY <1>3, <1>4, SnapshotFollows, PTL DEF LiveSpec
<1> QED BY <1>5 DEF StatsNeverFallBack, FallStep

=============================================================================

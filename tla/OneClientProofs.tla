---------------------------- MODULE OneClientProofs ----------------------------
(***************************************************************************)
(* What a single client may rely on when the calls that clean up succeed:   *)
(* between its calls each link has its network, its addresses and both its  *)
(* nodes, an UP link is configured, and ION knows of no link that is gone.  *)
(***************************************************************************)
EXTENDS DockerManagerProofs

\* Calls come one after the other.
Client == CHOOSE p \in Proc : TRUE
OneClient == Proc = {Client}

\* What takes networks away succeeds and reports so, as does what makes them.
NetworkCallsSucceed ==
  /\ FaultAt \intersect {"cl_undo", "cl_unnet", "dl_get", "dl_disc", "dl_remove"} = {}
  /\ LostAt \intersect {"cl_new", "cl_connect", "dl_remove"} = {}

\* No command to ION times out while a link is configured, or taken down.
IonCallsSucceed == FaultAt \intersect {"cl_config", "dl_ion"} = {}

\* No link connects a node with itself.
NoLoops == \A pr \in Pair : pr[1] # pr[2]

-----------------------------------------------------------------------------
(* The tables and the networks, between calls and in the middle of one      *)

WorksOn(pr) == pc[Client] \in LinkLabel /\ loc[Client].pr = pr
Creates(n) == pc[Client] \in CreateNodeLabel /\ loc[Client].n = n

NodeSound(n) ==
  /\ ~Present(n) => nodes[n].ips = {}
  /\ Present(n) => nodes[n].ref.named \/ Creates(n)

\* A node that is being created is not an end of a link yet.
EndsSound == \A pr \in LinkNames : \A n \in Ends(pr) : Present(n) /\ ~Creates(n)

NetsApart ==
  /\ \A pr, qr \in Pair :
       net[pr].nid # NoId /\ net[qr].nid # NoId /\ net[pr].sub = net[qr].sub => pr = qr
  /\ \A pr \in Pair : net[pr].att \subseteq Ends(pr)

ObjectsApart == \A pr, qr \in LinkNames : links[pr] = links[qr] => pr = qr

\* No network of the manager's: none, or one that another writer has made.
NotOurs(pr) == net[pr].nid \in {NoId, Boot}

\* The network that a link has.
OnNetwork(pr) ==
  LET k == obj[links[pr]]
  IN net[pr].nid = k.nid /\ net[pr].nid # NoId /\ net[pr].sub = k.idx

\* A link that no call is about.
Settled(pr) ==
  /\ links[pr] = NoId => NotOurs(pr)
  /\ links[pr] # NoId => OnNetwork(pr) /\ obj[links[pr]].named /\ obj[links[pr]].st # "down"
  /\ \A n \in Ends(pr) : pr \in nodes[n].ips <=> links[pr] # NoId

SameRefs(l) == \A s \in Side : l.ref[s] = nodes[At(l.pr, s)].ref

\* The network of the link, once create_link has one: made or adopted.
Has(l) ==
  /\ net[l.pr].nid = l.nid
  /\ IF l.made THEN l.nid = l.op /\ net[l.pr].att \subseteq {At(l.pr, s) : s \in l.con}
               ELSE l.nid = Boot

NetworkSound(label, l) ==
  /\ label \in {"cl_get", "cl_new", "cl_race"} => NotOurs(l.pr) /\ ~l.made
  /\ label = "cl_adopt" => Has(l) /\ net[l.pr].sub = l.real
  /\ label \in {"cl_ctrs", "cl_connect", "cl_ready", "cl_config", "cl_commit"} =>
       Has(l) /\ net[l.pr].sub = l.idx
  /\ label = "cl_undo" => IF l.made THEN Has(l) ELSE NotOurs(l.pr)
  /\ label = "cl_unnet" => Has(l) /\ l.made /\ net[l.pr].att = {}
  /\ label = "cl_unres" => NotOurs(l.pr)

BuildSound(label, l) ==
  /\ links[l.pr] = l.op /\ obj[l.op].cl = l.cl /\ SameRefs(l)
  /\ \A n \in Ends(l.pr) : l.pr \notin nodes[n].ips
  /\ NetworkSound(label, l)

RemovalSound(label, l) ==
  /\ label \in {"dl_ion", "dl_get", "dl_disc"} => OnNetwork(l.pr)
  /\ label \in {"dl_disc", "dl_remove"} => net[l.pr].nid = l.nid /\ l.nid # NoId
  /\ label = "dl_remove" => net[l.pr].att = {}
  /\ label = "dl_finish" => NotOurs(l.pr)

DeleteSound(label, l) ==
  /\ links[l.pr] = l.lid /\ obj[l.lid].named /\ SameRefs(l)
  /\ \A n \in Ends(l.pr) : l.pr \in nodes[n].ips
  /\ RemovalSound(label, l)

\* delete_node knows the links that are left.
RemoveSound(label, l) ==
  l.call = "delete_node" =>
    /\ label = "dn_next" => ConnectedLinks(l.n) \subseteq l.todo
    /\ label \in DeleteLinkLabel => ConnectedLinks(l.n) \subseteq l.todo \union {l.pr}
    /\ label \in {"dn_ctr", "dn_finish"} => ConnectedLinks(l.n) = {}

CallSound ==
  /\ pc[Client] \in CreateLinkLabel => BuildSound(pc[Client], loc[Client])
  /\ pc[Client] \in DeleteLinkLabel => DeleteSound(pc[Client], loc[Client])
  /\ RemoveSound(pc[Client], loc[Client])

Sound ==
  /\ \A n \in Node : NodeSound(n)
  /\ EndsSound /\ NetsApart /\ ObjectsApart /\ CallSound
  /\ \A pr \in Pair : ~WorksOn(pr) => Settled(pr)

-----------------------------------------------------------------------------
(* Lemmas *)

\* Where the client goes.
LEMMA Went ==
  ASSUME IInv, OneClient, NEW label, NEW l, Goto(Client, label, l)
  PROVE  pc'[Client] = label /\ loc'[Client] = l /\ Client \in Proc
<1>1. Client \in Proc
  BY DEF OneClient
<1> QED
  BY <1>1 DEF Goto, IInv, TypeOK

\* What the client is at.
LEMMA AtWork ==
  ASSUME IInv, Sound, OneClient
  PROVE  /\ Client \in Proc /\ pc[Client] \in Label /\ loc[Client] \in Local
         /\ LocalOK(pc[Client], loc[Client])
         /\ pc[Client] \in CreateLinkLabel => BuildSound(pc[Client], loc[Client])
         /\ pc[Client] \in DeleteLinkLabel => DeleteSound(pc[Client], loc[Client])
         /\ RemoveSound(pc[Client], loc[Client])
         /\ pc[Client] \in LinkLabel => loc[Client].pr \in Pair
<1>1. Client \in Proc
  BY DEF OneClient
<1> QED
  BY <1>1, ThreadFacts DEF Sound, CallSound, LocalOK

\* Labels of one kind are of no other.
LEMMA LabelKinds ==
  /\ CreateLinkLabel \subseteq LinkLabel /\ DeleteLinkLabel \subseteq LinkLabel
  /\ \A label \in LinkLabel : label \in CreateLinkLabel \/ label \in DeleteLinkLabel
  /\ \A label \in CreateLinkLabel : label \notin DeleteLinkLabel
  /\ \A label \in LinkLabel : label \notin CreateNodeLabel /\ label \notin DeleteNodeLabel
  /\ \A label \in CreateNodeLabel : label \notin DeleteNodeLabel
  /\ "idle" \notin LinkLabel /\ "idle" \notin CreateNodeLabel /\ "idle" \notin DeleteNodeLabel
  /\ \A label \in {"dn_next", "dn_ctr", "dn_finish"} : label \in DeleteNodeLabel /\ label \notin LinkLabel
                                                     /\ label \notin CreateNodeLabel
BY DEF LinkLabel, CreateLinkLabel, DeleteLinkLabel, CreateNodeLabel, DeleteNodeLabel

\* Networks that last stay apart.
LEMMA ApartLasts ==
  ASSUME NetsApart, \A pr \in Pair : Lasts(pr)
  PROVE  NetsApart'
<1>1. ASSUME NEW pr \in Pair, NEW qr \in Pair, net'[pr].nid # NoId, net'[qr].nid # NoId,
             net'[pr].sub = net'[qr].sub
      PROVE  pr = qr
  BY <1>1 DEF NetsApart, Lasts
<1>2. \A pr \in Pair : net'[pr].att \subseteq Ends(pr)
  BY DEF Lasts
<1> QED
  BY <1>1, <1>2 DEF NetsApart

\* A link that no call is about stays as it is when its network does.
LEMMA SettledStays ==
  ASSUME NEW pr \in Pair, Settled(pr), NetKept(pr), UNCHANGED <<nodes, links, obj>>
  PROVE  Settled(pr)'
BY DEF Settled, OnNetwork, NotOurs, NetKept

\* A step of create_link or delete_link that leaves the tables as they are.
LEMMA LinkStepSound ==
  ASSUME IInv, Sound, OneClient, UNCHANGED <<nodes, links, obj>>, pc[Client] \in LinkLabel,
         NEW label \in LinkLabel, NEW l, Goto(Client, label, l), l.pr = loc[Client].pr,
         \A qr \in Pair : qr # loc[Client].pr => NetKept(qr), NetsApart',
         label \in CreateLinkLabel => BuildSound(label, l)',
         label \in DeleteLinkLabel => DeleteSound(label, l)', RemoveSound(label, l)'
  PROVE  Sound'
<1>1. pc'[Client] = label /\ loc'[Client] = l
  BY Went
<1>2. \A n \in Node : Creates(n)' <=> Creates(n)
  BY <1>1, LabelKinds DEF Creates
<1>3. (\A n \in Node : NodeSound(n)') /\ EndsSound' /\ ObjectsApart'
  <2>1. \A n \in Node : Present(n)' <=> Present(n)
    BY DEF Present
  <2>2. \A n \in Node : NodeSound(n)'
    BY <1>2, <2>1 DEF Sound, NodeSound
  <2>3. LinkNames' = LinkNames
    BY DEF LinkNames
  <2>4. \A pr \in Pair : Ends(pr) \subseteq Node
    BY PairAssumption DEF Ends
  <2>5. EndsSound'
    BY <1>2, <2>1, <2>3, <2>4 DEF Sound, EndsSound, LinkNames
  <2> QED
    BY <2>2, <2>3, <2>5 DEF Sound, ObjectsApart
<1>4. CallSound'
  BY <1>1 DEF CallSound, BuildSound, DeleteSound, RemoveSound, NetworkSound, RemovalSound
<1>5. ASSUME NEW pr \in Pair, ~WorksOn(pr)' PROVE Settled(pr)'
  <2>1. ~WorksOn(pr) /\ pr # loc[Client].pr
    BY <1>1, <1>5 DEF WorksOn
  <2> QED
    BY <2>1, SettledStays DEF Sound
<1> QED
  BY <1>3, <1>4, <1>5 DEF Sound

-----------------------------------------------------------------------------
(* create_link, up to its commit *)

\* A step of create_link within its tables.
LEMMA BuildStepSound ==
  ASSUME IInv, Sound, OneClient, UNCHANGED <<nodes, links, obj>>, pc[Client] \in CreateLinkLabel,
         NEW label \in CreateLinkLabel, NEW l, Goto(Client, label, l),
         SameKeys(l, loc[Client]), l.ref = loc[Client].ref,
         \A qr \in Pair : qr # loc[Client].pr => NetKept(qr), NetsApart',
         NetworkSound(label, l)'
  PROVE  Sound'
<1>1. /\ BuildSound(pc[Client], loc[Client]) /\ loc[Client].call # "delete_node"
      /\ LocalOK(pc[Client], loc[Client])
  BY AtWork, LabelKinds DEF LocalOK
<1>2. BuildSound(label, l)'
  BY <1>1 DEF BuildSound, SameKeys, SameRefs
<1>3. RemoveSound(label, l)'
  BY <1>1 DEF RemoveSound, SameKeys
<1>4. pc[Client] \in LinkLabel /\ label \in LinkLabel /\ label \notin DeleteLinkLabel
  BY LabelKinds
<1> QED
  BY <1>1, <1>2, <1>3, <1>4, LinkStepSound DEF SameKeys

\* One that leaves the networks alone as well.
LEMMA QuietBuildStep ==
  ASSUME IInv, Sound, OneClient, UNCHANGED <<nodes, links, obj, net>>, pc[Client] \in CreateLinkLabel,
         NEW label \in CreateLinkLabel, NEW l, Goto(Client, label, l),
         SameKeys(l, loc[Client]), l.ref = loc[Client].ref,
         NetworkSound(label, l)
  PROVE  Sound'
<1>1. \A qr \in Pair : NetKept(qr)
  BY DEF NetKept
<1>2. NetsApart'
  BY DEF Sound, NetsApart
<1>3. NetworkSound(label, l)'
  BY DEF NetworkSound, NotOurs, Has
<1> QED
  BY <1>1, <1>2, <1>3, BuildStepSound

\* The exception handler.
LEMMA UndoSound ==
  ASSUME IInv, Sound, OneClient, UNCHANGED <<nodes, links, obj, net>>,
         pc[Client] \in CreateLinkLabel, pc[Client] \notin {"cl_unnet", "cl_unres"}, Undo(Client)
  PROVE  Sound'
<1>1. NetworkSound(pc[Client], loc[Client])
  BY AtWork DEF BuildSound
<1>2. NetworkSound("cl_undo", loc[Client])
  BY <1>1 DEF NetworkSound, Has, NotOurs, CreateLinkLabel
<1>3. "cl_undo" \in CreateLinkLabel /\ Goto(Client, "cl_undo", loc[Client]) /\ SameKeys(loc[Client], loc[Client])
  BY DEF CreateLinkLabel, Undo, SameKeys
<1> QED
  BY <1>2, <1>3, QuietBuildStep

\* create_link takes the network that it has found.
LEMMA FoundSound ==
  ASSUME IInv, Sound, OneClient, UNCHANGED <<nodes, links, obj, net>>,
         pc[Client] \in {"cl_get", "cl_race"}, net[loc[Client].pr].nid # NoId,
         HaveNetwork(Client, net[loc[Client].pr].nid, net[loc[Client].pr].sub, FALSE)
  PROVE  Sound'
<1>1. pc[Client] \in CreateLinkLabel /\ loc[Client] \in Local
  BY AtWork DEF CreateLinkLabel
<1>2. PICK i : i = net[loc[Client].pr].nid
  OBVIOUS
<1>3. PICK x : x = net[loc[Client].pr].sub
  OBVIOUS
<1>4. PICK l : l = [loc[Client] EXCEPT !.nid = i, !.real = x, !.made = FALSE]
  OBVIOUS
<1>5. SameKeys(l, loc[Client]) /\ l.ref = loc[Client].ref /\ l.nid = i /\ l.real = x /\ l.made = FALSE
      /\ l.idx = loc[Client].idx
  BY <1>1, <1>4 DEF SameKeys, Local
<1>6. i = Boot
  BY <1>1, <1>2, AtWork DEF BuildSound, NetworkSound, NotOurs
<1>7. PICK label : label = (IF x = loc[Client].idx THEN "cl_ctrs" ELSE "cl_adopt")
  OBVIOUS
<1>8. Goto(Client, label, l) /\ label \in CreateLinkLabel
  BY <1>2, <1>3, <1>4, <1>7 DEF HaveNetwork, CreateLinkLabel
<1>9. NetworkSound(label, l)
  BY <1>2, <1>3, <1>5, <1>6, <1>7 DEF NetworkSound, Has, SameKeys
<1> QED
  BY <1>1, <1>5, <1>8, <1>9, QuietBuildStep

\* networks.get().
LEMMA ClGetSound ==
  ASSUME IInv, Sound, OneClient, ClGet(Client) \/ ClRace(Client)
  PROVE  Sound'
<1>1. UNCHANGED <<nodes, links, obj, net>> /\ pc[Client] \in {"cl_get", "cl_race"}
  BY DEF ClGet, ClRace, tableVars, dockerVars
<1>2. pc[Client] \in CreateLinkLabel /\ "cl_new" \in CreateLinkLabel
  BY <1>1 DEF CreateLinkLabel
<1>3. CASE Goto(Client, "cl_new", loc[Client])
  <2>1. NetworkSound("cl_new", loc[Client])
    BY <1>1, <1>2, AtWork DEF BuildSound, NetworkSound
  <2> QED
    BY <1>1, <1>2, <1>3, <2>1, QuietBuildStep DEF SameKeys
<1>4. CASE Undo(Client)
  BY <1>1, <1>2, <1>4, UndoSound
<1> QED
  BY <1>1, <1>3, <1>4, FoundSound DEF ClGet, ClRace

\* networks.create() makes the network.
LEMMA NetworkMade ==
  ASSUME IInv, Sound, OneClient, UNCHANGED <<nodes, links, obj>>, pc[Client] = "cl_new",
         net[loc[Client].pr].nid = NoId, ~Overlaps(loc[Client].idx),
         net' = [net EXCEPT ![loc[Client].pr] = [nid |-> loc[Client].op, sub |-> loc[Client].idx, att |-> {}]],
         HaveNetwork(Client, loc[Client].op, loc[Client].idx, TRUE)
  PROVE  Sound'
<1>1. pc[Client] \in CreateLinkLabel /\ loc[Client] \in Local /\ loc[Client].pr \in Pair
  BY AtWork, LabelKinds DEF CreateLinkLabel
<1>2. PICK pr, i, x : pr = loc[Client].pr /\ i = loc[Client].op /\ x = loc[Client].idx /\ pr \in Pair
  BY <1>1
<1>3. PICK l : l = [loc[Client] EXCEPT !.nid = i, !.real = x, !.made = TRUE]
  OBVIOUS
<1>4. /\ SameKeys(l, loc[Client]) /\ l.ref = loc[Client].ref /\ l.nid = i /\ l.made = TRUE
      /\ l.idx = x /\ l.pr = pr /\ l.op = i
  BY <1>1, <1>2, <1>3 DEF SameKeys, Local
<1>5. Goto(Client, "cl_ctrs", l) /\ "cl_ctrs" \in CreateLinkLabel
  BY <1>2, <1>3 DEF HaveNetwork, CreateLinkLabel
<1>6. net \in [Pair -> Network]
  BY DEF IInv, TypeOK
<1>7. /\ net'[pr] = [nid |-> i, sub |-> x, att |-> {}]
      /\ \A qr \in Pair : qr # pr => net'[qr] = net[qr]
  BY <1>2, <1>6
<1>8. \A qr \in Pair : qr # pr => NetKept(qr)
  BY <1>7 DEF NetKept
<1>9. NetsApart'
  <2>1. \A qr \in Pair : net[qr].nid # NoId => net[qr].sub # x
    BY <1>2 DEF Overlaps
  <2>2. NetsApart
    BY DEF Sound
  <2>3. ASSUME NEW qr \in Pair, NEW rr \in Pair, net'[qr].nid # NoId, net'[rr].nid # NoId,
               net'[qr].sub = net'[rr].sub
        PROVE  qr = rr
    BY <1>7, <2>1, <2>2, <2>3 DEF NetsApart
  <2>4. \A qr \in Pair : net'[qr].att \subseteq Ends(qr)
    BY <1>7, <2>2 DEF NetsApart
  <2> QED
    BY <2>3, <2>4 DEF NetsApart
<1>10. NetworkSound("cl_ctrs", l)'
  BY <1>4, <1>7 DEF NetworkSound, Has
<1> QED
  BY <1>1, <1>2, <1>4, <1>5, <1>8, <1>9, <1>10, BuildStepSound

\* networks.create().
LEMMA ClNewSound ==
  ASSUME IInv, Sound, OneClient, NetworkCallsSucceed, ClNew(Client)
  PROVE  Sound'
<1>1. UNCHANGED <<nodes, links, obj>> /\ pc[Client] = "cl_new"
  BY DEF ClNew, tableVars
<1>2. pc[Client] \in CreateLinkLabel /\ "cl_race" \in CreateLinkLabel
  BY <1>1 DEF CreateLinkLabel
<1>3. ~ReplyLost("cl_new")
  BY DEF NetworkCallsSucceed, ReplyLost
<1>4. CASE UNCHANGED net /\ Goto(Client, "cl_race", loc[Client])
  <2>1. NetworkSound("cl_race", loc[Client])
    BY <1>1, <1>2, AtWork DEF BuildSound, NetworkSound
  <2> QED
    BY <1>1, <1>2, <1>4, <2>1, QuietBuildStep DEF SameKeys
<1>5. CASE UNCHANGED net /\ Undo(Client)
  BY <1>1, <1>2, <1>5, UndoSound
<1> QED
  BY <1>1, <1>3, <1>4, <1>5, NetworkMade DEF ClNew

\* The real subnet replaces the reserved one; containers and readiness are looked up.
LEMMA LookupsSound ==
  ASSUME IInv, Sound, OneClient,
         ClAdopt(Client) \/ ClContainers(Client) \/ ClReady(Client)
  PROVE  Sound'
<1>1. UNCHANGED <<nodes, links, obj, net>> /\ pc[Client] \in {"cl_adopt", "cl_ctrs", "cl_ready"}
  BY DEF ClAdopt, ClContainers, ClReady, tableVars, nodeTables, dockerVars
<1>2. pc[Client] \in CreateLinkLabel /\ loc[Client] \in Local
      /\ \A label \in {"cl_ctrs", "cl_connect", "cl_config"} : label \in CreateLinkLabel
  BY <1>1, AtWork DEF CreateLinkLabel
<1>3. NetworkSound(pc[Client], loc[Client])
  BY <1>2, AtWork DEF BuildSound
<1>4. CASE Undo(Client)
  BY <1>1, <1>2, <1>4, UndoSound
<1>5. CASE ClAdopt(Client)
  <2>1. PICK l : l = [loc[Client] EXCEPT !.idx = loc[Client].real]
    OBVIOUS
  <2>2. /\ SameKeys(l, loc[Client]) /\ l.ref = loc[Client].ref /\ l.nid = loc[Client].nid
        /\ l.made = loc[Client].made /\ l.idx = loc[Client].real /\ l.con = loc[Client].con
    BY <1>2, <2>1 DEF SameKeys, Local
  <2>3. NetworkSound("cl_ctrs", l)
    BY <1>3, <1>5, <2>2 DEF NetworkSound, Has, SameKeys, ClAdopt
  <2> QED
    BY <1>1, <1>2, <1>5, <2>1, <2>2, <2>3, QuietBuildStep DEF ClAdopt
<1>6. CASE ClContainers(Client) /\ ~Undo(Client)
  <2>1. PICK l : l = [loc[Client] EXCEPT !.cid = [s \in Side |-> ctr[At(loc[Client].pr, s)].cid]]
    OBVIOUS
  <2>2. /\ SameKeys(l, loc[Client]) /\ l.ref = loc[Client].ref /\ l.nid = loc[Client].nid
        /\ l.made = loc[Client].made /\ l.idx = loc[Client].idx /\ l.con = loc[Client].con
    BY <1>2, <2>1 DEF SameKeys, Local
  <2>3. pc[Client] = "cl_ctrs" /\ Goto(Client, "cl_connect", l)
    BY <1>6, <2>1 DEF ClContainers
  <2>4. NetworkSound("cl_connect", l)
    BY <1>3, <2>2, <2>3 DEF NetworkSound, Has, SameKeys
  <2> QED
    BY <1>1, <1>2, <2>2, <2>3, <2>4, QuietBuildStep
<1>7. CASE ClReady(Client)
  <2>1. PICK r : Goto(Client, "cl_config", [loc[Client] EXCEPT !.rdy = r])
    BY <1>7 DEF ClReady
  <2>2. PICK l : l = [loc[Client] EXCEPT !.rdy = r]
    OBVIOUS
  <2>3. /\ SameKeys(l, loc[Client]) /\ l.ref = loc[Client].ref /\ l.nid = loc[Client].nid
        /\ l.made = loc[Client].made /\ l.idx = loc[Client].idx /\ l.con = loc[Client].con
    BY <1>2, <2>2 DEF SameKeys, Local
  <2>4. pc[Client] = "cl_ready"
    BY <1>7 DEF ClReady
  <2>5. NetworkSound("cl_config", l)
    BY <1>3, <2>3, <2>4 DEF NetworkSound, Has, SameKeys
  <2> QED
    BY <1>1, <1>2, <2>1, <2>2, <2>3, <2>5, QuietBuildStep
<1> QED
  BY <1>4, <1>5, <1>6, <1>7

\* network.connect() of one end.
LEMMA ClConnectSound ==
  ASSUME IInv, Sound, OneClient, NetworkCallsSucceed, ClConnect(Client)
  PROVE  Sound'
<1>1. UNCHANGED <<nodes, links, obj>> /\ pc[Client] = "cl_connect"
  BY DEF ClConnect, tableVars
<1>2. pc[Client] \in CreateLinkLabel /\ loc[Client] \in Local /\ loc[Client].pr \in Pair
      /\ "cl_connect" \in CreateLinkLabel /\ "cl_ready" \in CreateLinkLabel
  BY <1>1, AtWork, LabelKinds DEF CreateLinkLabel
<1>3. NetworkSound(pc[Client], loc[Client])
  BY <1>2, AtWork DEF BuildSound
<1>4. CASE Undo(Client) /\ UNCHANGED net
  BY <1>1, <1>2, <1>4, UndoSound
<1>5. ~ReplyLost("cl_connect")
  BY DEF NetworkCallsSucceed, ReplyLost
<1>6. PICK pr, s : pr = loc[Client].pr /\ s = loc[Client].side /\ pr \in Pair /\ s \in Side
  BY <1>2 DEF Local
<1>7. PICK l : l = [loc[Client] EXCEPT !.con = @ \union {s}, !.side = Other(@)]
  OBVIOUS
<1>8. /\ SameKeys(l, loc[Client]) /\ l.ref = loc[Client].ref /\ l.nid = loc[Client].nid
      /\ l.made = loc[Client].made /\ l.idx = loc[Client].idx /\ l.con = loc[Client].con \union {s}
  BY <1>2, <1>7 DEF SameKeys, Local
<1>9. CASE \E label \in {"cl_connect", "cl_ready"} : Goto(Client, label, l) /\ net' = Attached(pr, At(pr, s))
  <2>1. PICK label \in {"cl_connect", "cl_ready"} : Goto(Client, label, l)
    BY <1>9
  <2>2. net \in [Pair -> Network]
    BY DEF IInv, TypeOK
  <2>3. /\ net'[pr].nid = net[pr].nid /\ net'[pr].sub = net[pr].sub
        /\ net'[pr].att \subseteq net[pr].att \union {At(pr, s)}
        /\ \A qr \in Pair : qr # pr => net'[qr] = net[qr]
    BY <1>6, <1>9, <2>2 DEF Attached, Network
  <2>4. \A qr \in Pair : qr # pr => NetKept(qr)
    BY <2>3 DEF NetKept
  <2>5. At(pr, s) \in Ends(pr)
    BY DEF At, Ends
  <2>6. \A qr \in Pair : Lasts(qr)
    BY <2>3, <2>5 DEF Lasts, Sound, NetsApart
  <2>7. NetsApart'
    BY <2>6, ApartLasts DEF Sound
  <2>8. NetworkSound(label, l)'
    BY <1>1, <1>3, <1>6, <1>8, <2>1, <2>3 DEF NetworkSound, Has, SameKeys
  <2> QED
    BY <1>1, <1>2, <1>6, <1>8, <2>1, <2>4, <2>7, <2>8, BuildStepSound
<1> QED
  BY <1>4, <1>5, <1>6, <1>7, <1>9 DEF ClConnect

\* _apply_link_config() of one end.
LEMMA ClConfigSound ==
  ASSUME IInv, Sound, OneClient, ClConfig(Client)
  PROVE  Sound'
<1>1. UNCHANGED <<nodes, links, obj, net>> /\ pc[Client] = "cl_config"
  BY DEF ClConfig, tableVars
<1>2. pc[Client] \in CreateLinkLabel /\ loc[Client] \in Local
      /\ "cl_config" \in CreateLinkLabel /\ "cl_commit" \in CreateLinkLabel
  BY <1>1, AtWork DEF CreateLinkLabel
<1>3. CASE Undo(Client)
  BY <1>1, <1>2, <1>3, UndoSound
<1>4. CASE \E label \in {"cl_config", "cl_commit"}, ok \in BOOLEAN :
             Goto(Client, label, [loc[Client] EXCEPT !.side = Other(@), !.ok = ok])
  <2>1. PICK label \in {"cl_config", "cl_commit"}, ok \in BOOLEAN :
         Goto(Client, label, [loc[Client] EXCEPT !.side = Other(@), !.ok = ok])
    BY <1>4
  <2>2. PICK l : l = [loc[Client] EXCEPT !.side = Other(@), !.ok = ok]
    OBVIOUS
  <2>3. /\ SameKeys(l, loc[Client]) /\ l.ref = loc[Client].ref /\ l.nid = loc[Client].nid
        /\ l.made = loc[Client].made /\ l.idx = loc[Client].idx /\ l.con = loc[Client].con
    <3>1. PICK m, x : m = loc[Client] /\ x = Other(m.side)
      OBVIOUS
    <3>2. l = [m EXCEPT !.side = x, !.ok = ok]
      BY <2>2, <3>1
    <3> QED
      BY <1>2, <3>1, <3>2 DEF Local, SameKeys
  <2>4. NetworkSound(label, l)
    BY <1>1, <1>2, <2>1, <2>3, AtWork DEF NetworkSound, BuildSound, Has, SameKeys
  <2> QED
    BY <1>1, <1>2, <2>1, <2>2, <2>3, <2>4, QuietBuildStep
<1>5. Undo(Client) \/ \E label \in {"cl_config", "cl_commit"}, ok \in BOOLEAN :
                         Goto(Client, label, [loc[Client] EXCEPT !.side = Other(@), !.ok = ok])
  <2>1. PICK next : next = (IF loc[Client].side = "a" THEN "cl_config" ELSE "cl_commit")
    OBVIOUS
  <2>2. Undo(Client) \/ \E ok \in BOOLEAN :
          Goto(Client, next, [loc[Client] EXCEPT !.side = Other(@), !.ok = @ /\ ok])
    BY <2>1 DEF ClConfig
  <2>3. ASSUME NEW ok \in BOOLEAN,
               Goto(Client, next, [loc[Client] EXCEPT !.side = Other(@), !.ok = @ /\ ok])
        PROVE  \E label \in {"cl_config", "cl_commit"}, o \in BOOLEAN :
                 Goto(Client, label, [loc[Client] EXCEPT !.side = Other(@), !.ok = o])
    <3>1. PICK m, o : m = loc[Client] /\ o = (m.ok /\ ok) /\ o \in BOOLEAN
      BY <1>2 DEF Local
    <3>2. [m EXCEPT !.side = Other(@), !.ok = @ /\ ok] = [m EXCEPT !.side = Other(@), !.ok = o]
      BY <3>1
    <3>3. Goto(Client, next, [m EXCEPT !.side = Other(@), !.ok = o])
      BY <2>3, <3>1, <3>2
    <3> QED
      BY <2>1, <3>1, <3>3
  <2> QED
    BY <2>2, <2>3
<1> QED
  BY <1>3, <1>4, <1>5

\* The rollback takes its ends off the network, and the network it made off the daemon.
LEMMA ClUndoSound ==
  ASSUME IInv, Sound, OneClient, NetworkCallsSucceed, ClUndo(Client) \/ ClUnnet(Client)
  PROVE  Sound'
<1>1. /\ UNCHANGED <<nodes, links, obj>> /\ pc[Client] \in {"cl_undo", "cl_unnet"}
      /\ ClUndo(Client) => pc[Client] = "cl_undo" /\ Goto(Client, AfterDisconnect(loc[Client]), loc[Client])
      /\ ClUnnet(Client) => pc[Client] = "cl_unnet" /\ Goto(Client, "cl_unres", loc[Client])
  BY DEF ClUndo, ClUnnet, tableVars
<1>2. pc[Client] \in CreateLinkLabel /\ loc[Client] \in Local /\ loc[Client].pr \in Pair
      /\ "cl_unnet" \in CreateLinkLabel /\ "cl_unres" \in CreateLinkLabel
  BY <1>1, AtWork, LabelKinds DEF CreateLinkLabel
<1>3. NetworkSound(pc[Client], loc[Client])
  BY <1>2, AtWork DEF BuildSound
<1>4. ~Fails("cl_undo") /\ ~Fails("cl_unnet")
  BY DEF NetworkCallsSucceed, Fails
<1>5. net \in [Pair -> Network] /\ NetsApart
  BY DEF IInv, TypeOK, Sound
<1>6. PICK l : l = loc[Client]
  OBVIOUS
<1>7. CASE ClUndo(Client)
  <2>1. net' = Disconnected(l.pr, l.nid, {At(l.pr, s) : s \in l.con})
    BY <1>4, <1>6, <1>7 DEF ClUndo
  <2>2. /\ net'[l.pr].nid = net[l.pr].nid /\ net'[l.pr].sub = net[l.pr].sub
        /\ net'[l.pr].att \subseteq net[l.pr].att
        /\ net[l.pr].nid = l.nid => net'[l.pr].att = net[l.pr].att \ {At(l.pr, s) : s \in l.con}
        /\ \A qr \in Pair : qr # l.pr => net'[qr] = net[qr]
    BY <1>2, <1>5, <1>6, <2>1 DEF Disconnected, Network
  <2>3. \A qr \in Pair : NetKept(qr) /\ Lasts(qr)
    BY <1>2, <1>5, <1>6, <2>2 DEF NetKept, Lasts, NetsApart
  <2>4. PICK label : label = AfterDisconnect(l)
    OBVIOUS
  <2>5. NetworkSound(label, l)'
    BY <1>1, <1>3, <1>6, <1>7, <2>2, <2>4 DEF NetworkSound, Has, NotOurs, AfterDisconnect
  <2>6. label \in CreateLinkLabel /\ Goto(Client, label, l)
    BY <1>1, <1>2, <1>6, <1>7, <2>4 DEF AfterDisconnect
  <2> QED
    BY <1>1, <1>2, <1>5, <1>6, <2>3, <2>5, <2>6, ApartLasts, BuildStepSound DEF SameKeys
<1>8. CASE ClUnnet(Client)
  <2>1. net' = [net EXCEPT ![l.pr] = NoNetwork]
    BY <1>1, <1>3, <1>4, <1>6, <1>8 DEF ClUnnet, NetworkSound, Has
  <2>2. net'[l.pr] = NoNetwork /\ \A qr \in Pair : qr # l.pr => net'[qr] = net[qr]
    BY <1>2, <1>5, <1>6, <2>1
  <2>3. \A qr \in Pair : Lasts(qr) /\ (qr # l.pr => NetKept(qr))
    BY <1>5, <2>2 DEF NetKept, Lasts, NetsApart, NoNetwork
  <2>4. NetworkSound("cl_unres", l)'
    BY <2>2 DEF NetworkSound, NotOurs, NoNetwork
  <2> QED
    BY <1>1, <1>2, <1>5, <1>6, <1>8, <2>3, <2>4, ApartLasts, BuildStepSound DEF SameKeys
<1> QED
  BY <1>7, <1>8

-----------------------------------------------------------------------------
(* The locked ends of create_link and delete_link                           *)

\* Addresses are set or popped at both ends, when the references are to the
\* objects in the table, and nowhere else.
LEMMA IpsEffect ==
  ASSUME IInv, NEW pr \in Pair, NEW refs, NEW set \in BOOLEAN, nodes' = WithIps(refs, pr, set),
         \A s \in Side : refs[s] = nodes[At(pr, s)].ref,
         \A n \in Ends(pr) : Present(n), NEW n \in Node
  PROVE  /\ nodes'[n].st = nodes[n].st /\ nodes'[n].ref = nodes[n].ref
         /\ \A qr \in Pair : qr \in nodes'[n].ips <=>
              IF qr = pr /\ n \in Ends(pr) THEN set ELSE qr \in nodes[n].ips
<1>1. nodes'[n].st = nodes[n].st /\ nodes'[n].ref = nodes[n].ref
  BY IpsKeepRefs DEF IInv
<1>2. nodes[n] \in NodeObject
  BY DEF IInv, TypeOK
<1>3. \A x : [nodes[n] EXCEPT !.ips = x].ips = x
  BY <1>2 DEF NodeObject
<1>4. n \in Ends(pr) <=> \E s \in Side : At(pr, s) = n
  BY DEF Ends, At, Side
<1>5. CASE n \in Ends(pr)
  <2>1. nodes'[n] = [nodes[n] EXCEPT !.ips = IF set THEN @ \union {pr} ELSE @ \ {pr}]
    BY <1>4, <1>5 DEF WithIps
  <2>2. nodes'[n].ips = IF set THEN nodes[n].ips \union {pr} ELSE nodes[n].ips \ {pr}
    BY <1>3, <2>1
  <2> QED
    BY <1>1, <1>5, <2>2
<1>6. CASE n \notin Ends(pr)
  <2>1. nodes'[n] = nodes[n]
    BY <1>4, <1>6 DEF WithIps
  <2> QED
    BY <1>6, <2>1
<1> QED
  BY <1>5, <1>6

\* What the ends are told.
LEMMA EndsTold ==
  ASSUME IInv, NEW pr \in Pair, NEW refs, \A s \in Side : refs[s] = nodes[At(pr, s)].ref,
         \A n \in Ends(pr) : Present(n)
  PROVE  /\ nodes' = WithIps(refs, pr, TRUE) => \A n \in Ends(pr) : pr \in nodes'[n].ips
         /\ nodes' = WithIps(refs, pr, FALSE) => \A n \in Ends(pr) : pr \notin nodes'[n].ips
<1>1. Ends(pr) \subseteq Node
  BY PairAssumption DEF Ends
<1>2. ASSUME NEW set \in BOOLEAN, nodes' = WithIps(refs, pr, set), NEW n \in Ends(pr)
      PROVE  pr \in nodes'[n].ips <=> set
  BY <1>1, <1>2, IpsEffect
<1>3. ASSUME nodes' = WithIps(refs, pr, TRUE), NEW n \in Ends(pr) PROVE pr \in nodes'[n].ips
  <2>1. PICK set \in BOOLEAN : set = TRUE
    OBVIOUS
  <2> QED
    BY <1>2, <1>3, <2>1
<1>4. ASSUME nodes' = WithIps(refs, pr, FALSE), NEW n \in Ends(pr) PROVE pr \notin nodes'[n].ips
  <2>1. PICK set \in BOOLEAN : set = FALSE
    OBVIOUS
  <2> QED
    BY <1>2, <1>4, <2>1
<1> QED
  BY <1>3, <1>4

\* A locked section that settles the link its call is about.
LEMMA EndSound ==
  ASSUME IInv, Sound, OneClient, UNCHANGED net, NEW pr \in Pair, WorksOn(pr),
         NEW set \in BOOLEAN, nodes' = WithIps(loc[Client].ref, pr, set), SameRefs(loc[Client]),
         links[pr] # NoId, links'[pr] \in {links[pr], NoId},
         \A qr \in Pair \ {pr} :
           links'[qr] = links[qr] /\ (links[qr] # NoId => obj'[links[qr]] = obj[links[qr]]),
         NEW label \in {"idle", "dn_next"}, NEW l, Goto(Client, label, l),
         RemoveSound(label, l)', Settled(pr)'
  PROVE  Sound'
<1>1. pc'[Client] = label /\ loc'[Client] = l
  BY Went
<1>2. \A n \in Node : ~Creates(n)' /\ ~Creates(n)
  BY <1>1, LabelKinds DEF Creates, WorksOn
<1>3. loc[Client].pr = pr
  BY DEF WorksOn
<1>4. \A n \in Ends(pr) : Present(n)
  BY DEF Sound, EndsSound, LinkNames
<1>5. \A s \in Side : loc[Client].ref[s] = nodes[At(pr, s)].ref
  BY <1>3 DEF SameRefs
<1>6. \A n \in Node :
        /\ nodes'[n].st = nodes[n].st /\ nodes'[n].ref = nodes[n].ref
        /\ \A qr \in Pair : qr \in nodes'[n].ips <=>
             IF qr = pr /\ n \in Ends(pr) THEN set ELSE qr \in nodes[n].ips
  BY <1>4, <1>5, IpsEffect
<1>7. \A n \in Node : Present(n)' <=> Present(n)
  BY <1>6 DEF Present
<1>8. ASSUME NEW n \in Node PROVE NodeSound(n)'
  <2>1. NodeSound(n)
    BY DEF Sound
  <2>2. Present(n) => nodes'[n].ref.named \/ Creates(n)'
    BY <1>2, <1>6, <2>1 DEF NodeSound
  <2>3. nodes[n] \in NodeObject /\ nodes'[n].ips \subseteq Pair
    <3>1. nodes[n] \in NodeObject
      BY DEF IInv, TypeOK
    <3>2. \A x : [nodes[n] EXCEPT !.ips = x].ips = x
      BY <3>1 DEF NodeObject
    <3>3. \/ nodes'[n] = nodes[n]
          \/ nodes'[n] = [nodes[n] EXCEPT !.ips = nodes[n].ips \union {pr}]
          \/ nodes'[n] = [nodes[n] EXCEPT !.ips = nodes[n].ips \ {pr}]
      BY DEF WithIps
    <3> QED
      BY <3>1, <3>2, <3>3 DEF NodeObject
  <2>4. ASSUME ~Present(n) PROVE nodes'[n].ips = {}
    <3>1. nodes[n].ips = {} /\ n \notin Ends(pr)
      BY <1>4, <2>1, <2>4 DEF NodeSound
    <3> QED
      BY <1>6, <2>3, <3>1
  <2> QED
    BY <1>7, <2>2, <2>4 DEF NodeSound
<1>9. LinkNames' \subseteq LinkNames /\ \A qr \in LinkNames' : links'[qr] = links[qr]
  BY DEF LinkNames
<1>10. EndsSound'
  <2>1. \A qr \in Pair : Ends(qr) \subseteq Node
    BY PairAssumption DEF Ends
  <2>2. \A qr \in LinkNames' : qr \in Pair
    BY DEF LinkNames
  <2> QED
    BY <1>2, <1>7, <1>9, <2>1, <2>2 DEF Sound, EndsSound
<1>11. NetsApart' /\ ObjectsApart'
  BY <1>9 DEF Sound, NetsApart, ObjectsApart
<1>12. CallSound'
  BY <1>1, LabelKinds DEF CallSound, CreateLinkLabel, DeleteLinkLabel, RemoveSound
<1>13. ASSUME NEW qr \in Pair PROVE Settled(qr)'
  <2>1. CASE qr = pr
    BY <2>1
  <2>2. CASE qr # pr
    <3>1. ~WorksOn(qr)
      BY <1>3, <2>2 DEF WorksOn
    <3>2. Settled(qr)
      BY <3>1 DEF Sound
    <3>3. Ends(qr) \subseteq Node
      BY PairAssumption DEF Ends
    <3>4. \A n \in Ends(qr) : qr \in nodes'[n].ips <=> qr \in nodes[n].ips
      BY <1>6, <2>2, <3>3
    <3> QED
      BY <2>2, <3>2, <3>4 DEF Settled, OnNetwork, NotOurs
  <2> QED
    BY <2>1, <2>2
<1> QED
  BY <1>8, <1>10, <1>11, <1>12, <1>13 DEF Sound

\* The commit of create_link.
LEMMA ClCommitSound ==
  ASSUME IInv, Sound, OneClient, ClCommit(Client)
  PROVE  Sound'
<1>1. /\ pc[Client] = "cl_commit" /\ UNCHANGED <<net, links>>
      /\ nodes' = WithIps(loc[Client].ref, loc[Client].pr, TRUE)
  BY DEF ClCommit, dockerVars, IpsSet
<1>2. pc[Client] \in CreateLinkLabel /\ pc[Client] \in LinkLabel
  BY <1>1, LabelKinds DEF CreateLinkLabel
<1>3. PICK pr, i, m : pr = loc[Client].pr /\ i = links[pr] /\ m = loc[Client]
  OBVIOUS
<1>4. /\ pr \in Pair /\ i = m.op /\ i \in Id /\ i # NoId /\ SameRefs(loc[Client])
      /\ net[pr].nid = m.nid /\ net[pr].sub = m.idx /\ m.nid # NoId /\ m \in Local
  <2>1. BuildSound(pc[Client], loc[Client]) /\ pr \in Pair /\ m.op \in Id /\ m \in Local
    BY <1>2, <1>3, AtWork DEF LocalOK
  <2>2. m.op # NoId /\ Boot # NoId
    BY <2>1, BoundAssumption DEF Id, Boot, NoId
  <2> QED
    BY <1>1, <1>3, <2>1, <2>2 DEF BuildSound, NetworkSound, Has
<1>5. /\ obj' = [obj EXCEPT ![i] = [@ EXCEPT !.named = TRUE, !.nid = m.nid,
                                            !.idx = m.idx, !.st = LinkStatus(m)]]
      /\ Finish(Client)
  BY <1>3, <1>4 DEF ClCommit
<1>6. obj \in [Id -> LinkObject]
  BY DEF IInv, TypeOK
<1>7. /\ obj'[i].named /\ obj'[i].nid = m.nid /\ obj'[i].idx = m.idx /\ obj'[i].st # "down"
      /\ \A j \in Id : j # i => obj'[j] = obj[j]
  <2>1. obj'[i] = [obj[i] EXCEPT !.named = TRUE, !.nid = m.nid, !.idx = m.idx, !.st = LinkStatus(m)]
    BY <1>4, <1>5, <1>6
  <2>2. obj[i] \in LinkObject
    BY <1>4, <1>6
  <2> QED
    BY <1>4, <1>5, <1>6, <2>1, <2>2 DEF LinkObject, LinkStatus
<1>8. \A qr \in Pair \ {pr} :
        links'[qr] = links[qr] /\ (links[qr] # NoId => obj'[links[qr]] = obj[links[qr]])
  <2>1. links \in [Pair -> Id \union {NoId}]
    BY DEF IInv, TypeOK
  <2>2. ObjectsApart /\ pr \in LinkNames
    BY <1>3, <1>4 DEF Sound, LinkNames
  <2>3. \A qr \in Pair \ {pr} : links[qr] # NoId => links[qr] # i
    BY <1>3, <2>2 DEF ObjectsApart, LinkNames
  <2> QED
    BY <1>1, <1>7, <2>1, <2>3
<1>9. Settled(pr)'
  <2>1. \A n \in Ends(pr) : Present(n)
    BY <1>3, <1>4 DEF Sound, EndsSound, LinkNames
  <2>2. PICK refs : refs = m.ref
    OBVIOUS
  <2>3. (\A s \in Side : refs[s] = nodes[At(pr, s)].ref) /\ nodes' = WithIps(refs, pr, TRUE)
    BY <1>1, <1>3, <1>4, <2>2 DEF SameRefs
  <2>4. \A n \in Ends(pr) : pr \in nodes'[n].ips
    BY <1>4, <2>1, <2>3, EndsTold
  <2> QED
    BY <1>1, <1>3, <1>4, <1>7, <2>4 DEF Settled, OnNetwork
<1>10. Goto(Client, "idle", NoLocal) /\ RemoveSound("idle", NoLocal)'
  BY <1>5 DEF Finish, RemoveSound, NoLocal
<1>11. WorksOn(pr)
  BY <1>2, <1>3 DEF WorksOn
<1> HIDE DEF NoLocal
<1> QED
  BY <1>1, <1>3, <1>4, <1>8, <1>9, <1>10, <1>11, EndSound

\* The locked end of the rollback.
LEMMA ClUnreserveSound ==
  ASSUME IInv, Sound, OneClient, ClUnreserve(Client)
  PROVE  Sound'
<1>1. /\ pc[Client] = "cl_unres" /\ UNCHANGED <<net, obj>>
      /\ nodes' = WithIps(loc[Client].ref, loc[Client].pr, FALSE)
      /\ links' = [links EXCEPT ![loc[Client].pr] = NoId]
      /\ Finish(Client)
  BY DEF ClUnreserve, dockerVars, IpsPopped
<1>2. pc[Client] \in CreateLinkLabel /\ pc[Client] \in LinkLabel
  BY <1>1, LabelKinds DEF CreateLinkLabel
<1>3. PICK pr : pr = loc[Client].pr
  OBVIOUS
<1>4. /\ pr \in Pair /\ SameRefs(loc[Client]) /\ NotOurs(pr) /\ links[pr] # NoId
  <2>1. BuildSound(pc[Client], loc[Client]) /\ pr \in Pair /\ loc[Client].op \in Id
    BY <1>2, <1>3, AtWork DEF LocalOK
  <2>2. loc[Client].op # NoId
    BY <2>1, BoundAssumption DEF Id, Boot, NoId
  <2> QED
    BY <1>1, <1>3, <2>1, <2>2 DEF BuildSound, NetworkSound
<1>5. links \in [Pair -> Id \union {NoId}]
  BY DEF IInv, TypeOK
<1>6. links'[pr] = NoId /\ \A qr \in Pair \ {pr} : links'[qr] = links[qr]
  BY <1>1, <1>3, <1>4, <1>5
<1>7. Settled(pr)'
  <2>1. \A n \in Ends(pr) : Present(n)
    BY <1>4 DEF Sound, EndsSound, LinkNames
  <2>2. PICK refs : refs = loc[Client].ref
    OBVIOUS
  <2>3. (\A s \in Side : refs[s] = nodes[At(pr, s)].ref) /\ nodes' = WithIps(refs, pr, FALSE)
    BY <1>1, <1>3, <1>4, <2>2 DEF SameRefs
  <2>4. \A n \in Ends(pr) : pr \notin nodes'[n].ips
    BY <1>4, <2>1, <2>3, EndsTold
  <2> QED
    BY <1>1, <1>4, <1>6, <2>4 DEF Settled, NotOurs
<1>8. Goto(Client, "idle", NoLocal) /\ RemoveSound("idle", NoLocal)'
  BY <1>1 DEF Finish, RemoveSound, NoLocal
<1>9. WorksOn(pr)
  BY <1>2, <1>3 DEF WorksOn
<1> HIDE DEF NoLocal
<1> QED
  BY <1>1, <1>3, <1>4, <1>6, <1>7, <1>8, <1>9, EndSound

\* Where delete_link returns to.
LEMMA ReturnGoes ==
  ASSUME IInv, OneClient, pc[Client] \in DeleteLinkLabel, DlReturn(Client)
  PROVE  \E label \in {"idle", "dn_next"} : \E l :
           /\ Goto(Client, label, l)
           /\ l.call = "delete_node" =>
                /\ loc[Client].call = "delete_node" /\ label = "dn_next"
                /\ l.n = loc[Client].n /\ l.todo = loc[Client].todo
<1>1. CASE loc[Client].call # "delete_node"
  <2>1. PICK l : l = NoLocal
    OBVIOUS
  <2>2. Goto(Client, "idle", l)
    BY <1>1, <2>1 DEF DlReturn, Finish
  <2>3. l.call = ""
    BY <2>1 DEF NoLocal
  <2> QED
    BY <2>2, <2>3
<1>2. CASE loc[Client].call = "delete_node"
  <2>1. PICK m, n, r, t : m = NoLocal /\ n = loc[Client].n /\ r = loc[Client].me /\ t = loc[Client].todo
    OBVIOUS
  <2>2. PICK l : l = [m EXCEPT !.call = "delete_node", !.n = n, !.me = r, !.todo = t]
    OBVIOUS
  <2>3. Goto(Client, "dn_next", l)
    BY <1>2, <2>1, <2>2 DEF DlReturn
  <2>4. m \in Local
    BY <2>1, NeutralTypes
  <2>5. l.n = n /\ l.todo = t
    BY <2>2, <2>4 DEF Local
  <2> QED
    BY <1>2, <2>1, <2>3, <2>5
<1> QED
  BY <1>1, <1>2

\* The locked end of delete_link.
LEMMA DlFinishSound ==
  ASSUME IInv, Sound, OneClient, DlFinish(Client)
  PROVE  Sound'
<1>1. /\ pc[Client] = "dl_finish" /\ UNCHANGED <<net, obj>>
      /\ nodes' = WithIps(loc[Client].ref, loc[Client].pr, FALSE)
      /\ links' = [links EXCEPT ![loc[Client].pr] = NoId]
      /\ DlReturn(Client)
  BY DEF DlFinish, dockerVars, IpsPopped
<1>2. pc[Client] \in DeleteLinkLabel /\ pc[Client] \in LinkLabel
  BY <1>1, LabelKinds DEF DeleteLinkLabel
<1>3. PICK pr : pr = loc[Client].pr
  OBVIOUS
<1>4. /\ pr \in Pair /\ SameRefs(loc[Client]) /\ NotOurs(pr) /\ links[pr] # NoId
  <2>1. DeleteSound(pc[Client], loc[Client]) /\ pr \in Pair /\ loc[Client].lid \in Id
    BY <1>2, <1>3, AtWork DEF LocalOK
  <2>2. loc[Client].lid # NoId
    BY <2>1, BoundAssumption DEF Id, Boot, NoId
  <2> QED
    BY <1>1, <1>3, <2>1, <2>2 DEF DeleteSound, RemovalSound
<1>5. links \in [Pair -> Id \union {NoId}]
  BY DEF IInv, TypeOK
<1>6. links'[pr] = NoId /\ \A qr \in Pair \ {pr} : links'[qr] = links[qr]
  BY <1>1, <1>3, <1>4, <1>5
<1>7. Settled(pr)'
  <2>1. \A n \in Ends(pr) : Present(n)
    BY <1>4 DEF Sound, EndsSound, LinkNames
  <2>2. PICK refs : refs = loc[Client].ref
    OBVIOUS
  <2>3. (\A s \in Side : refs[s] = nodes[At(pr, s)].ref) /\ nodes' = WithIps(refs, pr, FALSE)
    BY <1>1, <1>3, <1>4, <2>2 DEF SameRefs
  <2>4. \A n \in Ends(pr) : pr \notin nodes'[n].ips
    BY <1>4, <2>1, <2>3, EndsTold
  <2> QED
    BY <1>1, <1>4, <1>6, <2>4 DEF Settled, NotOurs
<1>8. PICK label, l :
        /\ label \in {"idle", "dn_next"} /\ Goto(Client, label, l)
        /\ l.call = "delete_node" =>
             /\ loc[Client].call = "delete_node" /\ label = "dn_next"
             /\ l.n = loc[Client].n /\ l.todo = loc[Client].todo
  BY <1>1, <1>2, ReturnGoes
<1>9. RemoveSound(label, l)'
  <2>1. ASSUME l.call = "delete_node" PROVE ConnectedLinks(l.n)' \subseteq l.todo
    <3>1. ConnectedLinks(l.n) \subseteq l.todo \union {pr}
      BY <1>2, <1>3, <1>8, <2>1, AtWork DEF RemoveSound
    <3>2. ConnectedLinks(l.n)' \subseteq ConnectedLinks(l.n) \ {pr}
      BY <1>6 DEF ConnectedLinks, LinkNames
    <3> QED
      BY <3>1, <3>2
  <2> QED
    BY <1>8, <2>1, LabelKinds DEF RemoveSound
<1>10. WorksOn(pr)
  BY <1>2, <1>3 DEF WorksOn
<1> QED
  BY <1>1, <1>3, <1>4, <1>6, <1>7, <1>8, <1>9, <1>10, EndSound

-----------------------------------------------------------------------------
(* delete_link, up to its end                                              *)

\* A step of delete_link within its tables.
LEMMA RemovalStepSound ==
  ASSUME IInv, Sound, OneClient, UNCHANGED <<nodes, links, obj>>, pc[Client] \in DeleteLinkLabel,
         NEW label \in DeleteLinkLabel, NEW l, Goto(Client, label, l),
         SameKeys(l, loc[Client]), l.ref = loc[Client].ref, l.todo = loc[Client].todo,
         \A qr \in Pair : qr # loc[Client].pr => NetKept(qr), NetsApart',
         RemovalSound(label, l)'
  PROVE  Sound'
<1>1. DeleteSound(pc[Client], loc[Client]) /\ RemoveSound(pc[Client], loc[Client])
  BY AtWork
<1>2. DeleteSound(label, l)'
  BY <1>1 DEF DeleteSound, SameKeys, SameRefs
<1>3. pc[Client] \in LinkLabel /\ label \in LinkLabel /\ label \notin CreateLinkLabel
  BY LabelKinds
<1>4. RemoveSound(label, l)'
  <2>1. ASSUME l.call = "delete_node" PROVE ConnectedLinks(l.n)' \subseteq l.todo \union {l.pr}
    BY <1>1, <2>1 DEF RemoveSound, SameKeys, ConnectedLinks, LinkNames
  <2>2. label \notin {"dn_next", "dn_ctr", "dn_finish"}
    BY <1>3, LabelKinds
  <2> QED
    BY <2>1, <2>2 DEF RemoveSound
<1> QED
  BY <1>2, <1>3, <1>4, LinkStepSound DEF SameKeys

\* One that leaves the networks alone as well.
LEMMA QuietRemovalStep ==
  ASSUME IInv, Sound, OneClient, UNCHANGED <<nodes, links, obj, net>>, pc[Client] \in DeleteLinkLabel,
         NEW label \in DeleteLinkLabel, NEW l, Goto(Client, label, l),
         SameKeys(l, loc[Client]), l.ref = loc[Client].ref, l.todo = loc[Client].todo,
         RemovalSound(label, l)
  PROVE  Sound'
<1>1. (\A qr \in Pair : NetKept(qr)) /\ NetsApart'
  BY DEF NetKept, Sound, NetsApart
<1>2. RemovalSound(label, l)'
  BY DEF RemovalSound, NotOurs, OnNetwork
<1> QED
  BY <1>1, <1>2, RemovalStepSound

\* The clean-up of ION at one end.
LEMMA DlIonSound ==
  ASSUME IInv, Sound, OneClient, DlIon(Client)
  PROVE  Sound'
<1>1. UNCHANGED <<nodes, links, obj, net>> /\ pc[Client] = "dl_ion"
  BY DEF DlIon, tableVars
<1>2. pc[Client] \in DeleteLinkLabel /\ loc[Client] \in Local /\ "dl_ion" \in DeleteLinkLabel
      /\ "dl_get" \in DeleteLinkLabel
  BY <1>1, AtWork DEF DeleteLinkLabel
<1>3. PICK i : i = IF loc[Client].side = "a" THEN obj[loc[Client].lid].idx ELSE loc[Client].idx
  OBVIOUS
<1>4. PICK m : m = [loc[Client] EXCEPT !.idx = i]
  OBVIOUS
<1>5. PICK l : l = [m EXCEPT !.side = Other(@)]
  OBVIOUS
<1>6. PICK label : label \in {"dl_ion", "dl_get"} /\ Goto(Client, label, l)
  BY <1>3, <1>4, <1>5 DEF DlIon
<1>7. SameKeys(l, loc[Client]) /\ l.ref = loc[Client].ref /\ l.todo = loc[Client].todo
  BY <1>2, <1>4, <1>5 DEF SameKeys, Local
<1>8. RemovalSound(label, l)
  <2>1. OnNetwork(loc[Client].pr)
    BY <1>1, <1>2, AtWork DEF DeleteSound, RemovalSound
  <2> QED
    BY <1>6, <1>7, <2>1 DEF RemovalSound, SameKeys
<1> QED
  BY <1>1, <1>2, <1>6, <1>7, <1>8, QuietRemovalStep

\* networks.get() of delete_link: the network is there.
LEMMA DlGetSound ==
  ASSUME IInv, Sound, OneClient, NetworkCallsSucceed, DlGet(Client)
  PROVE  Sound'
<1>1. UNCHANGED <<nodes, links, obj, net>> /\ pc[Client] = "dl_get" /\ ~Fails("dl_get")
  BY DEF DlGet, tableVars, dockerVars, NetworkCallsSucceed, Fails
<1>2. pc[Client] \in DeleteLinkLabel /\ loc[Client] \in Local /\ "dl_disc" \in DeleteLinkLabel
  BY <1>1, AtWork DEF DeleteLinkLabel
<1>3. DeleteSound(pc[Client], loc[Client]) /\ OnNetwork(loc[Client].pr)
  BY <1>1, <1>2, AtWork DEF DeleteSound, RemovalSound
<1>4. PICK i : i = net[loc[Client].pr].nid
  OBVIOUS
<1>5. PICK l : l = [loc[Client] EXCEPT !.nid = i]
  OBVIOUS
<1>6. Goto(Client, "dl_disc", l)
  BY <1>1, <1>3, <1>4, <1>5 DEF DlGet, DeleteSound, OnNetwork
<1>7. SameKeys(l, loc[Client]) /\ l.ref = loc[Client].ref /\ l.todo = loc[Client].todo /\ l.nid = i
  BY <1>2, <1>5 DEF SameKeys, Local
<1>8. RemovalSound("dl_disc", l)
  BY <1>3, <1>4, <1>7 DEF RemovalSound, SameKeys, OnNetwork
<1> QED
  BY <1>1, <1>2, <1>6, <1>7, <1>8, QuietRemovalStep

\* network.disconnect() of both ends: the ends are nodes with a container name.
LEMMA DlDisconnectSound ==
  ASSUME IInv, Sound, OneClient, NetworkCallsSucceed, DlDisconnect(Client)
  PROVE  Sound'
<1>1. UNCHANGED <<nodes, links, obj>> /\ pc[Client] = "dl_disc" /\ ~Fails("dl_disc")
      /\ Goto(Client, "dl_remove", loc[Client])
  BY DEF DlDisconnect, tableVars, NetworkCallsSucceed, Fails
<1>2. pc[Client] \in DeleteLinkLabel /\ loc[Client] \in Local /\ "dl_remove" \in DeleteLinkLabel
  BY <1>1, AtWork DEF DeleteLinkLabel
<1>3. PICK l : l = loc[Client]
  OBVIOUS
<1>4. /\ DeleteSound(pc[Client], l) /\ net[l.pr].nid = l.nid /\ l.nid # NoId
      /\ l.pr \in Pair /\ links[l.pr] # NoId
  <2>1. DeleteSound(pc[Client], l) /\ l.pr \in Pair /\ l.lid \in Id
    BY <1>2, <1>3, AtWork, LabelKinds DEF LocalOK
  <2>2. l.lid # NoId
    BY <2>1, BoundAssumption DEF Id, Boot, NoId
  <2> QED
    BY <1>1, <2>1, <2>2 DEF DeleteSound, RemovalSound
<1>5. \A s \in Side : l.ref[s].named
  <2>1. \A s \in Side : At(l.pr, s) \in Ends(l.pr) /\ At(l.pr, s) \in Node
    BY <1>4, PairAssumption DEF At, Ends
  <2>2. \A n \in Ends(l.pr) : Present(n) /\ ~Creates(n)
    BY <1>4 DEF Sound, EndsSound, LinkNames
  <2>3. \A s \in Side : nodes[At(l.pr, s)].ref.named
    BY <2>1, <2>2 DEF Sound, NodeSound
  <2> QED
    BY <1>4, <2>3 DEF DeleteSound, SameRefs
<1>6. {At(l.pr, s) : s \in {x \in Side : l.ref[x].named}} = Ends(l.pr)
  BY <1>5 DEF Ends, At, Side
<1>7. net' = Disconnected(l.pr, l.nid, Ends(l.pr))
  BY <1>1, <1>3, <1>6 DEF DlDisconnect
<1>8. net \in [Pair -> Network] /\ NetsApart
  BY DEF IInv, TypeOK, Sound
<1>9. /\ net'[l.pr].nid = net[l.pr].nid /\ net'[l.pr].sub = net[l.pr].sub /\ net'[l.pr].att = {}
      /\ \A qr \in Pair : qr # l.pr => net'[qr] = net[qr]
  BY <1>4, <1>7, <1>8 DEF Disconnected, Network, NetsApart
<1>10. \A qr \in Pair : Lasts(qr) /\ NetKept(qr)
  BY <1>4, <1>8, <1>9 DEF NetKept, Lasts, NetsApart
<1>11. RemovalSound("dl_remove", l)'
  BY <1>4, <1>9 DEF RemovalSound
<1> QED
  BY <1>1, <1>2, <1>3, <1>8, <1>10, <1>11, ApartLasts, RemovalStepSound DEF SameKeys

\* network.remove(): nothing is attached any more.
LEMMA DlRemoveSound ==
  ASSUME IInv, Sound, OneClient, NetworkCallsSucceed, DlRemove(Client)
  PROVE  Sound'
<1>1. UNCHANGED <<nodes, links, obj>> /\ pc[Client] = "dl_remove"
      /\ ~Fails("dl_remove") /\ ~ReplyLost("dl_remove")
  BY DEF DlRemove, tableVars, NetworkCallsSucceed, Fails, ReplyLost
<1>2. pc[Client] \in DeleteLinkLabel /\ loc[Client] \in Local /\ "dl_finish" \in DeleteLinkLabel
  BY <1>1, AtWork DEF DeleteLinkLabel
<1>3. PICK l : l = loc[Client]
  OBVIOUS
<1>4. l.pr \in Pair /\ net[l.pr].nid = l.nid /\ net[l.pr].att = {}
  BY <1>1, <1>2, <1>3, AtWork, LabelKinds DEF DeleteSound, RemovalSound
<1>5. net' = [net EXCEPT ![l.pr] = NoNetwork] /\ Goto(Client, "dl_finish", l)
  BY <1>1, <1>3, <1>4 DEF DlRemove
<1>6. net \in [Pair -> Network] /\ NetsApart
  BY DEF IInv, TypeOK, Sound
<1>7. net'[l.pr] = NoNetwork /\ \A qr \in Pair : qr # l.pr => net'[qr] = net[qr]
  BY <1>4, <1>5, <1>6
<1>8. \A qr \in Pair : Lasts(qr) /\ (qr # l.pr => NetKept(qr))
  BY <1>6, <1>7 DEF NetKept, Lasts, NetsApart, NoNetwork
<1>9. RemovalSound("dl_finish", l)'
  BY <1>7 DEF RemovalSound, NotOurs, NoNetwork
<1> QED
  BY <1>1, <1>2, <1>3, <1>5, <1>6, <1>8, <1>9, ApartLasts, RemovalStepSound DEF SameKeys

-----------------------------------------------------------------------------
(* Steps that are not about a link                                         *)

\* A step outside create_link and delete_link that changes no addresses of links.
LEMMA NodeStepSound ==
  ASSUME IInv, Sound, OneClient, UNCHANGED <<links, obj>>, \A pr \in Pair : NetKept(pr),
         pc[Client] \notin LinkLabel, NEW label, label \notin LinkLabel, NEW l, Goto(Client, label, l),
         \A n \in Node : NodeSound(n)', EndsSound',
         \A pr \in Pair : \A n \in Ends(pr) : pr \in nodes'[n].ips <=> pr \in nodes[n].ips,
         RemoveSound(label, l)'
  PROVE  Sound'
<1>1. pc'[Client] = label /\ loc'[Client] = l
  BY Went
<1>2. NetsApart'
  BY ApartLasts DEF NetKept, Lasts, Sound, NetsApart
<1>3. CallSound'
  BY <1>1, LabelKinds DEF CallSound, RemoveSound
<1>4. ASSUME NEW pr \in Pair PROVE Settled(pr)'
  <2>1. Settled(pr)
    BY DEF Sound, WorksOn
  <2> QED
    BY <2>1 DEF Settled, OnNetwork, NotOurs, NetKept
<1> QED
  BY <1>2, <1>3, <1>4 DEF Sound, ObjectsApart, LinkNames

\* One that leaves the nodes alone as well, and creates no other node.
LEMMA QuietNodeStep ==
  ASSUME IInv, Sound, OneClient, UNCHANGED <<nodes, links, obj>>, \A pr \in Pair : NetKept(pr),
         pc[Client] \notin LinkLabel, NEW label, label \notin LinkLabel, NEW l, Goto(Client, label, l),
         label \in CreateNodeLabel <=> pc[Client] \in CreateNodeLabel,
         label \in CreateNodeLabel => l.n = loc[Client].n,
         RemoveSound(label, l)'
  PROVE  Sound'
<1>1. pc'[Client] = label /\ loc'[Client] = l
  BY Went
<1>2. \A n \in Node : (Creates(n)' <=> Creates(n)) /\ (Present(n)' <=> Present(n))
  BY <1>1 DEF Creates, Present
<1>3. \A n \in Node : NodeSound(n)'
  BY <1>2 DEF Sound, NodeSound
<1>4. EndsSound'
  <2>1. \A pr \in Pair : Ends(pr) \subseteq Node
    BY PairAssumption DEF Ends
  <2> QED
    BY <1>2, <2>1 DEF Sound, EndsSound, LinkNames
<1> QED
  BY <1>3, <1>4, NodeStepSound

\* A node that is no end of a link may be replaced in the table.
LEMMA NodeReplaced ==
  ASSUME IInv, Sound, OneClient, UNCHANGED <<links, obj, net>>, pc[Client] \notin LinkLabel,
         NEW n \in Node, NEW v, v.ips = {}, nodes' = [nodes EXCEPT ![n] = v],
         \A pr \in LinkNames : n \notin Ends(pr),
         NEW label, label \notin LinkLabel, NEW l, Goto(Client, label, l),
         label \in CreateNodeLabel => l.n = n,
         pc[Client] \in CreateNodeLabel => loc[Client].n = n,
         v.st # "absent" => v.ref.named \/ label \in CreateNodeLabel,
         RemoveSound(label, l)'
  PROVE  Sound'
<1>1. pc'[Client] = label /\ loc'[Client] = l
  BY Went
<1>2. nodes'[n] = v /\ \A m \in Node \ {n} : nodes'[m] = nodes[m]
  BY DEF IInv, TypeOK
<1>3. \A m \in Node \ {n} : ~Creates(m)' /\ ~Creates(m) /\ (Present(m)' <=> Present(m))
  BY <1>1, <1>2 DEF Creates, Present
<1>4. ASSUME NEW m \in Node PROVE NodeSound(m)'
  <2>1. CASE m = n
    BY <1>1, <1>2, <2>1 DEF NodeSound, Present, Creates
  <2>2. CASE m # n
    <3>1. NodeSound(m)
      BY DEF Sound
    <3> QED
      BY <1>2, <1>3, <2>2, <3>1 DEF NodeSound
  <2> QED
    BY <2>1, <2>2
<1>5. EndsSound'
  <2>1. \A pr \in LinkNames : Ends(pr) \subseteq Node \ {n}
    BY PairAssumption DEF Ends, LinkNames
  <2>2. LinkNames' = LinkNames
    BY DEF LinkNames
  <2> QED
    BY <1>3, <2>1, <2>2 DEF Sound, EndsSound
<1>6. ASSUME NEW pr \in Pair, NEW m \in Ends(pr) PROVE pr \in nodes'[m].ips <=> pr \in nodes[m].ips
  <2>1. CASE m = n
    <3>1. links[pr] = NoId
      BY <1>6, <2>1 DEF LinkNames
    <3>2. pr \notin nodes[m].ips
      BY <3>1 DEF Sound, Settled, WorksOn
    <3> QED
      BY <1>2, <2>1, <3>2
  <2>2. CASE m # n
    <3>1. m \in Node \ {n}
      BY <2>2, PairAssumption DEF Ends
    <3> QED
      BY <1>2, <3>1
  <2> QED
    BY <2>1, <2>2
<1>7. \A pr \in Pair : NetKept(pr)
  BY DEF NetKept
<1> QED
  BY <1>4, <1>5, <1>6, <1>7, NodeStepSound

\* The steps of create_node before its end.
LEMMA MakingSound ==
  ASSUME IInv, Sound, OneClient,
         CnStale(Client) \/ CnDir(Client) \/ CnRun(Client) \/ CnCheck(Client) \/ CnUndo(Client)
  PROVE  Sound'
<1>1. /\ UNCHANGED <<nodes, links, obj>> /\ pc[Client] \in CreateNodeLabel
      /\ UNCHANGED net \/ \E n \in Node : net' = DetachedEverywhere(n)
  <2>1. loc[Client].n \in Node \/ pc[Client] \notin CreateNodeLabel
    BY AtWork DEF LocalOK, NodeLabel
  <2> QED
    BY <2>1 DEF CnStale, CnDir, CnRun, CnCheck, CnUndo, tableVars, dockerVars, RemoveContainer, CreateNodeLabel
<1>2. \A pr \in Pair : NetKept(pr)
  BY <1>1, NetsKept
<1>3. loc[Client] \in Local /\ loc[Client].call # "delete_node"
  <2>1. pc[Client] \notin DeleteLabel
    BY <1>1, LabelKinds DEF DeleteLabel, CreateNodeLabel, DeleteLinkLabel
  <2> QED
    BY <2>1, AtWork DEF LocalOK
<1>4. PICK label, l : /\ Goto(Client, label, l) /\ label \in CreateNodeLabel
                      /\ l.n = loc[Client].n /\ l.call = loc[Client].call
  <2>1. CASE CnRaise(Client)
    BY <2>1 DEF CnRaise, CreateNodeLabel
  <2>2. CASE CnStale(Client) \/ CnUndo(Client)
    BY <2>1, <2>2 DEF CnStale, CnUndo, CreateNodeLabel
  <2>3. CASE CnDir(Client)
    <3>1. [loc[Client] EXCEPT !.dir = TRUE].n = loc[Client].n
          /\ [loc[Client] EXCEPT !.dir = TRUE].call = loc[Client].call
      BY <1>3 DEF Local
    <3> QED
      BY <2>1, <2>3, <3>1 DEF CnDir, CreateNodeLabel
  <2>4. CASE CnRun(Client)
    <3>1. PICK k : k = [loc[Client] EXCEPT !.cid["a"] = loc[Client].op]
      OBVIOUS
    <3>2. k.n = loc[Client].n /\ k.call = loc[Client].call
      BY <1>3, <3>1 DEF Local
    <3> QED
      BY <2>1, <2>4, <3>1, <3>2 DEF CnRun, CreateNodeLabel
  <2>5. CASE CnCheck(Client)
    <3>1. CnRaise(Client) \/ \E st : Goto(Client, "cn_commit", [loc[Client] EXCEPT !.st = st])
      BY <2>5 DEF CnCheck
    <3>2. ASSUME NEW st, Goto(Client, "cn_commit", [loc[Client] EXCEPT !.st = st])
          PROVE  \E label, l : /\ Goto(Client, label, l) /\ label \in CreateNodeLabel
                               /\ l.n = loc[Client].n /\ l.call = loc[Client].call
      <4>1. PICK k : k = [loc[Client] EXCEPT !.st = st]
        OBVIOUS
      <4>2. k.n = loc[Client].n /\ k.call = loc[Client].call
        BY <1>3, <4>1 DEF Local
      <4>3. Goto(Client, "cn_commit", k) /\ "cn_commit" \in CreateNodeLabel
        BY <3>2, <4>1 DEF CreateNodeLabel
      <4> QED
        BY <4>2, <4>3
    <3> QED
      BY <2>1, <3>1, <3>2
  <2> QED
    BY <2>2, <2>3, <2>4, <2>5
<1>5. RemoveSound(label, l)'
  BY <1>3, <1>4 DEF RemoveSound
<1>6. pc[Client] \notin LinkLabel /\ label \notin LinkLabel
  BY <1>1, <1>4, LabelKinds
<1> QED
  BY <1>1, <1>2, <1>4, <1>5, <1>6, QuietNodeStep

\* The locked ends of create_node and delete_node.
LEMMA NodeEndsSound ==
  ASSUME IInv, Sound, OneClient, CnCommit(Client) \/ CnUnreserve(Client) \/ DnFinish(Client)
  PROVE  Sound'
<1>1. UNCHANGED <<links, obj, net>> /\ pc[Client] \in NodeLabel /\ pc[Client] \notin LinkLabel
      /\ Finish(Client)
  BY DEF CnCommit, CnUnreserve, DnFinish, nodeOpUnchanged, dockerVars, NodeLabel, LinkLabel,
     CreateLinkLabel, DeleteLinkLabel, CreateNodeLabel, DeleteNodeLabel
<1>2. PICK n : n = loc[Client].n /\ n \in Node
  BY <1>1, AtWork DEF LocalOK
<1>3. PICK v : /\ nodes' = [nodes EXCEPT ![n] = v] /\ v.ips = {}
               /\ v.st # "absent" => v.ref.named
  BY <1>2 DEF CnCommit, CnUnreserve, DnFinish, NoNode, NoRef
<1>4. \A pr \in LinkNames : n \notin Ends(pr)
  <2>1. CASE pc[Client] \in CreateNodeLabel
    <3>1. Creates(n)
      BY <1>2, <2>1 DEF Creates
    <3> QED
      BY <3>1 DEF Sound, EndsSound
  <2>2. CASE pc[Client] = "dn_finish"
    <3>1. loc[Client].call = "delete_node"
      BY <2>2, AtWork DEF LocalOK, DeleteNodeLabel
    <3>2. ConnectedLinks(n) = {}
      BY <1>2, <2>2, <3>1, AtWork DEF RemoveSound
    <3> QED
      BY <3>2 DEF ConnectedLinks
  <2> QED
    BY <2>1, <2>2 DEF CnCommit, CnUnreserve, DnFinish, CreateNodeLabel
<1>5. Goto(Client, "idle", NoLocal) /\ RemoveSound("idle", NoLocal)'
  BY <1>1 DEF Finish, RemoveSound, NoLocal
<1>6. "idle" \notin LinkLabel /\ "idle" \notin CreateNodeLabel
  BY LabelKinds
<1> HIDE DEF NoLocal
<1> QED
  BY <1>1, <1>2, <1>3, <1>4, <1>5, <1>6, NodeReplaced

\* The container of the node goes.
LEMMA DnContainerSound ==
  ASSUME IInv, Sound, OneClient, DnContainer(Client)
  PROVE  Sound'
<1>1. pc[Client] = "dn_ctr" /\ UNCHANGED <<nodes, links, obj>>
  BY DEF DnContainer, tableVars
<1>2. loc[Client].n \in Node /\ loc[Client].call = "delete_node"
  BY <1>1, AtWork DEF LocalOK, DeleteNodeLabel, NodeLabel
<1>3. \A pr \in Pair : NetKept(pr)
  BY <1>2, NetsKept DEF DnContainer, RemoveContainer, dockerVars
<1>4. PICK n : n = loc[Client].n
  OBVIOUS
<1>5. ConnectedLinks(n)' = {}
  <2>1. ConnectedLinks(n) = {}
    BY <1>1, <1>2, <1>4, AtWork DEF RemoveSound
  <2> QED
    BY <1>1, <2>1 DEF ConnectedLinks, LinkNames
<1>6. pc[Client] \notin LinkLabel /\ pc[Client] \notin CreateNodeLabel
      /\ \A label \in {"idle", "dn_finish"} : label \notin LinkLabel /\ label \notin CreateNodeLabel
  BY <1>1, LabelKinds
<1>7. CASE Finish(Client)
  <2>1. Goto(Client, "idle", NoLocal) /\ RemoveSound("idle", NoLocal)'
    BY <1>7 DEF Finish, RemoveSound, NoLocal
  <2> HIDE DEF NoLocal
  <2> QED
    BY <1>1, <1>3, <1>6, <2>1, QuietNodeStep
<1>8. CASE Goto(Client, "dn_finish", loc[Client])
  <2>1. PICK l : l = loc[Client]
    OBVIOUS
  <2>2. RemoveSound("dn_finish", l)'
    BY <1>4, <1>5, <1>6, <2>1 DEF RemoveSound, DeleteLinkLabel
  <2> QED
    BY <1>1, <1>3, <1>6, <1>8, <2>1, <2>2, QuietNodeStep
<1> QED
  BY <1>7, <1>8 DEF DnContainer

\* The locked lookup of delete_link.
LEMMA VictimSound ==
  ASSUME IInv, Sound, OneClient, UNCHANGED <<nodes, links, obj, net>>,
         pc[Client] \notin LinkLabel, pc[Client] \notin CreateNodeLabel,
         NEW m \in Local, NEW pr \in Pair, links[pr] # NoId, Goto(Client, "dl_ion", Victim(m, pr)),
         m.call = "delete_node" => ConnectedLinks(m.n) \subseteq m.todo \union {pr}
  PROVE  Sound'
<1>1. PICK r : r = [s \in Side |-> nodes[At(pr, s)].ref]
  OBVIOUS
<1>2. PICK l : l = [m EXCEPT !.pr = pr, !.lid = links[pr], !.side = "a", !.nid = NoId, !.ref = r]
  OBVIOUS
<1>3. l = Victim(m, pr)
  BY <1>1, <1>2 DEF Victim
<1>4. l.pr = pr /\ l.lid = links[pr] /\ l.ref = r /\ l.call = m.call /\ l.n = m.n /\ l.todo = m.todo
  BY <1>2 DEF Local
<1>5. pc'[Client] = "dl_ion" /\ loc'[Client] = l /\ "dl_ion" \in DeleteLinkLabel
      /\ "dl_ion" \in LinkLabel /\ "dl_ion" \notin CreateLinkLabel
  BY <1>3, Went, LabelKinds DEF DeleteLinkLabel
<1>6. Settled(pr)
  BY DEF Sound, WorksOn
<1>7. DeleteSound("dl_ion", l)'
  <2>1. SameRefs(l)'
    BY <1>1, <1>4 DEF SameRefs
  <2> QED
    BY <1>4, <1>6, <2>1 DEF DeleteSound, RemovalSound, Settled, OnNetwork
<1>8. RemoveSound("dl_ion", l)'
  BY <1>4 DEF RemoveSound, ConnectedLinks, LinkNames
<1>9. CallSound'
  BY <1>5, <1>7, <1>8 DEF CallSound, DeleteSound, RemovalSound, RemoveSound
<1>10. \A n \in Node : Creates(n)' <=> Creates(n)
  BY <1>5, LabelKinds DEF Creates
<1>11. (\A n \in Node : NodeSound(n)') /\ EndsSound'
  <2>1. \A n \in Node : Present(n)' <=> Present(n)
    BY DEF Present
  <2>2. \A x \in Pair : Ends(x) \subseteq Node
    BY PairAssumption DEF Ends
  <2>3. \A n \in Node : NodeSound(n)'
    BY <1>10, <2>1 DEF Sound, NodeSound
  <2>4. EndsSound'
    BY <1>10, <2>1, <2>2 DEF Sound, EndsSound, LinkNames
  <2> QED
    BY <2>3, <2>4
<1>12. NetsApart' /\ ObjectsApart'
  BY DEF Sound, NetsApart, ObjectsApart, LinkNames
<1>13. \A x \in Pair : Settled(x)'
  <2>1. \A x \in Pair : NetKept(x) /\ Settled(x)
    BY DEF NetKept, Sound, WorksOn
  <2> QED
    BY <2>1, SettledStays
<1> QED
  BY <1>9, <1>11, <1>12, <1>13 DEF Sound

\* delete_node goes to its next link, or to its container.
LEMMA DnNextSound ==
  ASSUME IInv, Sound, OneClient, DnNext(Client)
  PROVE  Sound'
<1>1. pc[Client] = "dn_next" /\ UNCHANGED <<nodes, links, obj, net>>
  BY DEF DnNext, tableVars, dockerVars
<1>2. loc[Client] \in Local /\ loc[Client].n \in Node /\ loc[Client].call = "delete_node"
  BY <1>1, AtWork DEF LocalOK, DeleteNodeLabel, NodeLabel
<1>3. PICK n, t, m : n = loc[Client].n /\ t = loc[Client].todo /\ m = loc[Client] /\ t \subseteq Pair
  BY <1>2 DEF Local
<1>4. ConnectedLinks(n) \subseteq t
  BY <1>1, <1>2, <1>3, AtWork DEF RemoveSound
<1>5. pc[Client] \notin LinkLabel /\ pc[Client] \notin CreateNodeLabel
      /\ \A label \in {"dn_next", "dn_ctr"} : label \notin LinkLabel /\ label \notin CreateNodeLabel
                                             /\ label \notin DeleteLinkLabel
  BY <1>1, LabelKinds
<1>6. \A pr \in Pair : NetKept(pr)
  BY <1>1 DEF NetKept
<1>7. CASE t = {} /\ Goto(Client, "dn_ctr", m)
  <2>1. RemoveSound("dn_ctr", m)'
    BY <1>1, <1>3, <1>4, <1>5, <1>7 DEF RemoveSound, ConnectedLinks, LinkNames
  <2> QED
    BY <1>1, <1>5, <1>6, <1>7, <2>1, QuietNodeStep
<1>8. ASSUME NEW pr \in t,
             LET rest == [m EXCEPT !.todo = @ \ {pr}]
             IN \/ links[pr] # NoId /\ Goto(Client, "dl_ion", Victim(rest, pr))
                \/ links[pr] = NoId /\ Goto(Client, "dn_next", rest)
      PROVE  Sound'
  <2>1. PICK l : l = [m EXCEPT !.todo = t \ {pr}]
    OBVIOUS
  <2>2. l \in Local /\ l.todo = t \ {pr} /\ l.n = n /\ l.call = "delete_node"
    BY <1>2, <1>3, <2>1 DEF Local
  <2>3. \/ links[pr] # NoId /\ Goto(Client, "dl_ion", Victim(l, pr))
        \/ links[pr] = NoId /\ Goto(Client, "dn_next", l)
    BY <1>3, <1>8, <2>1
  <2>4. CASE links[pr] # NoId /\ Goto(Client, "dl_ion", Victim(l, pr))
    BY <1>1, <1>3, <1>4, <1>5, <2>2, <2>4, VictimSound
  <2>5. CASE links[pr] = NoId /\ Goto(Client, "dn_next", l)
    <3>1. RemoveSound("dn_next", l)'
      BY <1>1, <1>4, <1>5, <2>2, <2>5 DEF RemoveSound, ConnectedLinks, LinkNames
    <3> QED
      BY <1>1, <1>5, <1>6, <2>5, <3>1, QuietNodeStep
  <2> QED
    BY <2>3, <2>4, <2>5
<1> QED
  BY <1>3, <1>7, <1>8 DEF DnNext

-----------------------------------------------------------------------------
(* Calls, and what happens without one                                      *)

\* The reservation of create_link.
LEMMA LinkReserved ==
  ASSUME IInv, OnlyPast, Sound, OneClient, NEW pr \in Pair, NEW cl \in CL,
         CreateLink(Client, pr, cl), ~Exhausted(pool)
  PROVE  Sound'
<1>1. /\ UNCHANGED <<nodes, net>> /\ pc[Client] = "idle" /\ started < MaxOps /\ links[pr] = NoId
      /\ \A n \in Ends(pr) : Present(n)
  BY DEF CreateLink, Begin, nodeTables, dockerVars
<1>2. PICK i, x, r : i = NewId /\ x = Issued(pool) /\ r = [s \in Side |-> nodes[At(pr, s)].ref]
  OBVIOUS
<1>3. PICK m, l : m = NoLocal /\ l = [m EXCEPT !.op = i, !.call = "create_link", !.pr = pr,
                                               !.cl = cl, !.idx = x, !.ref = r]
  OBVIOUS
<1>4. /\ links' = [links EXCEPT ![pr] = i]
      /\ obj' = [obj EXCEPT ![i] = [idx |-> x, named |-> FALSE, nid |-> NoId, cl |-> cl, st |-> "down"]]
      /\ Goto(Client, "cl_get", l)
  BY <1>2, <1>3 DEF CreateLink
<1>5. m \in Local /\ m.made = FALSE
  BY <1>3, NeutralTypes DEF NoLocal
<1>6. l.pr = pr /\ l.op = i /\ l.cl = cl /\ l.ref = r /\ l.call = "create_link" /\ l.made = FALSE
  BY <1>3, <1>5 DEF Local
<1>7. i \in Id /\ i # NoId
  BY <1>1, <1>2, NewIdIsId DEF IInv
<1>8. /\ links'[pr] = i /\ \A qr \in Pair \ {pr} : links'[qr] = links[qr]
      /\ obj'[i].cl = cl /\ \A j \in Id \ {i} : obj'[j] = obj[j]
  BY <1>4, <1>7 DEF IInv, TypeOK
<1>9. \A qr \in Pair : links[qr] # i /\ links[qr] \in Id \union {NoId}
  <2>1. links \in [Pair -> Id \union {NoId}] /\ started \in Nat
    BY BoundAssumption DEF IInv, TypeOK
  <2>2. ASSUME NEW qr \in Pair PROVE links[qr] # i
    <3>1. links[qr] \in Nat /\ links[qr] <= started + 1
      BY <2>1, BoundAssumption DEF OnlyPast, Id, Boot, NoId
    <3> QED
      BY <1>2, <2>1, <3>1 DEF NewId
  <2> QED
    BY <2>1, <2>2
<1>10. pc'[Client] = "cl_get" /\ loc'[Client] = l /\ "cl_get" \in CreateLinkLabel
       /\ "cl_get" \in LinkLabel /\ "cl_get" \notin DeleteLinkLabel /\ "cl_get" \notin CreateNodeLabel
  BY <1>4, Went, LabelKinds DEF CreateLinkLabel
<1>11. \A n \in Node : ~Creates(n)' /\ ~Creates(n) /\ (Present(n)' <=> Present(n))
  BY <1>1, <1>10, LabelKinds DEF Creates, Present
<1>12. \A n \in Node : NodeSound(n)'
  BY <1>1, <1>11 DEF Sound, NodeSound
<1>13. EndsSound'
  <2>1. \A qr \in LinkNames' : qr \in Pair /\ (qr = pr \/ qr \in LinkNames)
    BY <1>8 DEF LinkNames
  <2>2. \A qr \in Pair : Ends(qr) \subseteq Node
    BY PairAssumption DEF Ends
  <2>3. ASSUME NEW qr \in LinkNames', NEW n \in Ends(qr) PROVE Present(n)
    BY <1>1, <2>1, <2>3 DEF Sound, EndsSound
  <2> QED
    BY <1>11, <2>1, <2>2, <2>3 DEF EndsSound
<1>14. NetsApart' /\ ObjectsApart'
  BY <1>1, <1>8, <1>9 DEF Sound, NetsApart, ObjectsApart, LinkNames
<1>15. WorksOn(pr)' /\ \A qr \in Pair : Settled(qr)
  BY <1>1, <1>6, <1>10, LabelKinds DEF WorksOn, Sound
<1>16. BuildSound("cl_get", l)'
  <2>1. SameRefs(l)'
    BY <1>1, <1>2, <1>6 DEF SameRefs
  <2>2. NetworkSound("cl_get", l)'
    BY <1>1, <1>6, <1>15 DEF NetworkSound, Settled, NotOurs
  <2>3. \A n \in Ends(pr) : pr \notin nodes'[n].ips
    BY <1>1, <1>15 DEF Settled
  <2> QED
    BY <1>6, <1>8, <2>1, <2>2, <2>3 DEF BuildSound
<1>17. CallSound'
  BY <1>6, <1>10, <1>16 DEF CallSound, BuildSound, NetworkSound, RemoveSound
<1>18. ASSUME NEW qr \in Pair, qr # pr PROVE Settled(qr)'
  BY <1>1, <1>8, <1>9, <1>15, <1>18 DEF Settled, OnNetwork, NotOurs
<1> QED
  BY <1>12, <1>13, <1>14, <1>15, <1>17, <1>18 DEF Sound

\* What leaves tables and threads alone: networks lose endpoints, or another
\* writer makes one that is not there.
LEMMA StillSound ==
  ASSUME IInv, Sound, OneClient, UNCHANGED <<nodes, links, obj, pc, loc>>, NetsApart',
         \A pr \in Pair : NetKept(pr) \/ (net[pr].nid = NoId /\ net'[pr].nid = Boot)
  PROVE  Sound'
<1>1. (\A n \in Node : NodeSound(n)') /\ EndsSound' /\ ObjectsApart'
  BY DEF Sound, NodeSound, EndsSound, ObjectsApart, LinkNames, Present, Creates
<1>2. PICK l, label : l = loc[Client] /\ label = pc[Client]
  OBVIOUS
<1>3. label \in LinkLabel => NetKept(l.pr) \/ (net[l.pr].nid = NoId /\ net'[l.pr].nid = Boot)
  BY <1>2, AtWork
<1>4. Boot # NoId
  BY DEF Boot, NoId
<1>5. ASSUME label \in CreateLinkLabel PROVE BuildSound(label, l)'
  <2>1. BuildSound(label, l) /\ label \in LinkLabel /\ l.op \in Id
    BY <1>2, <1>5, AtWork, LabelKinds DEF LocalOK
  <2>2. l.op # NoId
    BY <2>1, BoundAssumption DEF Id, Boot, NoId
  <2>3. NetworkSound(label, l)'
    <3>1. CASE NetKept(l.pr)
      BY <2>1, <3>1 DEF BuildSound, NetworkSound, Has, NotOurs, NetKept
    <3>2. CASE net[l.pr].nid = NoId /\ net'[l.pr].nid = Boot
      BY <1>4, <2>1, <2>2, <3>2 DEF BuildSound, NetworkSound, Has, NotOurs
    <3> QED
      BY <1>3, <2>1, <3>1, <3>2
  <2> QED
    BY <2>1, <2>3 DEF BuildSound, SameRefs
<1>6. ASSUME label \in DeleteLinkLabel PROVE DeleteSound(label, l)'
  <2>1. DeleteSound(label, l) /\ label \in LinkLabel
    BY <1>2, <1>6, AtWork, LabelKinds
  <2>2. RemovalSound(label, l)'
    <3>1. CASE NetKept(l.pr)
      BY <2>1, <3>1 DEF DeleteSound, RemovalSound, OnNetwork, NotOurs, NetKept
    <3>2. CASE net[l.pr].nid = NoId /\ net'[l.pr].nid = Boot
      BY <1>4, <2>1, <3>2 DEF DeleteSound, RemovalSound, OnNetwork, NotOurs
    <3> QED
      BY <1>3, <2>1, <3>1, <3>2
  <2> QED
    BY <2>1, <2>2 DEF DeleteSound, SameRefs
<1>7. RemoveSound(label, l)'
  BY <1>2, AtWork DEF RemoveSound, ConnectedLinks, LinkNames
<1>8. CallSound'
  BY <1>2, <1>5, <1>6, <1>7 DEF CallSound, BuildSound, DeleteSound, RemoveSound, NetworkSound, RemovalSound
<1>9. ASSUME NEW pr \in Pair, ~WorksOn(pr)' PROVE Settled(pr)'
  <2>1. Settled(pr)
    BY <1>9 DEF Sound, WorksOn
  <2>2. CASE NetKept(pr)
    BY <2>1, <2>2, SettledStays
  <2>3. CASE net[pr].nid = NoId /\ net'[pr].nid = Boot
    BY <1>4, <2>1, <2>3 DEF Settled, OnNetwork, NotOurs
  <2> QED
    BY <2>2, <2>3
<1> QED
  BY <1>1, <1>8, <1>9 DEF Sound

\* A container stops, or another writer makes a network.
LEMMA EnvironmentSound ==
  ASSUME IInv, Sound, OneClient,
         \/ \E n \in Node : ContainerExits(n)
         \/ \E pr \in Pair, idx \in Index : OtherWriter(pr, idx)
  PROVE  Sound'
<1>1. UNCHANGED <<nodes, links, obj, pc, loc>>
  BY DEF ContainerExits, OtherWriter, tableVars
<1>2. CASE \E n \in Node : ContainerExits(n)
  <2>1. \A pr \in Pair : NetKept(pr)
    BY <1>2, NetsKept DEF ContainerExits
  <2>2. NetsApart'
    BY <2>1, ApartLasts DEF NetKept, Lasts, Sound, NetsApart
  <2> QED
    BY <1>1, <2>1, <2>2, StillSound
<1>3. ASSUME NEW pr \in Pair, NEW idx \in Index, OtherWriter(pr, idx) PROVE Sound'
  <2>1. net[pr].nid = NoId /\ \A qr \in Pair : net[qr].nid # NoId => net[qr].sub # idx
    BY <1>3 DEF OtherWriter, Overlaps
  <2>2. net'[pr] = [nid |-> Boot, sub |-> idx, att |-> {}] /\ \A qr \in Pair \ {pr} : net'[qr] = net[qr]
    BY <1>3 DEF OtherWriter, IInv, TypeOK
  <2>3. NetsApart'
    <3>1. NetsApart
      BY DEF Sound
    <3>2. ASSUME NEW qr \in Pair, NEW rr \in Pair, net'[qr].nid # NoId, net'[rr].nid # NoId,
                 net'[qr].sub = net'[rr].sub
          PROVE  qr = rr
      BY <2>1, <2>2, <3>1, <3>2 DEF NetsApart
    <3>3. \A qr \in Pair : net'[qr].att \subseteq Ends(qr)
      BY <2>2, <3>1 DEF NetsApart
    <3> QED
      BY <3>2, <3>3 DEF NetsApart
  <2>4. \A qr \in Pair : NetKept(qr) \/ (net[qr].nid = NoId /\ net'[qr].nid = Boot)
    BY <2>1, <2>2 DEF NetKept
  <2> QED
    BY <1>1, <2>3, <2>4, StillSound
<1> QED
  BY <1>2, <1>3

\* The calls of the client.
LEMMA CallsSound ==
  ASSUME IInv, OnlyPast, Sound, OneClient, Call(Client)
  PROVE  Sound'
<1>1. pc[Client] = "idle" /\ "idle" \notin LinkLabel /\ "idle" \notin CreateNodeLabel
      /\ \A pr \in Pair : UNCHANGED net => NetKept(pr)
  BY LabelKinds DEF Call, LinkCall, NodeCall, CreateLink, DeleteLink, CreateNode, DeleteNode, Begin, NetKept
<1>2. ASSUME NEW pr \in Pair, NEW cl \in CL, CreateLink(Client, pr, cl) PROVE Sound'
  <2>1. CASE Exhausted(pool)
    <3>1. UNCHANGED <<nodes, links, obj, pc, loc, net>>
      BY <1>2, <2>1 DEF CreateLink, nodeTables, dockerVars
    <3>2. NetsApart'
      BY <3>1 DEF Sound, NetsApart
    <3> QED
      BY <1>1, <3>1, <3>2, StillSound
  <2> QED
    BY <1>2, <2>1, LinkReserved
<1>3. ASSUME NEW pr \in Pair, DeleteLink(Client, pr) PROVE Sound'
  <2>1. PICK m : m = [NoLocal EXCEPT !.call = "delete_link"]
    OBVIOUS
  <2>2. m \in Local /\ m.call = "delete_link"
    BY <2>1, NeutralTypes DEF Local, Operation
  <2>3. /\ Goto(Client, "dl_ion", Victim(m, pr)) /\ links[pr] # NoId
        /\ UNCHANGED <<nodes, links, obj, net>>
    BY <1>3, <2>1 DEF DeleteLink, tableVars, dockerVars
  <2> QED
    BY <1>1, <2>2, <2>3, VictimSound
<1>4. ASSUME NEW n \in Node, CreateNode(Client, n) PROVE Sound'
  <2>1. PICK m, i, l : m = NoLocal /\ i = NewId
                       /\ l = [m EXCEPT !.op = i, !.call = "create_node", !.n = n]
    OBVIOUS
  <2>2. l.n = n /\ l.call = "create_node"
    BY <2>1, NeutralTypes DEF Local
  <2>3. PICK v : v = [ref |-> [op |-> i, named |-> FALSE], st |-> "creating", ips |-> {}]
    OBVIOUS
  <2>4. /\ nodes' = [nodes EXCEPT ![n] = v] /\ Goto(Client, "cn_stale", l) /\ ~Present(n)
        /\ UNCHANGED <<links, obj, net>>
    BY <1>4, <2>1, <2>3 DEF CreateNode, nodeOpUnchanged, dockerVars
  <2>5. \A pr \in LinkNames : n \notin Ends(pr)
    BY <2>4 DEF Sound, EndsSound
  <2>6. "cn_stale" \in CreateNodeLabel /\ "cn_stale" \notin LinkLabel
    BY LabelKinds DEF CreateNodeLabel
  <2>7. RemoveSound("cn_stale", l)'
    BY <2>2 DEF RemoveSound
  <2>8. v.ips = {} /\ (v.st # "absent" => v.ref.named \/ "cn_stale" \in CreateNodeLabel)
    BY <2>3, <2>6
  <2> QED
    BY <1>1, <2>2, <2>4, <2>5, <2>6, <2>7, <2>8, NodeReplaced
<1>5. ASSUME NEW n \in Node, DeleteNode(Client, n) PROVE Sound'
  <2>1. PICK m, r, t : m = NoLocal /\ r = nodes[n].ref /\ t = ConnectedLinks(n)
    OBVIOUS
  <2>2. PICK l : l = [m EXCEPT !.call = "delete_node", !.n = n, !.me = r, !.todo = t]
    OBVIOUS
  <2>3. l.n = n /\ l.todo = t
    BY <2>1, <2>2, NeutralTypes DEF Local
  <2>4. Goto(Client, "dn_next", l) /\ UNCHANGED <<nodes, links, obj, net>>
    BY <1>5, <2>1, <2>2 DEF DeleteNode, tableVars, dockerVars
  <2>5. "dn_next" \notin LinkLabel /\ "dn_next" \notin CreateNodeLabel /\ "dn_next" \notin DeleteLinkLabel
    BY LabelKinds
  <2>6. RemoveSound("dn_next", l)'
    BY <2>1, <2>3, <2>4, <2>5 DEF RemoveSound, ConnectedLinks, LinkNames
  <2> QED
    BY <1>1, <2>4, <2>5, <2>6, QuietNodeStep
<1> QED
  BY <1>2, <1>3, <1>4, <1>5 DEF Call, LinkCall, NodeCall

\* The client is alone, and all it does is sound.
LEMMA NextKeepsSound ==
  ASSUME IInv, OnlyPast, Sound, OneClient, NetworkCallsSucceed, [Next]_vars
  PROVE  Sound'
<1>1. CASE UNCHANGED vars
  <2>1. NetsApart' /\ \A pr \in Pair : NetKept(pr)
    BY <1>1 DEF vars, Sound, NetsApart, NetKept
  <2> QED
    BY <1>1, <2>1, StillSound DEF vars
<1>2. ASSUME LinkStep(Client) PROVE Sound'
  <2>1. CASE \/ ClGet(Client) \/ ClNew(Client) \/ ClRace(Client) \/ ClAdopt(Client)
             \/ ClContainers(Client) \/ ClConnect(Client) \/ ClReady(Client) \/ ClConfig(Client)
    BY <2>1, ClGetSound, ClNewSound, LookupsSound, ClConnectSound, ClConfigSound
  <2>2. CASE ClCommit(Client) \/ ClUndo(Client) \/ ClUnnet(Client) \/ ClUnreserve(Client)
    BY <2>2, ClCommitSound, ClUndoSound, ClUnreserveSound
  <2>3. CASE \/ DlIon(Client) \/ DlGet(Client) \/ DlDisconnect(Client) \/ DlRemove(Client)
             \/ DlFinish(Client)
    BY <2>3, DlIonSound, DlGetSound, DlDisconnectSound, DlRemoveSound, DlFinishSound
  <2> QED
    BY <1>2, <2>1, <2>2, <2>3 DEF LinkStep
<1>3. ASSUME NodeStep(Client) PROVE Sound'
  BY <1>3, MakingSound, NodeEndsSound, DnNextSound, DnContainerSound DEF NodeStep
<1>4. \A p \in Proc : p = Client
  BY DEF OneClient
<1> QED
  BY <1>1, <1>2, <1>3, <1>4, CallsSound, EnvironmentSound DEF Next, Step

\* At the start there are no links and no networks, and no call is running.
LEMMA InitSound ==
  ASSUME Init, OneClient
  PROVE  Sound
<1>1. /\ pc[Client] = "idle" /\ loc[Client] = NoLocal
      /\ \A pr \in Pair : links[pr] = NoId /\ net[pr] = NoNetwork
      /\ \A n \in Node : nodes[n].ips = {} /\ (Present(n) => nodes[n].ref.named)
  BY DEF OneClient, Init, NoNode, Present
<1>2. LinkNames = {}
  BY <1>1 DEF LinkNames
<1>3. (\A n \in Node : NodeSound(n)) /\ EndsSound /\ ObjectsApart
  BY <1>1, <1>2 DEF NodeSound, EndsSound, ObjectsApart
<1>4. NetsApart
  BY <1>1 DEF NetsApart, NoNetwork
<1>5. CallSound
  BY <1>1, LabelKinds DEF CallSound, RemoveSound, NoLocal
<1>6. ASSUME NEW pr \in Pair PROVE Settled(pr)
  <2>1. Ends(pr) \subseteq Node
    BY PairAssumption DEF Ends
  <2> QED
    BY <1>1, <2>1 DEF Settled, NotOurs, NoNetwork
<1> QED
  BY <1>3, <1>4, <1>5, <1>6 DEF Sound

\* Both hold throughout.
LEMMA SoundHolds ==
  ASSUME OneClient, NetworkCallsSucceed
  PROVE  Spec => []Sound
<1> DEFINE Both == OnlyPast /\ Sound
<1>1. Init => Both
  BY InitSound, InitHasNoPlaceholder
<1>2. IInv /\ Both /\ [Next]_vars => Both'
  BY NextKeepsPast, NextKeepsSound
<1>3. Both => Sound
  OBVIOUS
<1> QED
  BY <1>1, <1>2, <1>3, InvariantHolds, PTL DEF Spec

\* Between the calls of a single client, both ends of each link are nodes: what
\* delete_node promises (docker_manager.py:340) needs only that the links it
\* deletes can be deleted.
THEOREM LinksKeepTheirNodes ==
  ASSUME OneClient, NetworkCallsSucceed
  PROVE  Spec => []LinksHaveNodes
<1>1. Sound => LinksHaveNodes
  BY DEF Sound, EndsSound, LinksHaveNodes
<1> QED
  BY <1>1, SoundHolds, PTL

\* Between the calls of a single client, each link has its network, on the subnet
\* of its index, and its address at both ends, and what was rolled back or
\* deleted has left none of them (docker_manager.py:453-487, 564-583).
THEOREM LinksAreOnTheirNetworks ==
  ASSUME OneClient, NetworkCallsSucceed
  PROVE  Spec => []LinksMatchDocker
<1>1. ASSUME Sound PROVE LinksMatchDocker
  <2>1. ASSUME Quiet, NEW pr \in Pair
        PROVE  /\ links[pr] = NoId => net[pr].nid \in {NoId, Boot}
               /\ links[pr] # NoId => /\ net[pr].nid = obj[links[pr]].nid
                                      /\ net[pr].sub = obj[links[pr]].idx
                                      /\ obj[links[pr]].st # "down"
               /\ \A n \in Ends(pr) : pr \in nodes[n].ips <=> (links[pr] # NoId /\ Present(n))
    <3>1. pc[Client] = "idle"
      BY <2>1 DEF Quiet, OneClient
    <3>2. Settled(pr)
      BY <1>1, <3>1, LabelKinds DEF Sound, WorksOn
    <3>3. links[pr] # NoId => \A n \in Ends(pr) : Present(n)
      BY <1>1 DEF Sound, EndsSound, LinkNames
    <3> QED
      BY <3>2, <3>3 DEF Settled, OnNetwork, NotOurs
  <2> QED
    BY <2>1 DEF LinksMatchDocker
<1> QED
  BY <1>1, SoundHolds, PTL

-----------------------------------------------------------------------------
(* ION                                                                     *)

\* The containers may have entries for side s of link pr.
MayHave(pr, s) ==
  /\ links[pr] # NoId
  /\ WorksOn(pr) =>
       \/ pc[Client] = "cl_config" /\ loc[Client].side = "b" /\ s = "a"
       \/ pc[Client] = "cl_commit"
       \/ pc[Client] = "dl_ion" /\ (loc[Client].side = "a" \/ s = "b")

DuctOf(pr, s) == <<net[pr].sub, Other(s), obj[links[pr]].cl>>

\* A plan is one that a link put there.
PlanOf(n, m, pr, s) ==
  /\ MayHave(pr, s) /\ At(pr, s) = n /\ At(pr, Other(s)) = m
  /\ ctr[n].plans[m] = DuctOf(pr, s)

PlansSound ==
  \A n, m \in Node : ctr[n].plans[m] # NoDuct => \E pr \in Pair, s \in Side : PlanOf(n, m, pr, s)

\* So is an outduct.
OutductOf(n, d, pr, s) == MayHave(pr, s) /\ At(pr, s) = n /\ d = DuctOf(pr, s)

DuctsSound ==
  \A n \in Node : \A d \in ctr[n].ducts : \E pr \in Pair, s \in Side : OutductOf(n, d, pr, s)

\* A container that is not running has no ION.
Blank(n) == ctr[n].ducts = {} /\ \A m \in Node : ctr[n].plans[m] = NoDuct
OffIsEmpty == \A n \in Node : ~ctr[n].up => Blank(n)

\* delete_link remembers the index from one side to the other.
Remembers == pc[Client] = "dl_ion" /\ loc[Client].side = "b" => loc[Client].idx = net[loc[Client].pr].sub

IonOf(pr, s) ==
  /\ ctr[At(pr, s)].plans[At(pr, Other(s))] = DuctOf(pr, s)
  /\ DuctOf(pr, s) \in ctr[At(pr, s)].ducts

\* An end of a link that runs is on its network, and has it in ION.
Joined(pr, s) == ctr[At(pr, s)].up => At(pr, s) \in net[pr].att
Served(pr, s) == ctr[At(pr, s)].up => IonOf(pr, s)

\* A link that is UP and that no call is about: each end that runs is configured.
UpSound(pr) ==
  links[pr] # NoId /\ obj[links[pr]].st = "up" /\ ~WorksOn(pr) =>
    \A s \in Side : Joined(pr, s) /\ Served(pr, s)

\* How far create_link has come, with the ends that run.
Early == {"cl_get", "cl_new", "cl_race", "cl_adopt", "cl_ctrs"}
ConfigSound(label, l) ==
  /\ label \in Early => l.con = {} /\ l.side = "a"
  /\ label = "cl_connect" /\ l.side = "b" => "a" \in l.con
  /\ label = "cl_ready" => l.side = "a"
  /\ label \in {"cl_ready", "cl_config", "cl_commit"} => l.con = Side
  /\ label \in {"cl_connect", "cl_ready", "cl_config", "cl_commit"} => \A s \in l.con : Joined(l.pr, s)
  /\ \A s \in Side :
       /\ label = "cl_commit" \/ (label = "cl_config" /\ l.side = "b" /\ s = "a")
       /\ l.ok /\ s \in l.rdy
       => Served(l.pr, s)

Ion == PlansSound /\ OffIsEmpty /\ Remembers

Configures == (\A pr \in Pair : UpSound(pr)) /\ ConfigSound(pc[Client], loc[Client])

\* The container of a node stays as it is, or is a new one or none.
CtrKept(n) == ctr'[n] = ctr[n] \/ Blank(n)'

\* The links that the containers have entries for keep them.
Carried(pr) ==
  \A s \in Side : MayHave(pr, s) => MayHave(pr, s)' /\ DuctOf(pr, s)' = DuctOf(pr, s)

\* A link, its Link object and its network stay as they are.
LinkKept(pr) ==
  /\ links'[pr] = links[pr] /\ net'[pr] = net[pr]
  /\ links[pr] # NoId => obj'[links[pr]] = obj[links[pr]]

\* Entries stay sound where none is added and no link loses its own.
LEMMA EntriesStay ==
  ASSUME \A pr \in Pair : Carried(pr), \A n \in Node : CtrKept(n)
  PROVE  (PlansSound => PlansSound') /\ (DuctsSound => DuctsSound')
<1>1. ASSUME PlansSound PROVE PlansSound'
  <2>1. ASSUME NEW n \in Node, NEW m \in Node, ctr'[n].plans[m] # NoDuct
        PROVE  \E pr \in Pair, s \in Side : PlanOf(n, m, pr, s)'
    <3>1. ctr'[n] = ctr[n]
      BY <2>1 DEF CtrKept, Blank
    <3>2. PICK pr \in Pair, s \in Side : PlanOf(n, m, pr, s)
      BY <1>1, <2>1, <3>1 DEF PlansSound
    <3>3. PlanOf(n, m, pr, s)'
      BY <3>1, <3>2 DEF PlanOf, Carried
    <3> QED
      BY <3>3
  <2> QED
    BY <2>1 DEF PlansSound
<1>2. ASSUME DuctsSound PROVE DuctsSound'
  <2>1. ASSUME NEW n \in Node, NEW d \in ctr'[n].ducts
        PROVE  \E pr \in Pair, s \in Side : OutductOf(n, d, pr, s)'
    <3>1. ctr'[n] = ctr[n]
      BY <2>1 DEF CtrKept, Blank
    <3>2. PICK pr \in Pair, s \in Side : OutductOf(n, d, pr, s)
      BY <1>2, <2>1, <3>1 DEF DuctsSound
    <3>3. OutductOf(n, d, pr, s)'
      BY <3>1, <3>2 DEF OutductOf, Carried
    <3> QED
      BY <3>3
  <2> QED
    BY <2>1 DEF DuctsSound
<1> QED
  BY <1>1, <1>2

-----------------------------------------------------------------------------
(* What a step of a link does to other links, and to its own variables       *)

\* Links that the call is not about.
LEMMA OthersKept ==
  ASSUME IInv, Sound, OneClient, LinkStep(Client), NEW pr \in Pair, pr # loc[Client].pr
  PROVE  LinkKept(pr)
<1>1. links \in [Pair -> Id \union {NoId}] /\ obj \in [Id -> LinkObject] /\ net \in [Pair -> Network]
  BY DEF IInv, TypeOK
<1>2. \A x : pr # loc[Client].pr => [links EXCEPT ![loc[Client].pr] = x][pr] = links[pr]
  BY <1>1
<1>3. \A x : [net EXCEPT ![loc[Client].pr] = x][pr] = net[pr]
  BY <1>1
<1>4. CASE \/ ClGet(Client) \/ ClRace(Client) \/ ClAdopt(Client) \/ ClContainers(Client)
           \/ ClReady(Client) \/ ClConfig(Client) \/ DlIon(Client) \/ DlGet(Client)
  BY <1>4 DEF ClGet, ClRace, ClAdopt, ClContainers, ClReady, ClConfig, DlIon, DlGet,
     tableVars, dockerVars, nodeTables, LinkKept
<1>5. CASE ClNew(Client) \/ ClUnnet(Client) \/ DlRemove(Client)
  BY <1>3, <1>5 DEF ClNew, ClUnnet, DlRemove, tableVars, LinkKept
<1>6. CASE ClConnect(Client) \/ ClUndo(Client) \/ DlDisconnect(Client)
  BY <1>1, <1>6 DEF ClConnect, ClUndo, DlDisconnect, Attached, Disconnected, tableVars, LinkKept
<1>7. CASE ClUnreserve(Client) \/ DlFinish(Client)
  BY <1>2, <1>7 DEF ClUnreserve, DlFinish, dockerVars, LinkKept
<1>8. CASE ClCommit(Client)
  <2>1. UNCHANGED <<links, net>>
    BY <1>8 DEF ClCommit, dockerVars
  <2>2. pc[Client] \in CreateLinkLabel /\ pc[Client] \in LinkLabel
    BY <1>8, LabelKinds DEF ClCommit, CreateLinkLabel
  <2>3. loc[Client].pr \in Pair
    BY <2>2, AtWork
  <2>4. links[pr] # NoId /\ links[loc[Client].pr] # NoId => links[pr] # links[loc[Client].pr]
    BY <2>3 DEF Sound, ObjectsApart, LinkNames
  <2>5. links[loc[Client].pr] = NoId => obj' = obj
    BY <1>8 DEF ClCommit
  <2>6. PICK i, v : i = links[loc[Client].pr] /\ (i # NoId => obj' = [obj EXCEPT ![i] = v])
    BY <1>8 DEF ClCommit
  <2> QED
    BY <1>1, <2>1, <2>4, <2>5, <2>6 DEF LinkKept
<1> QED
  BY <1>4, <1>5, <1>6, <1>7, <1>8 DEF LinkStep

\* The variables of create_link until it connects the containers.
LEMMA EarlyLocals ==
  ASSUME IInv, Sound, OneClient,
         ClGet(Client) \/ ClNew(Client) \/ ClRace(Client) \/ ClAdopt(Client) \/ ClContainers(Client)
  PROVE  /\ pc[Client] \in Early /\ pc'[Client] \in Early \union {"cl_connect", "cl_undo"}
         /\ loc'[Client].pr = loc[Client].pr /\ loc'[Client].con = loc[Client].con
         /\ loc'[Client].side = loc[Client].side
<1>1. pc[Client] \in Early
  BY DEF ClGet, ClNew, ClRace, ClAdopt, ClContainers, Early
<1>2. loc[Client] \in Local
  BY AtWork
<1>3. PICK m : m = loc[Client]
  OBVIOUS
<1>4. ASSUME NEW label \in Early \union {"cl_connect", "cl_undo"}, NEW l, Goto(Client, label, l),
             l.pr = m.pr, l.con = m.con, l.side = m.side
      PROVE  /\ pc'[Client] \in Early \union {"cl_connect", "cl_undo"}
             /\ loc'[Client].pr = m.pr /\ loc'[Client].con = m.con /\ loc'[Client].side = m.side
  BY <1>4, Went
<1>5. CASE Undo(Client) \/ \E label \in Early : Goto(Client, label, loc[Client])
  <2>1. PICK label \in Early \union {"cl_connect", "cl_undo"} : Goto(Client, label, m)
    BY <1>3, <1>5 DEF Undo
  <2> QED
    BY <1>1, <1>3, <1>4, <2>1
<1>6. ASSUME NEW i, NEW x, NEW b, HaveNetwork(Client, i, x, b)
      PROVE  \E label, l : label \in Early /\ Goto(Client, label, l) /\ l.pr = m.pr /\ l.con = m.con /\ l.side = m.side
  <2>1. PICK l : l = [loc[Client] EXCEPT !.nid = i, !.real = x, !.made = b]
    OBVIOUS
  <2>2. l.pr = m.pr /\ l.con = m.con /\ l.side = m.side
    BY <1>2, <1>3, <2>1 DEF Local
  <2>3. \E label \in Early : Goto(Client, label, l)
    BY <1>6, <2>1 DEF HaveNetwork, Early
  <2> QED
    BY <2>2, <2>3
<1>7. CASE \E i, x, b : HaveNetwork(Client, i, x, b)
  <2>1. PICK label, l : /\ label \in Early /\ Goto(Client, label, l)
                        /\ l.pr = m.pr /\ l.con = m.con /\ l.side = m.side
    BY <1>6, <1>7
  <2> QED
    BY <1>1, <1>3, <1>4, <2>1
<1>8. CASE ClAdopt(Client)
  <2>1. PICK x, l : x = m.real /\ l = [m EXCEPT !.idx = x]
    OBVIOUS
  <2>2. l.pr = m.pr /\ l.con = m.con /\ l.side = m.side
    BY <1>2, <1>3, <2>1 DEF Local
  <2>3. Goto(Client, "cl_ctrs", l) /\ "cl_ctrs" \in Early
    BY <1>3, <1>8, <2>1 DEF ClAdopt, Early
  <2> QED
    BY <1>3, <1>4, <1>1, <2>2, <2>3
<1>9. CASE ClContainers(Client) /\ ~Undo(Client)
  <2>1. PICK x, l : x = [s \in Side |-> ctr[At(m.pr, s)].cid] /\ l = [m EXCEPT !.cid = x]
    OBVIOUS
  <2>2. l.pr = m.pr /\ l.con = m.con /\ l.side = m.side
    BY <1>2, <1>3, <2>1 DEF Local
  <2>3. Goto(Client, "cl_connect", l)
    BY <1>3, <1>9, <2>1 DEF ClContainers
  <2> QED
    BY <1>1, <1>3, <1>4, <2>2, <2>3
<1>10. CASE ClGet(Client) \/ ClNew(Client) \/ ClRace(Client)
  <2>1. "cl_new" \in Early /\ "cl_race" \in Early
    BY DEF Early
  <2>2. Undo(Client) \/ (\E i, x, b : HaveNetwork(Client, i, x, b))
        \/ \E label \in Early : Goto(Client, label, loc[Client])
    BY <1>10, <2>1 DEF ClGet, ClNew, ClRace
  <2> QED
    BY <1>1, <1>5, <1>7, <2>2
<1> QED
  BY <1>1, <1>5, <1>8, <1>9, <1>10

\* While it connects them.
LEMMA ConnectLocals ==
  ASSUME IInv, Sound, OneClient, ClConnect(Client)
  PROVE  /\ loc'[Client].pr = loc[Client].pr
         /\ \/ pc'[Client] = "cl_undo"
            \/ /\ loc'[Client].con = loc[Client].con \union {loc[Client].side}
               /\ loc'[Client].side = Other(loc[Client].side)
               /\ pc'[Client] = IF loc[Client].side = "a" THEN "cl_connect" ELSE "cl_ready"
               /\ net' = Attached(loc[Client].pr, At(loc[Client].pr, loc[Client].side))
<1>1. loc[Client] \in Local
  BY AtWork
<1>2. PICK m, s : m = loc[Client] /\ s = m.side
  OBVIOUS
<1>3. PICK l : l = [m EXCEPT !.con = @ \union {s}, !.side = Other(@)]
  OBVIOUS
<1>4. l.pr = m.pr /\ l.con = m.con \union {s} /\ l.side = Other(s)
  BY <1>1, <1>2, <1>3 DEF Local
<1>5. CASE Undo(Client)
  BY <1>5, Went DEF Undo
<1>6. CASE /\ Goto(Client, IF s = "a" THEN "cl_connect" ELSE "cl_ready", l)
           /\ net' = Attached(m.pr, At(m.pr, s))
  BY <1>2, <1>4, <1>6, Went
<1> QED
  BY <1>2, <1>3, <1>5, <1>6 DEF ClConnect

\* While it waits for ION.
LEMMA ReadyLocals ==
  ASSUME IInv, Sound, OneClient, ClReady(Client)
  PROVE  /\ pc'[Client] = "cl_config" /\ loc'[Client].pr = loc[Client].pr
         /\ loc'[Client].con = loc[Client].con /\ loc'[Client].side = loc[Client].side
<1>1. loc[Client] \in Local
  BY AtWork
<1>2. PICK r : Goto(Client, "cl_config", [loc[Client] EXCEPT !.rdy = r])
  BY DEF ClReady
<1>3. PICK l : l = [loc[Client] EXCEPT !.rdy = r]
  OBVIOUS
<1>4. l.pr = loc[Client].pr /\ l.con = loc[Client].con /\ l.side = loc[Client].side
  BY <1>1, <1>3 DEF Local
<1> QED
  BY <1>2, <1>3, <1>4, Went

\* The container of one end once both commands of _apply_link_config succeeded.
BothCommands(pr, s, idx, cl) ==
  [ctr EXCEPT ![At(pr, s)] = ConfiguredUpTo(2, @, At(pr, Other(s)), <<idx, Other(s), cl>>)]

\* While it configures them.
LEMMA ConfigLocals ==
  ASSUME IInv, Sound, OneClient, IonCallsSucceed, ClConfig(Client)
  PROVE  /\ pc[Client] = "cl_config" /\ UNCHANGED <<nodes, links, obj, net>>
         /\ loc'[Client].pr = loc[Client].pr /\ loc'[Client].con = loc[Client].con
         /\ loc'[Client].rdy = loc[Client].rdy /\ loc'[Client].side = Other(loc[Client].side)
         /\ pc'[Client] = IF loc[Client].side = "a" THEN "cl_config" ELSE "cl_commit"
         /\ loc'[Client].ok => loc[Client].ok
         /\ \/ UNCHANGED ctr /\ loc[Client].side \notin loc[Client].rdy
            \/ /\ ctr[At(loc[Client].pr, loc[Client].side)].up
               /\ ctr' = BothCommands(loc[Client].pr, loc[Client].side, loc[Client].idx, loc[Client].cl)
            \/ UNCHANGED ctr /\ ~loc'[Client].ok
<1>1. loc[Client] \in Local
  BY AtWork
<1>2. pc[Client] = "cl_config" /\ UNCHANGED <<nodes, links, obj, net>> /\ ~Fails("cl_config")
  BY DEF ClConfig, tableVars, IonCallsSucceed, Fails
<1>3. PICK m, next : m = loc[Client] /\ next = IF m.side = "a" THEN "cl_config" ELSE "cl_commit"
  OBVIOUS
<1>4. ASSUME NEW ok \in BOOLEAN, Goto(Client, next, [m EXCEPT !.side = Other(@), !.ok = @ /\ ok])
      PROVE  /\ pc'[Client] = next /\ loc'[Client].pr = m.pr /\ loc'[Client].con = m.con
             /\ loc'[Client].rdy = m.rdy /\ loc'[Client].side = Other(m.side)
             /\ loc'[Client].ok = (m.ok /\ ok)
  <2>1. PICK o : o = (m.ok /\ ok) /\ o \in BOOLEAN
    OBVIOUS
  <2>2. [m EXCEPT !.side = Other(@), !.ok = @ /\ ok] = [m EXCEPT !.side = Other(@), !.ok = o]
    BY <2>1
  <2>3. PICK l : l = [m EXCEPT !.side = Other(@), !.ok = o]
    OBVIOUS
  <2>4. l.pr = m.pr /\ l.con = m.con /\ l.rdy = m.rdy /\ l.side = Other(m.side) /\ l.ok = o
    <3>1. PICK x : x = Other(m.side)
      OBVIOUS
    <3>2. l = [m EXCEPT !.side = x, !.ok = o]
      BY <2>3, <3>1
    <3> QED
      BY <1>1, <1>3, <3>1, <3>2 DEF Local
  <2>5. pc'[Client] = next /\ loc'[Client] = l
    BY <1>4, <2>2, <2>3, Went
  <2> QED
    BY <2>1, <2>4, <2>5
<1>5. \/ /\ m.side \notin m.rdy /\ UNCHANGED ctr
         /\ Goto(Client, next, [m EXCEPT !.side = Other(@), !.ok = @ /\ TRUE])
      \/ /\ ctr[At(m.pr, m.side)].up /\ ctr' = BothCommands(m.pr, m.side, m.idx, m.cl)
         /\ Goto(Client, next, [m EXCEPT !.side = Other(@), !.ok = @ /\ TRUE])
      \/ /\ UNCHANGED ctr
         /\ Goto(Client, next, [m EXCEPT !.side = Other(@), !.ok = @ /\ FALSE])
  BY <1>2, <1>3 DEF ClConfig, BothCommands
<1> QED
  BY <1>2, <1>3, <1>4, <1>5

\* The ends of a link that is being deleted have containers with names.
LEMMA EndsNamed ==
  ASSUME IInv, Sound, OneClient, pc[Client] \in DeleteLinkLabel
  PROVE  /\ \A s \in Side : loc[Client].ref[s].named
         /\ loc[Client].lid # NoId /\ links[loc[Client].pr] = loc[Client].lid
<1>1. PICK l : l = loc[Client]
  OBVIOUS
<1>2. DeleteSound(pc[Client], l) /\ l.pr \in Pair /\ l.lid \in Id
  BY <1>1, AtWork, LabelKinds DEF LocalOK
<1>3. l.lid # NoId
  BY <1>2, BoundAssumption DEF Id, Boot, NoId
<1>4. \A s \in Side : At(l.pr, s) \in Ends(l.pr) /\ At(l.pr, s) \in Node
  BY <1>2, PairAssumption DEF At, Ends
<1>5. \A n \in Ends(l.pr) : Present(n) /\ ~Creates(n)
  BY <1>2, <1>3 DEF Sound, EndsSound, LinkNames, DeleteSound
<1>6. \A s \in Side : nodes[At(l.pr, s)].ref.named
  BY <1>4, <1>5 DEF Sound, NodeSound
<1> QED
  BY <1>1, <1>2, <1>3, <1>6 DEF DeleteSound, SameRefs

\* The container of one end once its plan and its outduct are removed.
BothRemoved(pr, s, idx) ==
  [ctr EXCEPT ![At(pr, s)] = WithoutDuct(WithoutPlan(ctr[At(pr, s)], At(pr, Other(s))),
                                         <<idx, Other(s), "tcp">>)]

\* The clean-up of ION.
LEMMA IonLocals ==
  ASSUME IInv, Sound, OneClient, IonCallsSucceed, DlIon(Client)
  PROVE  /\ pc[Client] = "dl_ion" /\ UNCHANGED <<nodes, links, obj, net>>
         /\ loc'[Client].pr = loc[Client].pr /\ loc'[Client].side = Other(loc[Client].side)
         /\ pc'[Client] = IF loc[Client].side = "a" THEN "dl_ion" ELSE "dl_get"
         /\ loc'[Client].idx = IF loc[Client].side = "a" THEN obj[loc[Client].lid].idx
                                                         ELSE loc[Client].idx
         /\ \/ ctr' = BothRemoved(loc[Client].pr, loc[Client].side, loc'[Client].idx)
            \/ UNCHANGED ctr /\ ~ctr[At(loc[Client].pr, loc[Client].side)].up
<1>1. loc[Client] \in Local
  BY AtWork
<1>2. pc[Client] = "dl_ion" /\ UNCHANGED <<nodes, links, obj, net>> /\ ~Fails("dl_ion")
  BY DEF DlIon, tableVars, IonCallsSucceed, Fails
<1>3. PICK m, i : m = loc[Client] /\ i = IF m.side = "a" THEN obj[m.lid].idx ELSE m.idx
  OBVIOUS
<1>4. PICK l : l = [m EXCEPT !.idx = i]
  OBVIOUS
<1>5. PICK k : k = [l EXCEPT !.side = Other(@)]
  OBVIOUS
<1>6. /\ l.pr = m.pr /\ l.side = m.side /\ l.idx = i /\ l.ref = m.ref
      /\ k.pr = m.pr /\ k.side = Other(m.side) /\ k.idx = i
  BY <1>1, <1>3, <1>4, <1>5 DEF Local
<1>7. Goto(Client, IF l.side = "a" THEN "dl_ion" ELSE "dl_get", k)
  BY <1>3, <1>4, <1>5 DEF DlIon
<1>8. pc'[Client] = (IF m.side = "a" THEN "dl_ion" ELSE "dl_get") /\ loc'[Client] = k
  BY <1>6, <1>7, Went
<1>9. l.ref[l.side].named
  <2>1. pc[Client] \in DeleteLinkLabel /\ m.side \in Side
    BY <1>1, <1>2, <1>3 DEF DeleteLinkLabel, Local
  <2> QED
    BY <1>3, <1>6, <2>1, EndsNamed
<1>10. \/ ctr' = [ctr EXCEPT ![At(l.pr, l.side)] =
                    DuctDropped(WithoutPlan(ctr[At(l.pr, l.side)], At(l.pr, Other(l.side))),
                                l.idx, Other(l.side))]
       \/ UNCHANGED ctr /\ ~ctr[At(l.pr, l.side)].up
  BY <1>2, <1>3, <1>4, <1>9 DEF DlIon
<1>11. \/ ctr' = BothRemoved(m.pr, m.side, i)
       \/ UNCHANGED ctr /\ ~ctr[At(m.pr, m.side)].up
  BY <1>6, <1>10 DEF BothRemoved, DuctDropped
<1> QED
  BY <1>2, <1>3, <1>6, <1>8, <1>11

\* The other steps of a link.
Late == {"cl_undo", "cl_unnet", "cl_unres", "dl_get", "dl_disc", "dl_remove", "dl_finish"}

\* They go on to the next one, or end what they are about.
LEMMA LateLocals ==
  ASSUME IInv, Sound, OneClient, NetworkCallsSucceed,
         \/ ClUndo(Client) \/ ClUnnet(Client) \/ ClUnreserve(Client)
         \/ DlGet(Client) \/ DlDisconnect(Client) \/ DlRemove(Client) \/ DlFinish(Client)
  PROVE  /\ pc[Client] \in Late
         /\ \/ pc'[Client] \in Late /\ loc'[Client].pr = loc[Client].pr
            \/ pc'[Client] \in {"idle", "dn_next"} /\ links'[loc[Client].pr] = NoId
<1>1. pc[Client] \in Late
  BY DEF ClUndo, ClUnnet, ClUnreserve, DlGet, DlDisconnect, DlRemove, DlFinish, Late
<1>2. loc[Client] \in Local /\ links \in [Pair -> Id \union {NoId}]
      /\ (pc[Client] \in LinkLabel => loc[Client].pr \in Pair)
  BY AtWork DEF IInv, TypeOK
<1>3. CASE \E label \in Late : Goto(Client, label, loc[Client])
  BY <1>1, <1>3, Went
<1>4. CASE ClUndo(Client) \/ ClUnnet(Client) \/ DlDisconnect(Client)
  BY <1>3, <1>4 DEF ClUndo, ClUnnet, DlDisconnect, AfterDisconnect, Late
<1>5. CASE ClUnreserve(Client)
  <2>1. loc[Client].pr \in Pair
    BY <1>2, <1>5, LabelKinds DEF ClUnreserve, CreateLinkLabel
  <2>2. pc'[Client] = "idle"
    BY <1>5, Went DEF ClUnreserve, Finish
  <2>3. links'[loc[Client].pr] = NoId
    BY <1>2, <1>5, <2>1 DEF ClUnreserve
  <2> QED
    BY <1>1, <2>2, <2>3
<1>6. CASE DlFinish(Client)
  <2>1. pc[Client] \in DeleteLinkLabel /\ loc[Client].pr \in Pair
    BY <1>2, <1>6, LabelKinds DEF DlFinish, DeleteLinkLabel
  <2>2. pc'[Client] \in {"idle", "dn_next"}
    <3>1. DlReturn(Client)
      BY <1>6 DEF DlFinish
    <3>2. PICK label, l : label \in {"idle", "dn_next"} /\ Goto(Client, label, l)
      BY <2>1, <3>1, ReturnGoes
    <3> QED
      BY <3>2, Went
  <2>3. links'[loc[Client].pr] = NoId
    BY <1>2, <1>6, <2>1 DEF DlFinish
  <2> QED
    BY <1>1, <2>2, <2>3
<1>7. CASE DlGet(Client)
  <2>1. pc[Client] = "dl_get" /\ ~Fails("dl_get") /\ pc[Client] \in DeleteLinkLabel
    BY <1>7 DEF DlGet, NetworkCallsSucceed, Fails, DeleteLinkLabel
  <2>2. obj[loc[Client].lid].named /\ net[loc[Client].pr].nid # NoId
    BY <2>1, AtWork DEF DeleteSound, RemovalSound, OnNetwork
  <2>3. PICK l : l = [loc[Client] EXCEPT !.nid = net[loc[Client].pr].nid]
    OBVIOUS
  <2>4. Goto(Client, "dl_disc", l) /\ l.pr = loc[Client].pr
    BY <1>2, <1>7, <2>1, <2>2, <2>3 DEF DlGet, Local
  <2> QED
    BY <1>1, <2>4, Went DEF Late
<1>8. CASE DlRemove(Client)
  <2>1. pc[Client] = "dl_remove" /\ ~Fails("dl_remove") /\ ~ReplyLost("dl_remove")
        /\ pc[Client] \in DeleteLinkLabel
    BY <1>8 DEF DlRemove, NetworkCallsSucceed, Fails, ReplyLost, DeleteLinkLabel
  <2>2. net[loc[Client].pr].att = {}
    BY <2>1, AtWork DEF DeleteSound, RemovalSound
  <2>3. Goto(Client, "dl_finish", loc[Client])
    BY <1>8, <2>1, <2>2 DEF DlRemove
  <2> QED
    BY <1>3, <2>3 DEF Late
<1> QED
  BY <1>4, <1>5, <1>6, <1>7, <1>8

\* The commit of create_link.
LEMMA CommitLocals ==
  ASSUME IInv, Sound, OneClient, ClCommit(Client)
  PROVE  /\ pc[Client] = "cl_commit" /\ pc'[Client] = "idle" /\ UNCHANGED <<links, net, ctr>>
         /\ links[loc[Client].pr] = loc[Client].op /\ loc[Client].op \in Id /\ loc[Client].op # NoId
         /\ obj'[loc[Client].op].cl = obj[loc[Client].op].cl
         /\ obj'[loc[Client].op].st = LinkStatus(loc[Client])
<1>1. pc[Client] = "cl_commit" /\ pc[Client] \in CreateLinkLabel /\ UNCHANGED <<links, net, ctr>>
  BY DEF ClCommit, CreateLinkLabel, dockerVars
<1>2. PICK m, i : m = loc[Client] /\ i = m.op
  OBVIOUS
<1>3. links[m.pr] = i /\ i \in Id
  BY <1>1, <1>2, AtWork DEF BuildSound, LocalOK
<1>4. i # NoId
  BY <1>3, BoundAssumption DEF Id, Boot, NoId
<1>5. /\ obj' = [obj EXCEPT ![i] = [@ EXCEPT !.named = TRUE, !.nid = m.nid,
                                            !.idx = m.idx, !.st = LinkStatus(m)]]
      /\ Finish(Client)
  BY <1>2, <1>3, <1>4 DEF ClCommit
<1>6. obj'[i].cl = obj[i].cl /\ obj'[i].st = LinkStatus(m)
  <2>1. obj \in [Id -> LinkObject] /\ obj[i] \in LinkObject
    BY <1>3 DEF IInv, TypeOK
  <2>2. obj'[i] = [obj[i] EXCEPT !.named = TRUE, !.nid = m.nid, !.idx = m.idx, !.st = LinkStatus(m)]
    BY <1>3, <1>5, <2>1
  <2> QED
    BY <2>1, <2>2 DEF LinkObject
<1>7. pc'[Client] = "idle"
  BY <1>5, Went DEF Finish
<1> QED
  BY <1>1, <1>2, <1>3, <1>4, <1>6, <1>7

\* A step of a link stays with it, and looks ION up only where it did before.
LEMMA LinkGoes ==
  ASSUME IInv, Sound, OneClient, NetworkCallsSucceed, IonCallsSucceed, LinkStep(Client)
  PROVE  /\ pc[Client] \in LinkLabel
         /\ pc'[Client] \in LinkLabel => loc'[Client].pr = loc[Client].pr
         /\ pc'[Client] = "dl_ion" => DlIon(Client)
<1>1. \A label \in Early \union {"cl_connect", "cl_undo", "cl_config", "cl_ready", "cl_commit"} \union Late :
        label # "dl_ion" /\ label \in LinkLabel
  BY DEF Early, Late, LinkLabel, CreateLinkLabel, DeleteLinkLabel
<1>2. CASE \/ ClGet(Client) \/ ClNew(Client) \/ ClRace(Client) \/ ClAdopt(Client) \/ ClContainers(Client)
  BY <1>1, <1>2, EarlyLocals
<1>3. CASE ClConnect(Client)
  BY <1>1, <1>3, ConnectLocals DEF ClConnect
<1>4. CASE ClReady(Client)
  BY <1>1, <1>4, ReadyLocals DEF ClReady
<1>5. CASE ClConfig(Client)
  BY <1>1, <1>5, ConfigLocals
<1>6. CASE ClCommit(Client)
  BY <1>1, <1>6, CommitLocals, LabelKinds
<1>7. CASE \/ ClUndo(Client) \/ ClUnnet(Client) \/ ClUnreserve(Client)
           \/ DlGet(Client) \/ DlDisconnect(Client) \/ DlRemove(Client) \/ DlFinish(Client)
  BY <1>1, <1>7, LateLocals, LabelKinds
<1>8. CASE DlIon(Client)
  BY <1>1, <1>8, IonLocals, LabelKinds DEF DeleteLinkLabel
<1> QED
  BY <1>2, <1>3, <1>4, <1>5, <1>6, <1>7, <1>8 DEF LinkStep

\* Other links keep what they have.
LEMMA OthersCarried ==
  ASSUME IInv, Sound, OneClient, NetworkCallsSucceed, IonCallsSucceed, LinkStep(Client),
         NEW pr \in Pair, pr # loc[Client].pr
  PROVE  ~WorksOn(pr) /\ ~WorksOn(pr)' /\ LinkKept(pr) /\ Carried(pr)
<1>1. ~WorksOn(pr) /\ ~WorksOn(pr)'
  BY LinkGoes DEF WorksOn
<1>2. LinkKept(pr)
  BY OthersKept
<1> QED
  BY <1>1, <1>2 DEF LinkKept, Carried, MayHave, DuctOf

\* The steps that give no command to ION.
LEMMA QuietStepIon ==
  ASSUME IInv, Sound, OneClient, NetworkCallsSucceed, IonCallsSucceed, LinkStep(Client),
         ~ClConfig(Client), ~DlIon(Client)
  PROVE  /\ UNCHANGED ctr /\ pc'[Client] # "dl_ion"
         /\ \A pr \in Pair : Carried(pr)
<1>1. UNCHANGED ctr
  <2>1. CASE \/ ClGet(Client) \/ ClNew(Client) \/ ClRace(Client) \/ ClAdopt(Client)
             \/ ClContainers(Client) \/ ClConnect(Client) \/ ClReady(Client) \/ ClCommit(Client)
    BY <2>1 DEF ClGet, ClNew, ClRace, ClAdopt, ClContainers, ClConnect, ClReady, ClCommit, dockerVars
  <2>2. CASE \/ ClUndo(Client) \/ ClUnnet(Client) \/ ClUnreserve(Client)
             \/ DlGet(Client) \/ DlDisconnect(Client) \/ DlRemove(Client) \/ DlFinish(Client)
    BY <2>2 DEF ClUndo, ClUnnet, ClUnreserve, DlGet, DlDisconnect, DlRemove, DlFinish, dockerVars
  <2> QED
    BY <2>1, <2>2 DEF LinkStep
<1>2. pc'[Client] # "dl_ion"
  BY LinkGoes
<1>3. PICK pr : pr = loc[Client].pr
  OBVIOUS
<1>4. CASE ClCommit(Client)
  <2>1. /\ pc'[Client] = "idle" /\ UNCHANGED <<links, net>>
        /\ obj'[links[pr]].cl = obj[links[pr]].cl /\ links[pr] # NoId
    BY <1>3, <1>4, CommitLocals
  <2>2. ~WorksOn(pr)'
    BY <2>1, LabelKinds DEF WorksOn
  <2>3. Carried(pr)
    BY <2>1, <2>2 DEF Carried, MayHave, DuctOf
  <2> QED
    BY <1>1, <1>2, <1>3, <2>3, OthersCarried
<1>5. CASE ~ClCommit(Client)
  <2>1. pc[Client] \notin {"cl_config", "cl_commit", "dl_ion"}
    BY <1>5 DEF LinkStep, ClGet, ClNew, ClRace, ClAdopt, ClContainers, ClConnect, ClReady,
       ClUndo, ClUnnet, ClUnreserve, DlGet, DlDisconnect, DlRemove, DlFinish
  <2>2. WorksOn(pr)
    BY <1>3, LinkGoes DEF WorksOn
  <2>3. Carried(pr)
    BY <2>1, <2>2 DEF Carried, MayHave
  <2> QED
    BY <1>1, <1>2, <1>3, <2>3, OthersCarried
<1> QED
  BY <1>4, <1>5

\* What the two commands of _apply_link_config do to a container.
LEMMA BothCommandsEffect ==
  ASSUME NEW c \in Container, NEW peer \in Node, NEW d, NEW k, k = ConfiguredUpTo(2, c, peer, d)
  PROVE  /\ k.ducts = c.ducts \union {d} /\ k.up = c.up
         /\ k.plans[peer] = (IF c.plans[peer] = NoDuct THEN d ELSE c.plans[peer])
         /\ \A m \in Node \ {peer} : k.plans[m] = c.plans[m]
<1>1. PICK b : b = WithDuct(c, d)
  OBVIOUS
<1>2. b.ducts = c.ducts \union {d} /\ b.up = c.up /\ b.plans = c.plans /\ c.plans \in [Node -> Duct \union {NoDuct}]
  BY <1>1 DEF WithDuct, Container
<1>3. k = WithPlan(b, peer, d)
  BY <1>1 DEF ConfiguredUpTo
<1>4. k = [b EXCEPT !.plans = [b.plans EXCEPT ![peer] = IF b.plans[peer] = NoDuct THEN d ELSE b.plans[peer]]]
  BY <1>1, <1>3 DEF WithPlan
<1>5. \A x : [b EXCEPT !.plans = x].ducts = b.ducts /\ [b EXCEPT !.plans = x].up = b.up
             /\ [b EXCEPT !.plans = x].plans = x
  BY <1>1 DEF WithDuct, Container
<1>6. PICK f : f = [b.plans EXCEPT ![peer] = IF b.plans[peer] = NoDuct THEN d ELSE b.plans[peer]]
  OBVIOUS
<1>7. k.ducts = b.ducts /\ k.up = b.up /\ k.plans = f
  BY <1>4, <1>5, <1>6
<1>8. /\ f[peer] = (IF c.plans[peer] = NoDuct THEN d ELSE c.plans[peer])
      /\ \A m \in Node \ {peer} : f[m] = c.plans[m]
  BY <1>2, <1>6
<1> QED
  BY <1>2, <1>7, <1>8

\* And what those that take them back do.
LEMMA BothRemovedEffect ==
  ASSUME NEW c \in Container, NEW peer \in Node, NEW d, NEW k, k = WithoutDuct(WithoutPlan(c, peer), d)
  PROVE  /\ k.ducts = c.ducts \ {d} /\ k.up = c.up /\ k.plans[peer] = NoDuct
         /\ \A m \in Node \ {peer} : k.plans[m] = c.plans[m]
<1>1. PICK b : b = [c EXCEPT !.plans = [c.plans EXCEPT ![peer] = NoDuct]]
  OBVIOUS
<1>2. b = WithoutPlan(c, peer) /\ c.plans \in [Node -> Duct \union {NoDuct}]
  BY <1>1 DEF WithoutPlan, Container
<1>3. b.ducts = c.ducts /\ b.up = c.up /\ b.plans = [c.plans EXCEPT ![peer] = NoDuct]
  BY <1>1 DEF Container
<1>4. k = [b EXCEPT !.ducts = b.ducts \ {d}]
  BY <1>2 DEF WithoutDuct
<1>5. k.ducts = b.ducts \ {d} /\ k.up = b.up /\ k.plans = b.plans
  BY <1>1, <1>4 DEF Container
<1> QED
  BY <1>2, <1>3, <1>5

\* The link that a thread configures is its own.
LEMMA ConfigFacts ==
  ASSUME IInv, Sound, OneClient, pc[Client] = "cl_config"
  PROVE  /\ loc[Client].pr \in Pair /\ loc[Client].side \in Side
         /\ \A s \in Side : At(loc[Client].pr, s) \in Node
         /\ links[loc[Client].pr] # NoId /\ WorksOn(loc[Client].pr)
         /\ \A s \in Side : DuctOf(loc[Client].pr, s) = <<loc[Client].idx, Other(s), loc[Client].cl>>
<1>1. pc[Client] \in CreateLinkLabel /\ pc[Client] \in LinkLabel
  BY LabelKinds DEF CreateLinkLabel
<1>2. PICK l : l = loc[Client]
  OBVIOUS
<1>3. /\ BuildSound("cl_config", l) /\ l.pr \in Pair /\ l.op \in Id /\ l \in Local
  BY <1>1, <1>2, AtWork DEF LocalOK
<1>4. l.op # NoId
  BY <1>3, BoundAssumption DEF Id, Boot, NoId
<1>5. links[l.pr] = l.op /\ obj[l.op].cl = l.cl /\ net[l.pr].sub = l.idx
  BY <1>3 DEF BuildSound, NetworkSound
<1>6. \A s \in Side : DuctOf(l.pr, s) = <<l.idx, Other(s), l.cl>>
  BY <1>5 DEF DuctOf
<1>7. l.side \in Side /\ \A s \in Side : At(l.pr, s) \in Node
  BY <1>3, PairAssumption DEF Local, At
<1> QED
  BY <1>1, <1>2, <1>3, <1>4, <1>5, <1>6, <1>7 DEF WorksOn

\* Its plan and its outduct are entries of the link from now on.
LEMMA ConfigCarries ==
  ASSUME IInv, Sound, OneClient, NetworkCallsSucceed, IonCallsSucceed, ClConfig(Client),
         NEW pr, NEW s, pr = loc[Client].pr, s = loc[Client].side
  PROVE  /\ \A qr \in Pair : Carried(qr)
         /\ MayHave(pr, s)' /\ DuctOf(pr, s)' = DuctOf(pr, s)
         /\ pc'[Client] # "dl_ion"
<1>1. pr \in Pair /\ s \in Side /\ links[pr] # NoId /\ WorksOn(pr)
  BY ConfigFacts, ConfigLocals
<1>2. /\ pc[Client] = "cl_config" /\ UNCHANGED <<links, obj, net>>
      /\ loc'[Client].pr = pr /\ loc'[Client].side = Other(s)
      /\ pc'[Client] = IF s = "a" THEN "cl_config" ELSE "cl_commit"
  BY ConfigLocals
<1>3. MayHave(pr, s)'
  BY <1>1, <1>2 DEF MayHave, Side, Other
<1>4. \A x : DuctOf(pr, x)' = DuctOf(pr, x)
  BY <1>2 DEF DuctOf
<1>5. ASSUME NEW x \in Side, MayHave(pr, x) PROVE MayHave(pr, x)'
  <2>1. s = "b" /\ x = "a"
    BY <1>1, <1>2, <1>5 DEF MayHave
  <2> QED
    BY <1>1, <1>2, <2>1 DEF MayHave
<1>6. Carried(pr)
  BY <1>4, <1>5 DEF Carried
<1>7. \A qr \in Pair \ {pr} : Carried(qr)
  BY OthersCarried DEF LinkStep
<1> QED
  BY <1>2, <1>3, <1>4, <1>6, <1>7

\* The commands that configure an end.
LEMMA ClConfigIon ==
  ASSUME IInv, Sound, Ion, OneClient, NetworkCallsSucceed, IonCallsSucceed, ClConfig(Client)
  PROVE  Ion' /\ (DuctsSound => DuctsSound')
<1>1. PICK pr, s, n0, peer, d : /\ pr = loc[Client].pr /\ s = loc[Client].side /\ n0 = At(pr, s)
                               /\ peer = At(pr, Other(s)) /\ d = <<loc[Client].idx, Other(s), loc[Client].cl>>
  OBVIOUS
<1>2. /\ pr \in Pair /\ s \in Side /\ n0 \in Node /\ peer \in Node /\ d = DuctOf(pr, s)
  <2>1. pc[Client] = "cl_config"
    BY ConfigLocals
  <2>2. Other(s) \in Side
    BY DEF Other, Side
  <2> QED
    BY <1>1, <2>1, <2>2, ConfigFacts
<1>3. /\ \A qr \in Pair : Carried(qr)
      /\ MayHave(pr, s)' /\ DuctOf(pr, s)' = d /\ pc'[Client] # "dl_ion"
  BY <1>1, <1>2, ConfigCarries
<1>4. Remembers'
  BY <1>3 DEF Remembers
<1>5. CASE UNCHANGED ctr
  <2>1. \A n \in Node : CtrKept(n)
    BY <1>5 DEF CtrKept
  <2>2. OffIsEmpty'
    BY <1>5 DEF Ion, OffIsEmpty, Blank
  <2> QED
    BY <1>3, <1>4, <2>1, <2>2, EntriesStay DEF Ion
<1>6. CASE /\ ctr[n0].up /\ ctr' = BothCommands(pr, s, loc[Client].idx, loc[Client].cl)
  <2>1. ctr \in [Node -> Container]
    BY DEF IInv, TypeOK
  <2>2. PICK k : k = ConfiguredUpTo(2, ctr[n0], peer, d)
    OBVIOUS
  <2>3. ctr' = [ctr EXCEPT ![n0] = k]
    BY <1>1, <1>6, <2>2 DEF BothCommands
  <2>4. /\ k.ducts = ctr[n0].ducts \union {d} /\ k.up = ctr[n0].up
        /\ k.plans[peer] = (IF ctr[n0].plans[peer] = NoDuct THEN d ELSE ctr[n0].plans[peer])
        /\ \A m \in Node \ {peer} : k.plans[m] = ctr[n0].plans[m]
    BY <1>2, <2>1, <2>2, BothCommandsEffect
  <2>5. ctr'[n0] = k /\ \A n \in Node \ {n0} : ctr'[n] = ctr[n]
    BY <1>2, <2>1, <2>3
  <2>6. OffIsEmpty'
    <3>1. ASSUME NEW n \in Node, ~ctr'[n].up PROVE Blank(n)'
      <4>1. n # n0
        BY <1>6, <2>4, <2>5, <3>1
      <4>2. ctr'[n] = ctr[n]
        BY <2>5, <4>1
      <4> QED
        BY <3>1, <4>2 DEF Ion, OffIsEmpty, Blank
    <3> QED
      BY <3>1 DEF OffIsEmpty
  <2>7. ASSUME NEW n \in Node, NEW m \in Node, ctr'[n].plans[m] # NoDuct
        PROVE  \E qr \in Pair, x \in Side : PlanOf(n, m, qr, x)'
    <3>1. CASE ctr'[n].plans[m] = ctr[n].plans[m]
      <4>1. PICK qr \in Pair, x \in Side : PlanOf(n, m, qr, x)
        BY <2>7, <3>1 DEF Ion, PlansSound
      <4>2. PlanOf(n, m, qr, x)'
        BY <1>3, <3>1, <4>1 DEF PlanOf, Carried
      <4> QED
        BY <4>2
    <3>2. CASE ctr'[n].plans[m] # ctr[n].plans[m]
      <4>1. n = n0 /\ m = peer /\ ctr'[n].plans[m] = d
        BY <2>4, <2>5, <3>2
      <4>2. PlanOf(n, m, pr, s)'
        BY <1>1, <1>3, <4>1 DEF PlanOf
      <4> QED
        BY <1>2, <4>2
    <3> QED
      BY <3>1, <3>2
  <2>8. ASSUME DuctsSound, NEW n \in Node, NEW x \in ctr'[n].ducts
        PROVE  \E qr \in Pair, y \in Side : OutductOf(n, x, qr, y)'
    <3>1. CASE x \in ctr[n].ducts
      <4>1. PICK qr \in Pair, y \in Side : OutductOf(n, x, qr, y)
        BY <2>8, <3>1 DEF DuctsSound
      <4>2. OutductOf(n, x, qr, y)'
        BY <1>3, <4>1 DEF OutductOf, Carried
      <4> QED
        BY <4>2
    <3>2. CASE x \notin ctr[n].ducts
      <4>1. n = n0 /\ x = d
        BY <2>4, <2>5, <2>8, <3>2
      <4>2. OutductOf(n, x, pr, s)'
        BY <1>1, <1>3, <4>1 DEF OutductOf
      <4> QED
        BY <1>2, <4>2
    <3> QED
      BY <3>1, <3>2
  <2> QED
    BY <1>4, <2>6, <2>7, <2>8 DEF Ion, PlansSound, DuctsSound
<1> QED
  BY <1>1, <1>5, <1>6, ConfigLocals

\* The commands that take an end's entries back.
LEMMA DlIonIon ==
  ASSUME IInv, Sound, Ion, OneClient, NetworkCallsSucceed, IonCallsSucceed, DlIon(Client)
  PROVE  Ion' /\ (CL \subseteq {"tcp"} /\ DuctsSound => DuctsSound')
<1>1. PICK pr, s, n0, peer, i : /\ pr = loc[Client].pr /\ s = loc[Client].side /\ n0 = At(pr, s)
                               /\ peer = At(pr, Other(s)) /\ i = loc'[Client].idx
  OBVIOUS
<1>2. /\ pc[Client] = "dl_ion" /\ UNCHANGED <<links, obj, net>>
      /\ loc'[Client].pr = pr /\ loc'[Client].side = Other(s)
      /\ pc'[Client] = IF s = "a" THEN "dl_ion" ELSE "dl_get"
      /\ i = IF s = "a" THEN obj[loc[Client].lid].idx ELSE loc[Client].idx
      /\ ctr' = BothRemoved(pr, s, i) \/ (UNCHANGED ctr /\ ~ctr[n0].up)
  BY <1>1, IonLocals
<1>3. pc[Client] \in DeleteLinkLabel /\ pc[Client] \in LinkLabel
  BY <1>2, LabelKinds DEF DeleteLinkLabel
<1>4. /\ pr \in Pair /\ s \in Side /\ n0 \in Node /\ peer \in Node /\ WorksOn(pr) /\ links[pr] # NoId
      /\ i = net[pr].sub
  <2>1. DeleteSound("dl_ion", loc[Client]) /\ pr \in Pair /\ loc[Client] \in Local
        /\ links[pr] = loc[Client].lid /\ loc[Client].lid # NoId
    BY <1>1, <1>2, <1>3, AtWork, EndsNamed
  <2>2. OnNetwork(pr)
    BY <1>1, <2>1 DEF DeleteSound, RemovalSound
  <2>3. obj[loc[Client].lid].idx = net[pr].sub
    BY <2>1, <2>2 DEF OnNetwork
  <2>4. s \in Side /\ (s # "a" => s = "b")
    BY <1>1, <2>1 DEF Local, Side
  <2>5. i = net[pr].sub
    BY <1>1, <1>2, <2>3, <2>4 DEF Ion, Remembers
  <2> QED
    BY <1>1, <1>3, <2>1, <2>4, <2>5, PairAssumption DEF WorksOn, At
<1>5. Remembers'
  BY <1>1, <1>2, <1>4 DEF Remembers
<1>6. \A qr, x : DuctOf(qr, x)' = DuctOf(qr, x)
  BY <1>2 DEF DuctOf
<1>7. ASSUME NEW qr \in Pair, NEW x \in Side, MayHave(qr, x), ~(qr = pr /\ x = s)
      PROVE  MayHave(qr, x)'
  <2>1. CASE qr # pr
    BY <1>1, <1>7, <2>1, OthersCarried DEF Carried, LinkStep
  <2>2. CASE qr = pr
    <3>1. s = "a" /\ x = "b"
      BY <1>1, <1>2, <1>4, <1>7, <2>2 DEF MayHave, Side
    <3> QED
      BY <1>2, <1>4, <2>2, <3>1 DEF MayHave
  <2> QED
    BY <2>1, <2>2
<1>8. ctr \in [Node -> Container]
  BY DEF IInv, TypeOK
<1>9. PICK d, k : d = <<i, Other(s), "tcp">> /\ k = WithoutDuct(WithoutPlan(ctr[n0], peer), d)
  OBVIOUS
<1>10. /\ k.ducts = ctr[n0].ducts \ {d} /\ k.up = ctr[n0].up /\ k.plans[peer] = NoDuct
       /\ \A m \in Node \ {peer} : k.plans[m] = ctr[n0].plans[m]
  BY <1>4, <1>8, <1>9, BothRemovedEffect
<1>11. \/ ctr'[n0] = k /\ \A n \in Node \ {n0} : ctr'[n] = ctr[n]
       \/ UNCHANGED ctr /\ Blank(n0)
  <2>1. ctr' = BothRemoved(pr, s, i) => ctr' = [ctr EXCEPT ![n0] = k]
    BY <1>1, <1>9 DEF BothRemoved
  <2> QED
    BY <1>2, <1>4, <1>8, <2>1 DEF Ion, OffIsEmpty
<1>12. OffIsEmpty'
  <2>1. CASE UNCHANGED ctr
    BY <2>1 DEF Ion, OffIsEmpty, Blank
  <2>2. CASE ctr'[n0] = k /\ \A n \in Node \ {n0} : ctr'[n] = ctr[n]
    BY <1>10, <2>2 DEF Ion, OffIsEmpty, Blank
  <2> QED
    BY <1>11, <2>1, <2>2
<1>13. ASSUME NEW n \in Node, NEW m \in Node, ctr'[n].plans[m] # NoDuct
       PROVE  \E qr \in Pair, x \in Side : PlanOf(n, m, qr, x)'
  <2>1. ctr'[n].plans[m] = ctr[n].plans[m] /\ ~(n = n0 /\ m = peer)
    BY <1>4, <1>10, <1>11, <1>13 DEF Blank
  <2>2. PICK qr \in Pair, x \in Side : PlanOf(n, m, qr, x)
    BY <1>13, <2>1 DEF Ion, PlansSound
  <2>3. MayHave(qr, x)'
    BY <1>1, <1>7, <2>1, <2>2 DEF PlanOf
  <2>4. PlanOf(n, m, qr, x)'
    BY <1>6, <2>1, <2>2, <2>3 DEF PlanOf
  <2> QED
    BY <2>4
<1>14. ASSUME CL \subseteq {"tcp"}, DuctsSound, NEW n \in Node, NEW x \in ctr'[n].ducts
       PROVE  \E qr \in Pair, y \in Side : OutductOf(n, x, qr, y)'
  <2>1. x \in ctr[n].ducts /\ ~(n = n0 /\ x = d)
    BY <1>4, <1>10, <1>11, <1>14 DEF Blank
  <2>2. PICK qr \in Pair, y \in Side : OutductOf(n, x, qr, y)
    BY <1>14, <2>1 DEF DuctsSound
  <2>3. x \in Duct
    BY <1>8, <2>1 DEF Container
  <2>4. ~(qr = pr /\ y = s)
    <3>1. ASSUME qr = pr, y = s PROVE FALSE
      <4>1. n = n0 /\ x = <<i, Other(s), obj[links[pr]].cl>>
        BY <1>1, <1>4, <2>2, <3>1 DEF OutductOf, DuctOf
      <4>2. obj[links[pr]].cl \in CL
        BY <2>3, <4>1 DEF Duct
      <4>3. obj[links[pr]].cl = "tcp"
        BY <1>14, <4>2
      <4> QED
        BY <1>9, <2>1, <4>1, <4>3
    <3> QED
      BY <3>1
  <2>5. OutductOf(n, x, qr, y)'
    BY <1>6, <1>7, <2>2, <2>4 DEF OutductOf
  <2> QED
    BY <2>5
<1> QED
  BY <1>5, <1>12, <1>13, <1>14 DEF Ion, PlansSound, DuctsSound

-----------------------------------------------------------------------------
(* Steps that are not about a link                                         *)

\* A container that runs is the one that ran, and is on no fewer networks.
EndKept(n) ==
  ctr'[n].up => /\ ctr'[n] = ctr[n]
                /\ \A pr \in Pair : net[pr].nid # NoId /\ n \in net[pr].att => n \in net'[pr].att

\* The first step of create_link or delete_link.
Starts ==
  \/ pc'[Client] = "dl_ion" /\ loc'[Client].side = "a"
  \/ /\ pc'[Client] = "cl_get" /\ loc'[Client].con = {} /\ loc'[Client].side = "a"
     /\ links[loc'[Client].pr] = NoId

\* The links there are stay, and their networks and containers with them.
Aside ==
  /\ \A pr \in Pair :
       /\ links[pr] # NoId => links'[pr] = links[pr] /\ obj'[links[pr]] = obj[links[pr]]
       /\ links[pr] = NoId /\ links'[pr] # NoId => obj'[links'[pr]].st = "down"
       /\ net[pr].nid # NoId => net'[pr].sub = net[pr].sub
  /\ \A n \in Node : CtrKept(n) /\ (EndKept(n) \/ Creates(n))
  /\ \/ UNCHANGED <<pc, loc>>
     \/ pc[Client] \notin LinkLabel /\ (pc'[Client] \in LinkLabel => Starts)

\* A link that ION may have entries for has a network.
LEMMA Backed ==
  ASSUME IInv, Sound, OneClient, NEW pr \in Pair, links[pr] # NoId,
         WorksOn(pr) => pc[Client] \in {"cl_connect", "cl_ready", "cl_config", "cl_commit", "dl_ion"}
  PROVE  net[pr].nid # NoId
<1>1. CASE ~WorksOn(pr)
  BY <1>1 DEF Sound, Settled, OnNetwork
<1>2. CASE WorksOn(pr) /\ pc[Client] = "dl_ion"
  <2>1. pc[Client] \in DeleteLinkLabel
    BY <1>2 DEF DeleteLinkLabel
  <2> QED
    BY <1>2, <2>1, AtWork DEF DeleteSound, RemovalSound, OnNetwork, WorksOn
<1>3. CASE WorksOn(pr) /\ pc[Client] # "dl_ion"
  <2>1. pc[Client] \in CreateLinkLabel
    BY <1>3 DEF CreateLinkLabel
  <2>2. loc[Client].op # NoId /\ Boot # NoId
    BY <2>1, AtWork, BoundAssumption DEF LocalOK, Id, Boot, NoId
  <2> QED
    BY <1>3, <2>1, <2>2, AtWork DEF BuildSound, NetworkSound, Has, WorksOn
<1> QED
  BY <1>1, <1>2, <1>3

\* Its ends keep what they have of it.
LEMMA EndsKeep ==
  ASSUME IInv, Sound, OneClient, Aside, NEW pr \in Pair, links[pr] # NoId,
         WorksOn(pr) => pc[Client] \in {"cl_connect", "cl_ready", "cl_config", "cl_commit", "dl_ion"}
  PROVE  \A s \in Side : /\ DuctOf(pr, s)' = DuctOf(pr, s)
                         /\ Joined(pr, s) => Joined(pr, s)'
                         /\ Served(pr, s) => Served(pr, s)'
<1>1. net[pr].nid # NoId /\ net'[pr].sub = net[pr].sub
  BY Backed DEF Aside
<1>2. links'[pr] = links[pr] /\ obj'[links[pr]] = obj[links[pr]]
  BY DEF Aside
<1>3. \A s \in Side : DuctOf(pr, s)' = DuctOf(pr, s)
  BY <1>1, <1>2 DEF DuctOf
<1>4. ASSUME NEW s \in Side PROVE EndKept(At(pr, s))
  <2>1. At(pr, s) \in Node /\ At(pr, s) \in Ends(pr)
    BY PairAssumption DEF At, Ends
  <2>2. ~Creates(At(pr, s))
    BY <2>1 DEF Sound, EndsSound, LinkNames
  <2> QED
    BY <2>1, <2>2 DEF Aside
<1>5. ASSUME NEW s \in Side, Joined(pr, s) PROVE Joined(pr, s)'
  BY <1>1, <1>4, <1>5 DEF Joined, EndKept
<1>6. ASSUME NEW s \in Side, Served(pr, s) PROVE Served(pr, s)'
  BY <1>3, <1>4, <1>6 DEF Served, IonOf, EndKept
<1> QED
  BY <1>3, <1>5, <1>6

\* A container that does not run has no entries, whatever becomes of it.
LEMMA OffStaysEmpty ==
  ASSUME OffIsEmpty, \A n \in Node : CtrKept(n)
  PROVE  OffIsEmpty'
BY DEF OffIsEmpty, CtrKept, Blank

\* ION is as sound as before.
LEMMA AsideIon ==
  ASSUME IInv, Sound, Ion, OneClient, Aside
  PROVE  Ion' /\ (DuctsSound => DuctsSound')
<1>1. ASSUME NEW pr \in Pair, NEW s \in Side, MayHave(pr, s)
      PROVE  MayHave(pr, s)' /\ DuctOf(pr, s)' = DuctOf(pr, s)
  <2>1. links[pr] # NoId /\ links'[pr] = links[pr]
    BY <1>1 DEF MayHave, Aside
  <2>2. WorksOn(pr) => pc[Client] \in {"cl_connect", "cl_ready", "cl_config", "cl_commit", "dl_ion"}
    BY <1>1 DEF MayHave
  <2>3. DuctOf(pr, s)' = DuctOf(pr, s)
    BY <2>1, <2>2, EndsKeep
  <2>4. CASE UNCHANGED <<pc, loc>>
    BY <1>1, <2>1, <2>3, <2>4 DEF MayHave, WorksOn
  <2>5. CASE pc'[Client] \in LinkLabel => Starts
    BY <2>1, <2>3, <2>5 DEF MayHave, WorksOn, Starts
  <2> QED
    BY <2>4, <2>5 DEF Aside
<1>2. \A pr \in Pair : Carried(pr)
  BY <1>1 DEF Carried
<1>3. Remembers'
  <2>1. ASSUME UNCHANGED <<pc, loc>>, pc[Client] = "dl_ion", loc[Client].side = "b"
        PROVE  loc'[Client].idx = net'[loc'[Client].pr].sub
    <3>1. PICK pr : pr = loc[Client].pr
      OBVIOUS
    <3>2. pc[Client] \in DeleteLinkLabel /\ pc[Client] \in LinkLabel
      BY <2>1, LabelKinds DEF DeleteLinkLabel
    <3>3. pr \in Pair /\ links[pr] # NoId
      BY <3>1, <3>2, AtWork, EndsNamed
    <3>4. net[pr].nid # NoId
      BY <2>1, <3>3, Backed
    <3> QED
      BY <2>1, <3>1, <3>3, <3>4 DEF Ion, Remembers, Aside
  <2>2. CASE UNCHANGED <<pc, loc>>
    BY <2>1, <2>2 DEF Remembers
  <2>3. CASE pc'[Client] \in LinkLabel => Starts
    BY <2>3, LabelKinds DEF Remembers, Starts, LinkLabel, DeleteLinkLabel
  <2> QED
    BY <2>2, <2>3 DEF Aside
<1>4. \A n \in Node : CtrKept(n)
  BY DEF Aside
<1> QED
  BY <1>2, <1>3, <1>4, EntriesStay, OffStaysEmpty DEF Ion

\* So are the links that are UP, and the one that is being made.
LEMMA AsideConfigures ==
  ASSUME IInv, Sound, Configures, OneClient, Aside
  PROVE  Configures'
<1>1. ASSUME NEW pr \in Pair PROVE UpSound(pr)'
  <2>1. SUFFICES ASSUME links'[pr] # NoId, obj'[links'[pr]].st = "up", ~WorksOn(pr)'
                 PROVE  \A s \in Side : Joined(pr, s)' /\ Served(pr, s)'
    BY DEF UpSound
  <2>2. links[pr] # NoId /\ obj[links[pr]].st = "up"
    BY <2>1 DEF Aside
  <2>3. ~WorksOn(pr)
    BY <2>1 DEF Aside, WorksOn
  <2>4. \A s \in Side : Joined(pr, s) /\ Served(pr, s)
    BY <2>2, <2>3 DEF Configures, UpSound
  <2> QED
    BY <2>2, <2>3, <2>4, EndsKeep
<1>2. PICK label, l : label = pc'[Client] /\ l = loc'[Client]
  OBVIOUS
<1>3. ConfigSound(label, l)'
  <2>1. CASE UNCHANGED <<pc, loc>>
    <3>1. label = pc[Client] /\ l = loc[Client] /\ ConfigSound(label, l)
      BY <1>2, <2>1 DEF Configures
    <3>2. CASE label \in {"cl_connect", "cl_ready", "cl_config", "cl_commit"}
      <4>1. label \in CreateLinkLabel /\ label \in LinkLabel
        BY <3>2, LabelKinds DEF CreateLinkLabel
      <4>2. l.pr \in Pair /\ l.op \in Id /\ links[l.pr] = l.op
        BY <3>1, <4>1, AtWork DEF LocalOK, BuildSound
      <4>3. links[l.pr] # NoId
        BY <4>2, BoundAssumption DEF Id, Boot, NoId
      <4>4. \A s \in Side : /\ Joined(l.pr, s) => Joined(l.pr, s)'
                            /\ Served(l.pr, s) => Served(l.pr, s)'
        BY <3>1, <3>2, <4>2, <4>3, EndsKeep
      <4>5. l.con \subseteq Side
        BY <3>1, AtWork DEF Local
      <4> QED
        BY <3>1, <3>2, <4>4, <4>5 DEF ConfigSound
    <3>3. CASE label \notin {"cl_connect", "cl_ready", "cl_config", "cl_commit"}
      BY <3>1, <3>3 DEF ConfigSound
    <3> QED
      BY <3>2, <3>3
  <2>2. CASE label \notin LinkLabel
    <3>1. label \notin Early \union {"cl_connect", "cl_ready", "cl_config", "cl_commit"}
      BY <2>2 DEF Early, LinkLabel, CreateLinkLabel
    <3> QED
      BY <3>1 DEF ConfigSound, Early
  <2>3. CASE Starts
    BY <1>2, <2>3 DEF ConfigSound, Starts, Early
  <2> QED
    BY <1>2, <2>1, <2>2, <2>3 DEF Aside
<1> QED
  BY <1>1, <1>2, <1>3 DEF Configures, ConfigSound

\* A container that has just been started, and one that is gone, have no entries.
LEMMA BlankContainers ==
  ASSUME NEW i
  PROVE  /\ NoContainer.ducts = {} /\ NoContainer.up = FALSE
         /\ \A m \in Node : NoContainer.plans[m] = NoDuct
         /\ [NoContainer EXCEPT !.cid = i].ducts = {} /\ [NoContainer EXCEPT !.cid = i].up = FALSE
         /\ \A m \in Node : [NoContainer EXCEPT !.cid = i].plans[m] = NoDuct
         /\ FreshContainer(i).ducts = {} /\ \A m \in Node : FreshContainer(i).plans[m] = NoDuct
BY DEF NoContainer, FreshContainer

\* It takes the place of a node's container.
LEMMA ContainerReplaced ==
  ASSUME IInv, NEW n \in Node, NEW c, c.ducts = {}, \A m \in Node : c.plans[m] = NoDuct,
         ctr' = [ctr EXCEPT ![n] = c],
         (c.up = FALSE /\ net' = DetachedEverywhere(n)) \/ (UNCHANGED net /\ Creates(n))
  PROVE  /\ \A m \in Node : CtrKept(m) /\ (EndKept(m) \/ Creates(m))
         /\ \A pr \in Pair : net'[pr].sub = net[pr].sub
<1>1. ctr'[n] = c /\ \A m \in Node \ {n} : ctr'[m] = ctr[m]
  BY DEF IInv, TypeOK
<1>2. \A m \in Node : CtrKept(m)
  BY <1>1 DEF CtrKept, Blank
<1>3. CASE UNCHANGED net /\ Creates(n)
  <2>1. \A m \in Node \ {n} : EndKept(m)
    BY <1>1, <1>3 DEF EndKept
  <2> QED
    BY <1>2, <1>3, <2>1
<1>4. CASE c.up = FALSE /\ net' = DetachedEverywhere(n)
  <2>1. \A pr \in Pair : net[pr] \in Network
    BY DEF IInv, TypeOK
  <2>2. \A pr \in Pair : net'[pr].sub = net[pr].sub /\ net'[pr].att = net[pr].att \ {n}
    BY <1>4, <2>1 DEF DetachedEverywhere, Network
  <2>3. \A m \in Node \ {n} : EndKept(m)
    BY <1>1, <2>2 DEF EndKept
  <2>4. EndKept(n)
    BY <1>1, <1>4 DEF EndKept
  <2> QED
    BY <1>2, <2>2, <2>3, <2>4
<1> QED
  BY <1>3, <1>4

\* The containers and the networks stay as they are.
LEMMA DockerStill ==
  ASSUME UNCHANGED <<ctr, net>>
  PROVE  /\ \A m \in Node : CtrKept(m) /\ (EndKept(m) \/ Creates(m))
         /\ \A pr \in Pair : net'[pr].sub = net[pr].sub
BY DEF CtrKept, EndKept

\* What happens without a call.
LEMMA OutsideAside ==
  ASSUME IInv, \/ \E n \in Node : ContainerExits(n)
               \/ \E pr \in Pair, idx \in Index : OtherWriter(pr, idx)
               \/ UNCHANGED vars
  PROVE  Aside
<1>1. UNCHANGED <<links, obj, pc, loc>>
  BY DEF ContainerExits, OtherWriter, tableVars, vars
<1>2. CASE UNCHANGED vars
  BY <1>1, <1>2, DockerStill DEF Aside, vars
<1>3. ASSUME NEW n \in Node, ContainerExits(n) PROVE Aside
  <2>1. PICK i, c : i = ctr[n].cid /\ c = [NoContainer EXCEPT !.cid = i]
    OBVIOUS
  <2>2. ctr' = [ctr EXCEPT ![n] = c] /\ net' = DetachedEverywhere(n)
    BY <1>3, <2>1 DEF ContainerExits
  <2>3. c.up = FALSE /\ c.ducts = {} /\ \A m \in Node : c.plans[m] = NoDuct
    BY <2>1, BlankContainers
  <2> QED
    BY <1>1, <2>2, <2>3, ContainerReplaced DEF Aside
<1>4. ASSUME NEW pr \in Pair, NEW idx \in Index, OtherWriter(pr, idx) PROVE Aside
  <2>1. net[pr].nid = NoId /\ UNCHANGED ctr /\ \A qr \in Pair \ {pr} : net'[qr] = net[qr]
    BY <1>4 DEF OtherWriter, IInv, TypeOK
  <2>2. \A n \in Node : CtrKept(n) /\ EndKept(n)
    BY <2>1 DEF CtrKept, EndKept
  <2> QED
    BY <1>1, <2>1, <2>2 DEF Aside
<1> QED
  BY <1>2, <1>3, <1>4

\* What a call of create_node or delete_node does.
LEMMA NodeStepAside ==
  ASSUME IInv, Sound, OneClient, NodeStep(Client)
  PROVE  Aside
<1>1. UNCHANGED <<links, obj>> /\ pc[Client] \in NodeLabel
  BY DEF NodeStep, CnStale, CnDir, CnRun, CnCheck, CnCommit, CnUndo, CnUnreserve, DnNext, DnContainer,
     DnFinish, tableVars, nodeOpUnchanged, NodeLabel, CreateNodeLabel, DeleteNodeLabel
<1>2. pc[Client] \notin LinkLabel /\ loc[Client].n \in Node
  BY <1>1, AtWork, LabelKinds DEF LocalOK, NodeLabel
<1>3. PICK n, i : n = loc[Client].n /\ i = loc[Client].op
  OBVIOUS
<1>4. /\ \A m \in Node : CtrKept(m) /\ (EndKept(m) \/ Creates(m))
      /\ \A pr \in Pair : net'[pr].sub = net[pr].sub
  <2>1. CASE UNCHANGED <<ctr, net>>
    BY <2>1, DockerStill
  <2>2. CASE RemoveContainer(n)
    <3>1. PICK c : c = NoContainer
      OBVIOUS
    <3>2. c.up = FALSE /\ c.ducts = {} /\ \A m \in Node : c.plans[m] = NoDuct
      BY <3>1, BlankContainers
    <3>3. ctr' = [ctr EXCEPT ![n] = c] /\ net' = DetachedEverywhere(n)
      BY <2>2, <3>1 DEF RemoveContainer
    <3> QED
      BY <1>2, <1>3, <3>2, <3>3, ContainerReplaced
  <2>3. CASE CnRun(Client) /\ ctr' = [ctr EXCEPT ![n] = FreshContainer(i)]
    <3>1. PICK c : c = FreshContainer(i)
      OBVIOUS
    <3>2. c.ducts = {} /\ \A m \in Node : c.plans[m] = NoDuct
      BY <3>1, BlankContainers
    <3>3. ctr' = [ctr EXCEPT ![n] = c] /\ UNCHANGED net
      BY <2>3, <3>1 DEF CnRun
    <3>4. Creates(n)
      BY <1>3, <2>3 DEF Creates, CnRun, CreateNodeLabel
    <3> QED
      BY <1>2, <1>3, <3>2, <3>3, <3>4, ContainerReplaced
  <2>4. CASE CnStale(Client) \/ CnUndo(Client) \/ DnContainer(Client)
    BY <1>3, <2>1, <2>2, <2>4 DEF CnStale, CnUndo, DnContainer, dockerVars
  <2>5. CASE CnRun(Client)
    BY <1>3, <2>1, <2>3, <2>5 DEF CnRun
  <2>6. CASE \/ CnDir(Client) \/ CnCheck(Client) \/ CnCommit(Client) \/ CnUnreserve(Client)
             \/ DnNext(Client) \/ DnFinish(Client)
    BY <2>1, <2>6 DEF CnDir, CnCheck, CnCommit, CnUnreserve, DnNext, DnFinish, dockerVars
  <2> QED
    BY <2>4, <2>5, <2>6 DEF NodeStep
<1>5. pc'[Client] \in LinkLabel => Starts
  <2>1. CASE DnNext(Client)
    <3>1. PICK m : m = loc[Client] /\ m \in Local
      BY AtWork
    <3>2. CASE \E label \in {"dn_next", "dn_ctr"} : \E l : Goto(Client, label, l)
      BY <3>2, Went, LabelKinds
    <3>3. ASSUME NEW pr \in m.todo, Goto(Client, "dl_ion", Victim([m EXCEPT !.todo = @ \ {pr}], pr))
          PROVE  Starts
      <4>1. PICK t, x, r : t = m.todo \ {pr} /\ x = links[pr] /\ r = [s \in Side |-> nodes[At(pr, s)].ref]
        OBVIOUS
      <4>2. PICK k : k = [m EXCEPT !.todo = t]
        OBVIOUS
      <4>3. PICK l : l = [k EXCEPT !.pr = pr, !.lid = x, !.side = "a", !.nid = NoId, !.ref = r]
        OBVIOUS
      <4>4. Goto(Client, "dl_ion", l)
        BY <3>3, <4>1, <4>2, <4>3 DEF Victim
      <4>5. l.side = "a"
        BY <3>1, <4>2, <4>3 DEF Local
      <4> QED
        BY <4>4, <4>5, Went DEF Starts
    <3>4. \/ \E label \in {"dn_next", "dn_ctr"} : \E l : Goto(Client, label, l)
          \/ \E pr \in m.todo : Goto(Client, "dl_ion", Victim([m EXCEPT !.todo = @ \ {pr}], pr))
      BY <2>1, <3>1 DEF DnNext
    <3> QED
      BY <3>2, <3>3, <3>4
  <2>2. CASE ~DnNext(Client)
    <3>1. CnRaise(Client) \/ Finish(Client)
          \/ \E label \in {"cn_dir", "cn_run", "cn_check", "cn_commit", "cn_unres", "dn_finish"} :
               \E l : Goto(Client, label, l)
      <4>1. CASE CnStale(Client) \/ CnDir(Client) \/ CnRun(Client)
        BY <4>1 DEF CnStale, CnDir, CnRun
      <4>2. CASE CnCheck(Client) \/ CnCommit(Client) \/ CnUndo(Client)
        BY <4>2 DEF CnCheck, CnCommit, CnUndo
      <4>3. CASE CnUnreserve(Client) \/ DnContainer(Client) \/ DnFinish(Client)
        BY <4>3 DEF CnUnreserve, DnContainer, DnFinish
      <4> QED
        BY <2>2, <4>1, <4>2, <4>3 DEF NodeStep
    <3>2. PICK label \in {"cn_undo", "idle", "cn_dir", "cn_run", "cn_check", "cn_commit", "cn_unres",
                          "dn_finish"} : \E l : Goto(Client, label, l)
      BY <3>1 DEF CnRaise, Finish
    <3>3. label \notin LinkLabel
      BY <3>2, LabelKinds DEF CreateNodeLabel
    <3> QED
      BY <3>2, <3>3, Went
  <2> QED
    BY <2>1, <2>2
<1> QED
  BY <1>1, <1>2, <1>4, <1>5 DEF Aside

\* What the reservation of create_link does.
LEMMA ReservationAside ==
  ASSUME IInv, OnlyPast, Sound, OneClient, NEW pr \in Pair, NEW cl \in CL,
         CreateLink(Client, pr, cl), ~Exhausted(pool)
  PROVE  Aside
<1>1. /\ UNCHANGED <<ctr, net>> /\ pc[Client] = "idle" /\ started < MaxOps /\ links[pr] = NoId
  BY DEF CreateLink, Begin, dockerVars
<1>2. PICK i, x, r : i = NewId /\ x = Issued(pool) /\ r = [s \in Side |-> nodes[At(pr, s)].ref]
  OBVIOUS
<1>3. PICK m, l : m = NoLocal /\ l = [m EXCEPT !.op = i, !.call = "create_link", !.pr = pr,
                                               !.cl = cl, !.idx = x, !.ref = r]
  OBVIOUS
<1>4. /\ links' = [links EXCEPT ![pr] = i]
      /\ obj' = [obj EXCEPT ![i] = [idx |-> x, named |-> FALSE, nid |-> NoId, cl |-> cl, st |-> "down"]]
      /\ Goto(Client, "cl_get", l)
  BY <1>2, <1>3 DEF CreateLink
<1>5. m \in Local /\ m.con = {} /\ m.side = "a"
  BY <1>3, NeutralTypes DEF NoLocal
<1>6. l.pr = pr /\ l.con = {} /\ l.side = "a"
  BY <1>3, <1>5 DEF Local
<1>7. i \in Id
  BY <1>1, <1>2, NewIdIsId DEF IInv
<1>8. /\ links'[pr] = i /\ \A qr \in Pair \ {pr} : links'[qr] = links[qr]
      /\ obj'[i].st = "down" /\ \A j \in Id \ {i} : obj'[j] = obj[j]
  BY <1>4, <1>7 DEF IInv, TypeOK
<1>9. \A qr \in Pair : links[qr] # i /\ links[qr] \in Id \union {NoId}
  <2>1. links \in [Pair -> Id \union {NoId}] /\ started \in Nat
    BY BoundAssumption DEF IInv, TypeOK
  <2>2. ASSUME NEW qr \in Pair PROVE links[qr] # i
    <3>1. links[qr] \in Nat /\ links[qr] <= started + 1
      BY <2>1, BoundAssumption DEF OnlyPast, Id, Boot, NoId
    <3> QED
      BY <1>2, <2>1, <3>1 DEF NewId
  <2> QED
    BY <2>1, <2>2
<1>10. Starts
  BY <1>1, <1>4, <1>6, Went DEF Starts
<1>11. \A qr \in Pair : /\ links[qr] # NoId => links'[qr] = links[qr] /\ obj'[links[qr]] = obj[links[qr]]
                        /\ links[qr] = NoId /\ links'[qr] # NoId => obj'[links'[qr]].st = "down"
  BY <1>1, <1>8, <1>9
<1>12. /\ \A n \in Node : CtrKept(n) /\ (EndKept(n) \/ Creates(n))
       /\ \A qr \in Pair : net'[qr].sub = net[qr].sub
  BY <1>1, DockerStill
<1>13. pc[Client] \notin LinkLabel
  BY <1>1, LabelKinds
<1> QED
  BY <1>10, <1>11, <1>12, <1>13 DEF Aside

\* What the other calls do when they begin.
LEMMA CallAside ==
  ASSUME IInv, OnlyPast, Sound, OneClient, Call(Client)
  PROVE  Aside
<1>1. pc[Client] = "idle" /\ "idle" \notin LinkLabel /\ UNCHANGED <<ctr, net>>
  BY LabelKinds
     DEF Call, LinkCall, NodeCall, CreateLink, DeleteLink, CreateNode, DeleteNode, Begin, dockerVars
<1>2. /\ \A m \in Node : CtrKept(m) /\ (EndKept(m) \/ Creates(m))
      /\ \A pr \in Pair : net'[pr].sub = net[pr].sub
  BY <1>1, DockerStill
<1>3. ASSUME NEW pr \in Pair, NEW cl \in CL, CreateLink(Client, pr, cl), Exhausted(pool) PROVE Aside
  <2>1. UNCHANGED <<links, obj, pc, loc>>
    BY <1>3 DEF CreateLink
  <2> QED
    BY <1>2, <2>1 DEF Aside
<1>4. ASSUME NEW pr \in Pair, DeleteLink(Client, pr) PROVE Aside
  <2>1. PICK m : m = [NoLocal EXCEPT !.call = "delete_link"]
    OBVIOUS
  <2>2. m \in Local
    BY <2>1, NeutralTypes DEF Local, Operation
  <2>3. PICK x, r : x = links[pr] /\ r = [s \in Side |-> nodes[At(pr, s)].ref]
    OBVIOUS
  <2>4. PICK l : l = [m EXCEPT !.pr = pr, !.lid = x, !.side = "a", !.nid = NoId, !.ref = r]
    OBVIOUS
  <2>5. Goto(Client, "dl_ion", l) /\ UNCHANGED <<links, obj>>
    BY <1>4, <2>1, <2>3, <2>4 DEF DeleteLink, Victim, tableVars
  <2>6. l.side = "a"
    BY <2>2, <2>4 DEF Local
  <2>7. Starts
    BY <2>5, <2>6, Went DEF Starts
  <2> QED
    BY <1>1, <1>2, <2>5, <2>7 DEF Aside
<1>5. ASSUME NEW n \in Node, CreateNode(Client, n) \/ DeleteNode(Client, n) PROVE Aside
  <2>1. UNCHANGED <<links, obj>> /\ \E label \in {"cn_stale", "dn_next"} : \E l : Goto(Client, label, l)
    BY <1>5 DEF CreateNode, DeleteNode, nodeOpUnchanged, tableVars
  <2>2. PICK label \in {"cn_stale", "dn_next"} : \E l : Goto(Client, label, l)
    BY <2>1
  <2>3. label \notin LinkLabel
    BY LabelKinds DEF CreateNodeLabel
  <2>4. pc'[Client] \notin LinkLabel
    BY <2>2, <2>3, Went
  <2> QED
    BY <1>1, <1>2, <2>1, <2>4 DEF Aside
<1> QED
  BY <1>3, <1>4, <1>5, ReservationAside DEF Call, LinkCall, NodeCall

\* A step is one of a link, or beside them.
LEMMA StepKinds ==
  ASSUME IInv, OnlyPast, Sound, OneClient, [Next]_vars
  PROVE  LinkStep(Client) \/ Aside
<1>1. \A p \in Proc : p = Client
  BY DEF OneClient
<1> QED
  BY <1>1, CallAside, NodeStepAside, OutsideAside DEF Next, Step

\* ION stays sound.
LEMMA NextKeepsIon ==
  ASSUME IInv, OnlyPast, Sound, Ion, OneClient, NetworkCallsSucceed, IonCallsSucceed, [Next]_vars
  PROVE  Ion' /\ (CL \subseteq {"tcp"} /\ DuctsSound => DuctsSound')
<1>1. CASE LinkStep(Client) /\ ~ClConfig(Client) /\ ~DlIon(Client)
  <2>1. UNCHANGED ctr /\ pc'[Client] # "dl_ion" /\ \A pr \in Pair : Carried(pr)
    BY <1>1, QuietStepIon
  <2>2. \A n \in Node : CtrKept(n)
    BY <2>1 DEF CtrKept
  <2>3. Remembers'
    BY <2>1 DEF Remembers
  <2> QED
    BY <2>1, <2>2, <2>3, EntriesStay, OffStaysEmpty DEF Ion
<1> QED
  BY <1>1, StepKinds, ClConfigIon, DlIonIon, AsideIon

\* At the start there are no entries.
LEMMA InitIon ==
  ASSUME Init, OneClient
  PROVE  Ion /\ DuctsSound
<1>1. pc[Client] = "idle"
  BY DEF OneClient, Init
<1>2. \A n \in Node : Blank(n)
  BY BlankContainers DEF Init, Blank
<1>3. PlansSound
  BY <1>2 DEF PlansSound, Blank
<1>4. DuctsSound
  BY <1>2 DEF DuctsSound, Blank
<1>5. OffIsEmpty /\ Remembers
  BY <1>1, <1>2 DEF OffIsEmpty, Remembers
<1> QED
  BY <1>3, <1>4, <1>5 DEF Ion

\* Between calls, the entries are those of the links.
LEMMA QuietIon ==
  ASSUME Sound, Ion, DuctsSound, OneClient
  PROVE  IonMatchesLinks
<1>1. SUFFICES ASSUME Quiet, NEW n \in Node
               PROVE  LET mine == {pr \in LinkNames : n \in Ends(pr)}
                          duct(pr, s) == <<obj[links[pr]].idx, Other(s), obj[links[pr]].cl>>
                          known == {duct(pr, s) : pr \in mine, s \in Side}
                      IN /\ ctr[n].ducts \subseteq known
                         /\ \A m \in Node : ctr[n].plans[m] \in known \union {NoDuct}
  BY DEF IonMatchesLinks
<1>2. pc[Client] = "idle"
  BY <1>1 DEF Quiet, OneClient
<1>3. ASSUME NEW pr \in Pair, NEW s \in Side, MayHave(pr, s), At(pr, s) = n
      PROVE  DuctOf(pr, s) \in {<<obj[links[qr]].idx, Other(x), obj[links[qr]].cl>> :
                                  qr \in {rr \in LinkNames : n \in Ends(rr)}, x \in Side}
  <2>1. Settled(pr)
    BY <1>2, LabelKinds DEF Sound, WorksOn
  <2>2. pr \in LinkNames /\ n \in Ends(pr) /\ net[pr].sub = obj[links[pr]].idx
    BY <1>3, <2>1 DEF MayHave, Settled, OnNetwork, LinkNames, At, Ends
  <2> QED
    BY <2>2 DEF DuctOf
<1>4. ASSUME NEW d \in ctr[n].ducts
      PROVE  d \in {<<obj[links[qr]].idx, Other(x), obj[links[qr]].cl>> :
                      qr \in {rr \in LinkNames : n \in Ends(rr)}, x \in Side}
  <2>1. PICK pr \in Pair, s \in Side : OutductOf(n, d, pr, s)
    BY DEF DuctsSound
  <2> QED
    BY <1>3, <2>1 DEF OutductOf
<1>5. ASSUME NEW m \in Node, ctr[n].plans[m] # NoDuct
      PROVE  ctr[n].plans[m] \in {<<obj[links[qr]].idx, Other(x), obj[links[qr]].cl>> :
                                    qr \in {rr \in LinkNames : n \in Ends(rr)}, x \in Side}
  <2>1. PICK pr \in Pair, s \in Side : PlanOf(n, m, pr, s)
    BY <1>5 DEF Ion, PlansSound
  <2> QED
    BY <1>3, <2>1 DEF PlanOf
<1> QED
  BY <1>4, <1>5

\* Between the calls of a single client, no plan and no outduct belongs to a link
\* that is gone, if no command to ION times out and all links are tcp:
\* generate_delete_outduct_cmd (ion_config.py:180) assumes that they are.
THEOREM IonForgetsDeletedLinks ==
  ASSUME OneClient, NetworkCallsSucceed, IonCallsSucceed, CL \subseteq {"tcp"}
  PROVE  Spec => []IonMatchesLinks
<1> DEFINE All == OnlyPast /\ Sound /\ Ion /\ DuctsSound
<1>1. Init => All
  BY InitSound, InitHasNoPlaceholder, InitIon
<1>2. IInv /\ All /\ [Next]_vars => All'
  BY NextKeepsPast, NextKeepsSound, NextKeepsIon
<1>3. All => IonMatchesLinks
  BY QuietIon
<1> QED
  BY <1>1, <1>2, <1>3, InvariantHolds, PTL DEF Spec

-----------------------------------------------------------------------------
(* The links that are UP                                                   *)

\* Two nodes have at most one link.
LEMMA SameEnds ==
  ASSUME NEW pr \in Pair, NEW qr \in Pair, NEW s \in Side, NEW x \in Side,
         At(pr, s) = At(qr, x), At(pr, Other(s)) = At(qr, Other(x))
  PROVE  pr = qr
<1>1. /\ pr = <<pr[1], pr[2]>> /\ qr = <<qr[1], qr[2]>>
      /\ pr[1] \in Nat /\ pr[2] \in Nat /\ qr[1] \in Nat /\ qr[2] \in Nat
      /\ pr[1] <= pr[2] /\ qr[1] <= qr[2]
  <2>1. \A p \in Pair : p \in Node \X Node /\ p[1] <= p[2]
    BY PairAssumption
  <2>2. \A p \in Node \X Node : p = <<p[1], p[2]>> /\ p[1] \in Node /\ p[2] \in Node
    OBVIOUS
  <2>3. Node \subseteq Nat
    BY NodeAssumption
  <2> QED
    BY <2>1, <2>2, <2>3
<1>2. {pr[1], pr[2]} = {qr[1], qr[2]}
  BY DEF At, Other, Side
<1>3. pr[1] = qr[1] /\ pr[2] = qr[2]
  BY <1>1, <1>2
<1> QED
  BY <1>1, <1>3

\* The steps of a link start and stop no container, and the entries of another
\* link outlive them.
LEMMA StepKeepsEntries ==
  ASSUME IInv, Sound, Ion, OneClient, NetworkCallsSucceed, IonCallsSucceed, LinkStep(Client)
  PROVE  /\ \A n \in Node : ctr'[n].up = ctr[n].up
         /\ \A pr \in Pair, s \in Side :
              /\ ~DlIon(Client) \/ (links[pr] # NoId /\ pr # loc[Client].pr)
              /\ IonOf(pr, s) /\ DuctOf(pr, s)' = DuctOf(pr, s)
              => IonOf(pr, s)'
<1>1. ctr \in [Node -> Container]
  BY DEF IInv, TypeOK
<1>2. \A pr \in Pair, s \in Side : At(pr, s) \in Node /\ At(pr, Other(s)) \in Node /\ DuctOf(pr, s) # NoDuct
  BY PairAssumption DEF At, DuctOf, NoDuct
<1>3. CASE UNCHANGED ctr
  BY <1>3 DEF IonOf
<1>4. CASE ClConfig(Client) /\ ctr' # ctr
  <2>1. PICK n0, peer, d : /\ n0 = At(loc[Client].pr, loc[Client].side)
                           /\ peer = At(loc[Client].pr, Other(loc[Client].side))
                           /\ d = <<loc[Client].idx, Other(loc[Client].side), loc[Client].cl>>
    OBVIOUS
  <2>2. n0 \in Node /\ peer \in Node
    <3>1. pc[Client] = "cl_config"
      BY <1>4, ConfigLocals
    <3>2. Other(loc[Client].side) \in Side
      BY DEF Other, Side
    <3> QED
      BY <2>1, <3>1, <3>2, ConfigFacts
  <2>3. PICK k : k = ConfiguredUpTo(2, ctr[n0], peer, d)
    OBVIOUS
  <2>4. ctr' = [ctr EXCEPT ![n0] = k]
    BY <1>4, <2>1, <2>3, ConfigLocals DEF BothCommands
  <2>5. /\ k.ducts = ctr[n0].ducts \union {d} /\ k.up = ctr[n0].up
        /\ k.plans[peer] = (IF ctr[n0].plans[peer] = NoDuct THEN d ELSE ctr[n0].plans[peer])
        /\ \A m \in Node \ {peer} : k.plans[m] = ctr[n0].plans[m]
    BY <1>1, <2>2, <2>3, BothCommandsEffect
  <2>6. \A n \in Node : ctr'[n] = IF n = n0 THEN k ELSE ctr[n]
    BY <1>1, <2>2, <2>4
  <2>7. ASSUME NEW pr \in Pair, NEW s \in Side, IonOf(pr, s), DuctOf(pr, s)' = DuctOf(pr, s)
        PROVE  IonOf(pr, s)'
    BY <1>2, <2>5, <2>6, <2>7 DEF IonOf
  <2> QED
    BY <2>5, <2>6, <2>7
<1>5. CASE DlIon(Client) /\ ctr' # ctr
  <2>1. PICK qr, t, n0, peer, i : /\ qr = loc[Client].pr /\ t = loc[Client].side /\ n0 = At(qr, t)
                                 /\ peer = At(qr, Other(t)) /\ i = loc'[Client].idx
    OBVIOUS
  <2>2. qr \in Pair /\ t \in Side /\ net[qr].nid # NoId /\ i = net[qr].sub
    <3>1. pc[Client] = "dl_ion" /\ pc[Client] \in DeleteLinkLabel /\ pc[Client] \in LinkLabel
      BY <1>5, IonLocals, LabelKinds DEF DeleteLinkLabel
    <3>2. DeleteSound("dl_ion", loc[Client]) /\ qr \in Pair /\ loc[Client] \in Local
          /\ links[qr] = loc[Client].lid
      BY <2>1, <3>1, AtWork, EndsNamed
    <3>3. OnNetwork(qr)
      BY <2>1, <3>2 DEF DeleteSound, RemovalSound
    <3>4. t \in Side /\ (t # "a" => t = "b")
      BY <2>1, <3>2 DEF Local, Side
    <3>5. i = IF t = "a" THEN obj[loc[Client].lid].idx ELSE loc[Client].idx
      BY <1>5, <2>1, IonLocals
    <3> QED
      BY <2>1, <3>1, <3>2, <3>3, <3>4, <3>5 DEF OnNetwork, Ion, Remembers
  <2>3. n0 \in Node /\ peer \in Node
    BY <1>2, <2>1, <2>2
  <2>4. PICK d, k : d = <<i, Other(t), "tcp">> /\ k = WithoutDuct(WithoutPlan(ctr[n0], peer), d)
    OBVIOUS
  <2>5. /\ k.ducts = ctr[n0].ducts \ {d} /\ k.up = ctr[n0].up /\ k.plans[peer] = NoDuct
        /\ \A m \in Node \ {peer} : k.plans[m] = ctr[n0].plans[m]
    BY <1>1, <2>3, <2>4, BothRemovedEffect
  <2>6. ctr' = [ctr EXCEPT ![n0] = k]
    BY <1>5, <2>1, <2>4, IonLocals DEF BothRemoved
  <2>7. \A n \in Node : ctr'[n] = IF n = n0 THEN k ELSE ctr[n]
    BY <1>1, <2>3, <2>6
  <2>8. ASSUME NEW pr \in Pair, NEW s \in Side, links[pr] # NoId, pr # qr,
               IonOf(pr, s), DuctOf(pr, s)' = DuctOf(pr, s)
        PROVE  IonOf(pr, s)'
    <3>1. ~(At(pr, s) = n0 /\ At(pr, Other(s)) = peer)
      BY <2>1, <2>2, <2>8, SameEnds
    <3>2. ~WorksOn(pr)
      BY <2>1, <2>8 DEF WorksOn
    <3>3. net[pr].nid # NoId
      BY <2>8, <3>2, Backed
    <3>4. net[pr].sub # i
      BY <2>2, <2>8, <3>3 DEF Sound, NetsApart
    <3>5. DuctOf(pr, s) # d
      BY <2>4, <3>4 DEF DuctOf
    <3> QED
      BY <1>2, <2>5, <2>7, <2>8, <3>1, <3>5 DEF IonOf
  <2> QED
    BY <1>5, <2>1, <2>5, <2>7, <2>8
<1> QED
  BY <1>3, <1>4, <1>5, QuietStepIon

\* Links that the step is not about stay configured.
LEMMA OthersConfigured ==
  ASSUME IInv, Sound, Ion, OneClient, NetworkCallsSucceed, IonCallsSucceed, LinkStep(Client),
         NEW pr \in Pair, pr # loc[Client].pr, UpSound(pr)
  PROVE  UpSound(pr)'
<1>1. /\ ~WorksOn(pr) /\ ~WorksOn(pr)' /\ links'[pr] = links[pr] /\ net'[pr] = net[pr]
      /\ links[pr] # NoId => obj'[links[pr]] = obj[links[pr]]
  BY OthersCarried DEF LinkKept
<1>2. SUFFICES ASSUME links[pr] # NoId, obj[links[pr]].st = "up", NEW s \in Side
               PROVE  Joined(pr, s)' /\ Served(pr, s)'
  BY <1>1 DEF UpSound
<1>3. Joined(pr, s) /\ Served(pr, s)
  BY <1>1, <1>2 DEF UpSound
<1>4. DuctOf(pr, s)' = DuctOf(pr, s)
  BY <1>1, <1>2 DEF DuctOf
<1>5. At(pr, s) \in Node
  BY PairAssumption DEF At
<1>6. ctr'[At(pr, s)].up = ctr[At(pr, s)].up
  BY <1>5, StepKeepsEntries
<1>7. Joined(pr, s)'
  BY <1>1, <1>3, <1>6 DEF Joined
<1>8. IonOf(pr, s) => IonOf(pr, s)'
  BY <1>2, <1>4, StepKeepsEntries
<1> QED
  BY <1>3, <1>6, <1>7, <1>8 DEF Served

\* A link that is committed as UP is configured.
LEMMA CommitConfigured ==
  ASSUME IInv, Sound, Configures, OneClient, ClCommit(Client), NEW pr, pr = loc[Client].pr
  PROVE  UpSound(pr)'
<1>1. PICK l : l = loc[Client] /\ l.pr = pr
  OBVIOUS
<1>2. /\ pc[Client] = "cl_commit" /\ UNCHANGED <<links, net, ctr>> /\ links[l.pr] = l.op
      /\ obj'[l.op].cl = obj[l.op].cl /\ obj'[l.op].st = LinkStatus(l)
  BY <1>1, CommitLocals
<1>3. SUFFICES ASSUME LinkStatus(l) = "up"
               PROVE  \A s \in Side : Joined(l.pr, s)' /\ Served(l.pr, s)'
  BY <1>1, <1>2 DEF UpSound
<1>4. l.rdy = Side /\ l.ok
  BY <1>3 DEF LinkStatus
<1>5. \A s \in Side : Joined(l.pr, s) /\ Served(l.pr, s)
  BY <1>1, <1>2, <1>4 DEF Configures, ConfigSound
<1>6. \A s \in Side : DuctOf(l.pr, s)' = DuctOf(l.pr, s)
  BY <1>2 DEF DuctOf
<1> QED
  BY <1>2, <1>5, <1>6 DEF Joined, Served, IonOf

\* A plan that is there when an end is configured is the link's own.
LEMMA PlanIsOwn ==
  ASSUME IInv, Sound, Ion, NoLoops, NEW pr \in Pair, NEW s \in Side,
         ctr[At(pr, s)].plans[At(pr, Other(s))] # NoDuct
  PROVE  ctr[At(pr, s)].plans[At(pr, Other(s))] = DuctOf(pr, s)
<1>1. At(pr, s) \in Node /\ At(pr, Other(s)) \in Node
  BY PairAssumption DEF At
<1>2. PICK qr \in Pair, x \in Side : PlanOf(At(pr, s), At(pr, Other(s)), qr, x)
  BY <1>1 DEF Ion, PlansSound
<1>3. At(qr, x) = At(pr, s) /\ At(qr, Other(x)) = At(pr, Other(s))
      /\ ctr[At(pr, s)].plans[At(pr, Other(s))] = DuctOf(qr, x)
  BY <1>2 DEF PlanOf
<1>4. qr = pr
  BY <1>3, SameEnds
<1>5. x = s
  BY <1>3, <1>4 DEF NoLoops, At, Other, Side
<1> QED
  BY <1>3, <1>4, <1>5

\* An end that has been configured is served.
LEMMA ConfigServes ==
  ASSUME IInv, Sound, Ion, Configures, OneClient, NetworkCallsSucceed, IonCallsSucceed, NoLoops,
         ClConfig(Client)
  PROVE  ConfigSound(pc[Client], loc[Client])'
<1>1. PICK l, k, label : l = loc[Client] /\ k = loc'[Client] /\ label = pc'[Client]
  OBVIOUS
<1>2. /\ pc[Client] = "cl_config" /\ UNCHANGED <<links, obj, net>>
      /\ k.pr = l.pr /\ k.con = l.con /\ k.rdy = l.rdy /\ k.side = Other(l.side)
      /\ label = IF l.side = "a" THEN "cl_config" ELSE "cl_commit"
      /\ k.ok => l.ok
  BY <1>1, ConfigLocals
<1>3. l.pr \in Pair /\ l.side \in Side /\ (\A s \in Side : At(l.pr, s) \in Node)
      /\ \A s \in Side : DuctOf(l.pr, s) = <<l.idx, Other(s), l.cl>>
  BY <1>1, <1>2, ConfigFacts
<1>4. ConfigSound("cl_config", l)
  BY <1>1, <1>2 DEF Configures
<1>5. /\ \A n \in Node : ctr'[n].up = ctr[n].up
      /\ \A s \in Side : IonOf(l.pr, s) => IonOf(l.pr, s)'
  <2>1. \A s \in Side : DuctOf(l.pr, s)' = DuctOf(l.pr, s)
    BY <1>2 DEF DuctOf
  <2>2. LinkStep(Client) /\ ~DlIon(Client)
    BY <1>2 DEF LinkStep, DlIon
  <2> QED
    BY <1>3, <2>1, <2>2, StepKeepsEntries
<1>6. ASSUME NEW s \in Side, Joined(l.pr, s) PROVE Joined(l.pr, s)'
  BY <1>2, <1>3, <1>5, <1>6 DEF Joined
<1>7. ASSUME NEW s \in Side, Served(l.pr, s) PROVE Served(l.pr, s)'
  BY <1>3, <1>5, <1>7 DEF Served
<1>8. ASSUME k.ok, l.side \in l.rdy PROVE Served(l.pr, l.side)'
  <2>1. PICK s, n0, peer, d, c : /\ s = l.side /\ n0 = At(l.pr, s) /\ peer = At(l.pr, Other(s))
                                 /\ d = <<l.idx, Other(s), l.cl>> /\ c = ConfiguredUpTo(2, ctr[n0], peer, d)
    OBVIOUS
  <2>2. ctr' = BothCommands(l.pr, l.side, l.idx, l.cl)
    BY <1>1, <1>8, ConfigLocals
  <2>3. ctr' = [ctr EXCEPT ![n0] = c]
    BY <2>1, <2>2 DEF BothCommands
  <2>4. ctr \in [Node -> Container] /\ n0 \in Node /\ peer \in Node
    <3>1. Other(s) \in Side
      BY DEF Other, Side
    <3> QED
      BY <1>3, <2>1, <3>1 DEF IInv, TypeOK
  <2>5. /\ c.ducts = ctr[n0].ducts \union {d}
        /\ c.plans[peer] = (IF ctr[n0].plans[peer] = NoDuct THEN d ELSE ctr[n0].plans[peer])
    BY <2>1, <2>4, BothCommandsEffect
  <2>6. d = DuctOf(l.pr, s)
    BY <1>3, <2>1
  <2>7. ctr[n0].plans[peer] = NoDuct \/ ctr[n0].plans[peer] = d
    BY <1>3, <2>1, <2>6, PlanIsOwn
  <2>8. ctr'[n0] = c
    BY <2>3, <2>4
  <2>9. DuctOf(l.pr, s)' = d
    BY <1>2, <2>6 DEF DuctOf
  <2>10. IonOf(l.pr, s)'
    BY <2>1, <2>5, <2>7, <2>8, <2>9 DEF IonOf
  <2> QED
    BY <2>1, <2>10 DEF Served
<1>9. l.con = Side /\ \A s \in Side : Joined(l.pr, s)'
  BY <1>4, <1>6 DEF ConfigSound
<1>10. ASSUME NEW s \in Side, label = "cl_commit" \/ (label = "cl_config" /\ k.side = "b" /\ s = "a"),
              k.ok, s \in k.rdy
       PROVE  Served(k.pr, s)'
  <2>1. CASE s = l.side
    BY <1>2, <1>8, <1>10, <2>1
  <2>2. CASE s # l.side
    <3>1. l.side = "b" /\ s = "a"
      BY <1>2, <1>3, <1>10, <2>2 DEF Side, Other
    <3>2. Served(l.pr, s)
      BY <1>2, <1>4, <1>10, <3>1 DEF ConfigSound
    <3> QED
      BY <1>2, <1>7, <3>2
  <2> QED
    BY <2>1, <2>2
<1>11. label \notin Early \union {"cl_connect", "cl_ready"}
  BY <1>2 DEF Early
<1>12. /\ \A s \in k.con : Joined(k.pr, s)'
       /\ k.con = Side
  BY <1>2, <1>9
<1>13. ConfigSound(label, k)'
  BY <1>10, <1>11, <1>12 DEF ConfigSound
<1> QED
  BY <1>1, <1>13 DEF ConfigSound

\* What create_link has achieved lasts until it commits.
LEMMA StepConfigSound ==
  ASSUME IInv, Sound, Ion, Configures, OneClient, NetworkCallsSucceed, IonCallsSucceed, NoLoops,
         LinkStep(Client)
  PROVE  ConfigSound(pc[Client], loc[Client])'
<1>1. PICK l, k, label : l = loc[Client] /\ k = loc'[Client] /\ label = pc'[Client]
  OBVIOUS
<1>2. ConfigSound(pc[Client], l)
  BY <1>1 DEF Configures
<1>3. CASE label \notin Early \union {"cl_connect", "cl_ready", "cl_config", "cl_commit"}
  <2>1. ConfigSound(label, k)'
    BY <1>3 DEF ConfigSound, Early
  <2> QED
    BY <1>1, <2>1 DEF ConfigSound
<1>4. CASE ClGet(Client) \/ ClNew(Client) \/ ClRace(Client) \/ ClAdopt(Client) \/ ClContainers(Client)
  <2>1. /\ pc[Client] \in Early /\ label \in Early \union {"cl_connect", "cl_undo"}
        /\ k.con = l.con /\ k.side = l.side
    BY <1>1, <1>4, EarlyLocals
  <2>2. k.con = {} /\ k.side = "a"
    BY <1>2, <2>1 DEF ConfigSound
  <2>3. ConfigSound(label, k)'
    BY <2>1, <2>2 DEF ConfigSound, Early
  <2> QED
    BY <1>1, <2>3 DEF ConfigSound
<1>5. CASE ClConnect(Client) /\ label # "cl_undo"
  <2>1. PICK n : n = At(l.pr, l.side)
    OBVIOUS
  <2>2. /\ pc[Client] = "cl_connect" /\ UNCHANGED ctr
        /\ k.pr = l.pr /\ k.con = l.con \union {l.side} /\ k.side = Other(l.side)
        /\ label = IF l.side = "a" THEN "cl_connect" ELSE "cl_ready"
        /\ net' = Attached(l.pr, n)
    BY <1>1, <1>5, <2>1, ConnectLocals DEF ClConnect, tableVars
  <2>3. pc[Client] \in CreateLinkLabel /\ pc[Client] \in LinkLabel
    BY <2>2, LabelKinds DEF CreateLinkLabel
  <2>4. l \in Local /\ l.pr \in Pair /\ net \in [Pair -> Network]
    BY <1>1, <2>3, AtWork DEF IInv, TypeOK
  <2>5. l.side \in Side /\ l.con \subseteq Side
    BY <2>4 DEF Local
  <2>6. ctr[n].up => net' = [net EXCEPT ![l.pr].att = @ \union {n}]
    BY <2>2 DEF Attached
  <2>7. ~ctr[n].up => net' = net
    BY <2>2 DEF Attached
  <2>8. net[l.pr].att \subseteq net'[l.pr].att /\ (ctr[n].up => n \in net'[l.pr].att)
    BY <2>4, <2>6, <2>7 DEF Network
  <2>9. \A s \in Side : Joined(l.pr, s) => Joined(l.pr, s)'
    BY <2>2, <2>8 DEF Joined
  <2>10. Joined(l.pr, l.side)'
    BY <2>1, <2>2, <2>8 DEF Joined
  <2>11. \A s \in k.con : Joined(k.pr, s)'
    BY <1>2, <2>2, <2>5, <2>9, <2>10 DEF ConfigSound
  <2>12. /\ label \notin Early \union {"cl_config", "cl_commit"}
         /\ label = "cl_connect" /\ k.side = "b" => "a" \in k.con
         /\ label = "cl_ready" => k.side = "a" /\ k.con = Side
    BY <1>2, <2>2, <2>5 DEF ConfigSound, Early, Other, Side
  <2>13. ConfigSound(label, k)'
    BY <2>11, <2>12 DEF ConfigSound
  <2> QED
    BY <1>1, <2>13 DEF ConfigSound
<1>6. CASE ClReady(Client)
  <2>1. /\ pc[Client] = "cl_ready" /\ UNCHANGED <<ctr, net>>
        /\ label = "cl_config" /\ k.pr = l.pr /\ k.con = l.con /\ k.side = l.side
    BY <1>1, <1>6, ReadyLocals DEF ClReady, dockerVars
  <2>2. \A s \in Side : Joined(l.pr, s) => Joined(l.pr, s)'
    BY <2>1 DEF Joined
  <2>3. k.con = Side /\ k.side = "a" /\ \A s \in Side : Joined(k.pr, s)'
    BY <1>2, <2>1, <2>2 DEF ConfigSound
  <2>4. ConfigSound(label, k)'
    BY <2>1, <2>3 DEF ConfigSound, Early
  <2> QED
    BY <1>1, <2>4 DEF ConfigSound
<1>7. CASE ClConfig(Client)
  BY <1>7, ConfigServes
<1>8. CASE ClCommit(Client)
  BY <1>1, <1>3, <1>8, CommitLocals DEF Early
<1>9. CASE \/ ClUndo(Client) \/ ClUnnet(Client) \/ ClUnreserve(Client)
           \/ DlGet(Client) \/ DlDisconnect(Client) \/ DlRemove(Client) \/ DlFinish(Client)
  <2>1. label \in Late \union {"idle", "dn_next"}
    BY <1>1, <1>9, LateLocals
  <2> QED
    BY <1>3, <2>1 DEF Late, Early
<1>10. CASE DlIon(Client)
  BY <1>1, <1>3, <1>10, IonLocals DEF Early
<1> QED
  BY <1>3, <1>4, <1>5, <1>6, <1>7, <1>8, <1>9, <1>10 DEF LinkStep, Early

\* The link that a step is about is still the call's, gone, or committed.
LEMMA StepUpSound ==
  ASSUME IInv, Sound, Ion, Configures, OneClient, NetworkCallsSucceed, IonCallsSucceed, LinkStep(Client),
         NEW pr, pr = loc[Client].pr
  PROVE  UpSound(pr)'
<1>2. \A label \in Early \union {"cl_connect", "cl_undo", "cl_config", "cl_ready", "cl_commit", "dl_ion"} \union Late :
        label \in LinkLabel
  BY DEF Early, Late, LinkLabel, CreateLinkLabel, DeleteLinkLabel
<1>3. CASE ClCommit(Client)
  BY <1>3, CommitConfigured
<1>4. CASE WorksOn(pr)' \/ links'[pr] = NoId
  BY <1>4 DEF UpSound, WorksOn
<1>5. CASE ~ClCommit(Client)
  <2>1. CASE \/ ClGet(Client) \/ ClNew(Client) \/ ClRace(Client) \/ ClAdopt(Client) \/ ClContainers(Client)
    <3>1. WorksOn(pr)'
      BY <1>2, <2>1, EarlyLocals DEF WorksOn
    <3> QED
      BY <1>4, <3>1
  <2>2. CASE ClConnect(Client) \/ ClReady(Client) \/ ClConfig(Client) \/ DlIon(Client)
    <3>1. WorksOn(pr)'
      BY <1>2, <2>2, ConnectLocals, ReadyLocals, ConfigLocals, IonLocals DEF WorksOn, Late
    <3> QED
      BY <1>4, <3>1
  <2>3. CASE \/ ClUndo(Client) \/ ClUnnet(Client) \/ ClUnreserve(Client)
             \/ DlGet(Client) \/ DlDisconnect(Client) \/ DlRemove(Client) \/ DlFinish(Client)
    <3>1. WorksOn(pr)' \/ links'[pr] = NoId
      BY <1>2, <2>3, LateLocals DEF WorksOn
    <3> QED
      BY <1>4, <3>1
  <2> QED
    BY <1>5, <2>1, <2>2, <2>3 DEF LinkStep
<1> QED
  BY <1>3, <1>5

\* Links stay configured.
LEMMA NextConfigures ==
  ASSUME IInv, OnlyPast, Sound, Ion, Configures, OneClient, NetworkCallsSucceed, IonCallsSucceed,
         NoLoops, [Next]_vars
  PROVE  Configures'
<1>1. CASE LinkStep(Client)
  <2>1. \A pr \in Pair : UpSound(pr)'
    BY <1>1, OthersConfigured, StepUpSound DEF Configures
  <2>2. ConfigSound(pc[Client], loc[Client])'
    BY <1>1, StepConfigSound
  <2> QED
    BY <2>1, <2>2 DEF Configures, ConfigSound
<1> QED
  BY <1>1, StepKinds, AsideConfigures

\* At the start there are no links.
LEMMA InitConfigures ==
  ASSUME Init, OneClient
  PROVE  Configures
<1>1. pc[Client] = "idle" /\ \A pr \in Pair : links[pr] = NoId
  BY DEF OneClient, Init
<1> QED
  BY <1>1 DEF Configures, UpSound, ConfigSound, Early

\* Between calls, an UP link between running containers is configured.
LEMMA QuietConfigured ==
  ASSUME IInv, Sound, Configures, OneClient
  PROVE  UpMeansConfigured
<1>1. SUFFICES ASSUME Quiet, NEW pr \in LinkNames, obj[links[pr]].st = "up",
                      \A n \in Ends(pr) : ctr[n].up
               PROVE  Configured(pr)
  BY DEF UpMeansConfigured
<1>2. pr \in Pair /\ links[pr] # NoId
  BY DEF LinkNames
<1>3. ~WorksOn(pr)
  BY <1>1, LabelKinds DEF Quiet, OneClient, WorksOn
<1>4. \A s \in Side : Joined(pr, s) /\ Served(pr, s) /\ At(pr, s) \in Ends(pr)
  BY <1>1, <1>2, <1>3 DEF Configures, UpSound, At, Ends
<1>5. net[pr].att \subseteq Ends(pr) /\ net[pr].sub = obj[links[pr]].idx
  BY <1>2, <1>3 DEF Sound, NetsApart, Settled, OnNetwork
<1>6. pr[1] = At(pr, "a") /\ pr[2] = At(pr, "b") /\ "a" \in Side /\ "b" \in Side
  BY DEF At, Side
<1>7. pr[1] \in net[pr].att /\ pr[2] \in net[pr].att
  BY <1>1, <1>4, <1>6 DEF Joined
<1>8. net[pr].att = Ends(pr)
  BY <1>5, <1>7 DEF Ends
<1>9. \A s \in Side : /\ ctr[At(pr, s)].plans[At(pr, Other(s))] = <<obj[links[pr]].idx, Other(s), obj[links[pr]].cl>>
                      /\ <<obj[links[pr]].idx, Other(s), obj[links[pr]].cl>> \in ctr[At(pr, s)].ducts
  BY <1>1, <1>4, <1>5 DEF Served, IonOf, DuctOf
<1> QED
  BY <1>8, <1>9 DEF Configured

\* Between the calls of a single client, a link that is UP carries traffic both
\* ways as long as its containers run, whatever was rolled back or deleted before
\* (docker_manager.py:385-388, 442-454).
THEOREM UpLinksAreConfigured ==
  ASSUME OneClient, NetworkCallsSucceed, IonCallsSucceed, NoLoops
  PROVE  Spec => []UpMeansConfigured
<1> DEFINE All == OnlyPast /\ Sound /\ Ion /\ Configures
<1>1. Init => All
  BY InitSound, InitHasNoPlaceholder, InitIon, InitConfigures
<1>2. IInv /\ All /\ [Next]_vars => All'
  BY NextKeepsPast, NextKeepsSound, NextKeepsIon, NextConfigures
<1>3. IInv /\ All => UpMeansConfigured
  BY QuietConfigured
<1> QED
  BY <1>1, <1>2, <1>3, InvariantHolds, PTL DEF Spec
=============================================================================

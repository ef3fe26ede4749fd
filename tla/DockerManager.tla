---------------------------- MODULE DockerManager ----------------------------
(***************************************************************************)
(* DockerManager as a whole: worker threads running create_link,            *)
(* delete_link, create_node and delete_node against one Docker daemon.      *)
(***************************************************************************)
EXTENDS NodeOps

\* A container stops by itself (external): it loses its endpoints and ION.
ContainerExits(n) ==
  /\ ctr[n].up
  /\ Fails("exit")
  /\ ctr' = [ctr EXCEPT ![n] = [NoContainer EXCEPT !.cid = ctr[n].cid]]
  /\ net' = DetachedEverywhere(n)
  /\ UNCHANGED <<tableVars, disk, pc, loc, started>>

\* Another writer of the daemon creates a network of a link's name (external;
\* the 409 case of _get_or_create_network). Bound: once, the first fault.
OtherWriter(pr, idx) ==
  /\ net[pr].nid = NoId /\ ~Overlaps(idx)
  /\ faults = 0 /\ Fails("writer")
  /\ net' = [net EXCEPT ![pr] = [nid |-> Boot, sub |-> idx, att |-> {}]]
  /\ UNCHANGED <<tableVars, ctr, disk, pc, loc, started>>

Init ==
  /\ nodes = [n \in Node |-> IF n \in BootNodes
                             THEN [ref |-> [op |-> Boot, named |-> TRUE],
                                   st |-> "running", ips |-> {}]
                             ELSE NoNode]
  /\ cfgDir = [n \in Node |-> IF n \in BootNodes THEN Boot ELSE NoId]
  /\ links = [pr \in Pair |-> NoId]
  /\ obj = [i \in Id |-> NoLink]
  /\ pool = EmptyPool
  /\ ctr = [n \in Node |-> IF n \in BootNodes THEN FreshContainer(Boot) ELSE NoContainer]
  /\ net = [pr \in Pair |-> NoNetwork]
  /\ disk = BootNodes \X {Boot}
  /\ pc = [p \in Proc |-> "idle"]
  /\ loc = [p \in Proc |-> NoLocal]
  /\ started = 0
  /\ faults = 0

Call(p) == LinkCall(p) \/ NodeCall(p)
Step(p) == LinkStep(p) \/ NodeStep(p)

Next ==
  \/ \E p \in Proc : Call(p) \/ Step(p)
  \/ \E n \in Node : ContainerExits(n)
  \/ \E pr \in Pair, idx \in Index : OtherWriter(pr, idx)

Spec == Init /\ [][Next]_vars

\* A worker thread that has begun a call runs on: every Docker and ION call
\* ends, by an answer or a timeout. Clients may stop calling.
FairSpec == Spec /\ \A p \in Proc : WF_vars(Step(p))

-----------------------------------------------------------------------------
(* Types *)

TypeOK ==
  /\ nodes \in [Node -> NodeObject]
  /\ cfgDir \in [Node -> Id \union {NoId}]
  /\ links \in [Pair -> Id \union {NoId}]
  /\ obj \in [Id -> LinkObject]
  /\ pool \in Pool
  /\ ctr \in [Node -> Container]
  /\ net \in [Pair -> Network]
  /\ disk \subseteq Node \X Id
  /\ pc \in [Proc -> Label]
  /\ loc \in [Proc -> Local]
  /\ started \in 0..MaxOps
  /\ faults \in 0..MaxFaults

-----------------------------------------------------------------------------
(* Safety *)

Quiet == \A p \in Proc : pc[p] = "idle"

\* The threads that are creating link pr and have not given up its index.
Builders(pr) == {p \in Proc : loc[p].call = "create_link" /\ loc[p].pr = pr}

\* The indices that link pr occupies: its builders' and, once committed, its own.
Occupies(pr) ==
  {loc[p].idx : p \in Builders(pr)} \union
  (IF links[pr] # NoId /\ Builders(pr) = {} THEN {obj[links[pr]].idx} ELSE {})

\* The pool knows exactly the indices that links occupy, each link occupies
\* one, and no two links occupy the same (subnet_pool.py:9;
\* docker_manager.py:398-433, 467-487, 574-583).
OneIndexPerLink ==
  /\ pool.inUse = UNION {Occupies(pr) : pr \in Pair}
  /\ \A pr \in Pair : Cardinality(Occupies(pr)) = (IF links[pr] = NoId THEN 0 ELSE 1)
  /\ \A p1, p2 \in Pair : p1 # p2 => Occupies(p1) \intersect Occupies(p2) = {}

\* The subnet of every network this manager has made is in use in the pool, so
\* allocate() cannot re-issue it and no failed call leaves a network behind
\* (subnet_pool.py:16-19; docker_manager.py:385-387).
NetworksReserved ==
  \A pr \in Pair : net[pr].nid \notin {NoId, Boot} => net[pr].sub \in pool.inUse

\* When no call is running, each node has the container and the config directory
\* that its own create_node made, and nothing else is left on the daemon or the
\* disk (docker_manager.py:312-337, 356-367).
NodesMatchDocker ==
  Quiet =>
    /\ \A n \in Node : /\ nodes[n].ref.op = ctr[n].cid
                       /\ nodes[n].ref.op = cfgDir[n]
                       /\ Present(n) => nodes[n].ref.named
    /\ disk = {<<n, cfgDir[n]>> : n \in {m \in Node : Present(m)}}

\* When no call is running, each link has its own network, on the subnet of its
\* index, a final status, and an address on both ends; what failed or was deleted
\* has left neither network nor address (docker_manager.py:453-487, 564-583).
LinksMatchDocker ==
  Quiet =>
    \A pr \in Pair :
      /\ links[pr] = NoId => net[pr].nid \in {NoId, Boot}
      /\ links[pr] # NoId => /\ net[pr].nid = obj[links[pr]].nid
                             /\ net[pr].sub = obj[links[pr]].idx
                             /\ obj[links[pr]].st # "down"
      /\ \A n \in Ends(pr) : pr \in nodes[n].ips <=> (links[pr] # NoId /\ Present(n))

\* When no call is running, both ends of each link are nodes: delete_node "Also
\* removes all connected links" (docker_manager.py:340).
LinksHaveNodes ==
  Quiet => \A pr \in LinkNames : \A n \in Ends(pr) : Present(n)

\* Both ends are attached to the link's network, and ION of each has the other's
\* address as the plan and as an outduct.
Configured(pr) ==
  LET k == obj[links[pr]]
  IN /\ net[pr].att = Ends(pr)
     /\ \A s \in Side :
          LET c == ctr[At(pr, s)]
              duct == <<k.idx, Other(s), k.cl>>
          IN c.plans[At(pr, Other(s))] = duct /\ duct \in c.ducts

\* An UP link between running containers is not a false UP
\* (docker_manager.py:385-388, 442-454).
UpMeansConfigured ==
  Quiet => \A pr \in LinkNames :
             obj[links[pr]].st = "up" /\ (\A n \in Ends(pr) : ctr[n].up) => Configured(pr)

\* When no call is running, no plan and no outduct of a container belongs to a
\* link that is gone: delete_link has to "remove ION config"
\* (docker_manager.py:541-562; ion_config.py:176-184).
IonMatchesLinks ==
  Quiet => \A n \in Node :
    LET mine == {pr \in LinkNames : n \in Ends(pr)}
        duct(pr, s) == <<obj[links[pr]].idx, Other(s), obj[links[pr]].cl>>
        known == {duct(pr, s) : pr \in mine, s \in Side}
    IN /\ ctr[n].ducts \subseteq known
       /\ \A m \in Node : ctr[n].plans[m] \in known \union {NoDuct}

\* The caps bound what the manager provisions (settings.py:19-22).
CapsRespected ==
  /\ Cardinality({n \in Node : Present(n)}) <= MaxNodes
  /\ Cardinality({n \in Node : ctr[n].cid # NoId}) <= MaxNodes
  /\ Cardinality(LinkNames) <= MaxLinks

-----------------------------------------------------------------------------
(* Steps, and what running calls hold *)

\* No step takes down the network of a link that is UP, unless the thread
\* that makes it is deleting that very Link object.
NoForeignRemoval ==
  [][\A pr \in Pair :
       (/\ links[pr] # NoId /\ obj[links[pr]].st = "up"
        /\ net[pr].nid = obj[links[pr]].nid /\ net'[pr] # net[pr])
       => \/ \E p \in Proc : pc[p] # pc'[p] /\ loc[p].pr = pr /\ loc[p].lid = links[pr]
          \/ \E n \in Ends(pr) : ctr'[n] # ctr[n]
    ]_vars

\* Reservations: a link and a node that their creator has not committed.
Uncommitted(pr) == links[pr] # NoId /\ obj[links[pr]].st = "down"
Unfinished(n)   == Present(n) /\ ~nodes[n].ref.named

\* A link that was not committed has a thread that is still creating it, and so
\* has a node: whatever fails, and whoever else deletes or creates at the same
\* time, no reservation survives its call (docker_manager.py:251-255, 406-413).
NoOrphanPlaceholder ==
  /\ \A pr \in Pair : Uncommitted(pr) =>
       \E p \in Proc : pc[p] \in CreateLinkLabel /\ loc[p].pr = pr /\ loc[p].op = links[pr]
  /\ \A n \in Node : Unfinished(n) =>
       \E p \in Proc : /\ pc[p] \in CreateNodeLabel /\ loc[p].n = n
                      /\ loc[p].op = nodes[n].ref.op

-----------------------------------------------------------------------------
(* Liveness *)

\* The placeholder that operation i inserted, as long as it is one.
Placeholder(i) ==
  \/ \E pr \in Pair : links[pr] = i /\ Uncommitted(pr)
  \/ \E n \in Node : nodes[n].ref.op = i /\ Unfinished(n)

\* Neither a DOWN link nor a "creating" node stays in the tables: whatever fails
\* and whoever interferes, its creator commits it, or takes it out again
\* (docker_manager.py:251-255, 312-337, 406-413, 453-487).
PlaceholdersResolve == \A i \in Id : Placeholder(i) ~> ~Placeholder(i)
=============================================================================

----------------------------- MODULE DockerState -----------------------------
(***************************************************************************)
(* The state that DockerManager (services/docker_manager.py) shares between *)
(* its threads, the state of the Docker daemon and of ION inside the        *)
(* containers, and the vocabulary of the operations on them.                *)
(*                                                                         *)
(* Every API call runs in a worker thread (asyncio.to_thread). A thread    *)
(* holds _lock only for short sections that call neither Docker nor ION,   *)
(* so a locked section is one step, and each Docker or `docker exec` call  *)
(* that changes something is a step of its own: between two of them any    *)
(* other thread may run.                                                   *)
(***************************************************************************)
EXTENDS SubnetPoolOps

CONSTANTS
  Node,         \* node ids
  Pair,         \* links <<a, b>> with a <= b that clients name in their calls
  CL,           \* convergence layer tokens that clients ask for
  Proc,         \* worker threads
  MayCall,      \* the operations each thread may be asked for
  BootNodes,    \* nodes that exist, running, at the start
  MaxNodes,     \* MAX_NODES
  MaxLinks,     \* MAX_LINKS
  MaxOps,       \* bound: operations started in a behaviour
  MaxFaults,    \* bound: failures of Docker, ION or containers in a behaviour
  FaultAt,      \* the steps (values of pc, or "exit") where one may happen
  LostAt        \* the steps where a call may take effect and yet raise

ASSUME NodeAssumption == Node \subseteq Nat /\ IsFiniteSet(Node) /\ BootNodes \subseteq Node
ASSUME PairAssumption == Pair \subseteq {pr \in Node \X Node : pr[1] <= pr[2]}
ASSUME BoundAssumption == MaxNodes \in Nat /\ MaxLinks \in Nat /\ MaxOps \in Nat /\ MaxFaults \in Nat
ASSUME BootAssumption == Cardinality(BootNodes) <= MaxNodes

VARIABLES
  nodes,        \* self.nodes
  cfgDir,       \* self._config_dirs
  links,        \* self.links: the Link object of each pair, or NoId
  obj,          \* the Link objects ever made; threads keep references to them
  pool,         \* self.subnet_pool
  ctr,          \* Docker's container of each node's name, with its ION state
  net,          \* Docker's network of each pair's name
  disk,         \* config directories <<n, id>> in the temp directory
  pc, loc,      \* where each thread is, and its local variables
  started, faults   \* the counters of MaxOps and MaxFaults

tableVars  == <<nodes, cfgDir, links, obj, pool>>
dockerVars == <<ctr, net>>
vars == <<nodes, cfgDir, links, obj, pool, ctr, net, disk, pc, loc, started, faults>>

-----------------------------------------------------------------------------
(* Identities. Operation k is the k-th call; what it creates carries its    *)
(* identity. Whatever exists at the start carries Boot.                     *)

NoId == 0
Boot == 1
Id   == Boot..(MaxOps + 1)
NewId == started + 2

Side == {"a", "b"}
Other(s) == IF s = "a" THEN "b" ELSE "a"
At(pr, s) == IF s = "a" THEN pr[1] ELSE pr[2]
Ends(pr) == {pr[1], pr[2]}

\* A peer address with its protocol: host 2 (side a) or 3 (side b) of the
\* /24 with that index. An ION plan or outduct is one of these.
Duct == Index \X Side \X CL
NoDuct == <<>>

-----------------------------------------------------------------------------
(* The manager's tables *)

\* A reference to a Node object: create_node first inserts a placeholder
\* without a container name and then replaces it by a second object.
Ref == [op: Id \union {NoId}, named: BOOLEAN]
NoRef == [op |-> NoId, named |-> FALSE]

NodeObject == [ref: Ref, st: {"absent", "creating", "running", "error"}, ips: SUBSET Pair]
NoNode == [ref |-> NoRef, st |-> "absent", ips |-> {}]

Present(n) == nodes[n].st # "absent"
LinkNames == {pr \in Pair : links[pr] # NoId}

\* A Link object: its subnet, its network's name (set on commit only) and
\* identity, its convergence layer and its status.
LinkObject == [idx: Index, named: BOOLEAN, nid: Id \union {NoId}, cl: CL \union {""},
               st: {"down", "up", "error"}]
NoLink == [idx |-> 0, named |-> FALSE, nid |-> NoId, cl |-> "", st |-> "down"]

\* Mutant: the cap of create_node is off by one.
NodeCapOffByOne == Cardinality({n \in Node : Present(n)}) > MaxNodes

NodeCapReached == Cardinality({n \in Node : Present(n)}) >= MaxNodes
LinkCapReached == Cardinality(LinkNames) >= MaxLinks

\* node.ip_addresses[pr] is set or popped through references: an object that
\* is no longer in the table is updated in vain.
WithIps(refs, pr, set) ==
  [n \in Node |->
     IF \E s \in Side : At(pr, s) = n /\ Present(n) /\ nodes[n].ref = refs[s]
     THEN [nodes[n] EXCEPT !.ips = IF set THEN @ \union {pr} ELSE @ \ {pr}]
     ELSE nodes[n]]

\* Mutant: a deleted link leaves its addresses in the Node objects.
IpsKept(refs, pr) == nodes

IpsSet(refs, pr)    == WithIps(refs, pr, TRUE)
IpsPopped(refs, pr) == WithIps(refs, pr, FALSE)

-----------------------------------------------------------------------------
(* The Docker daemon and ION (external): only what the manager relies on   *)

Container == [cid: Id \union {NoId}, up: BOOLEAN,
              plans: [Node -> Duct \union {NoDuct}], ducts: SUBSET Duct]
NoContainer == [cid |-> NoId, up |-> FALSE, plans |-> [n \in Node |-> NoDuct], ducts |-> {}]
FreshContainer(id) == [NoContainer EXCEPT !.cid = id, !.up = TRUE]

Network == [nid: Id \union {NoId}, sub: Index, att: SUBSET Node]
NoNetwork == [nid |-> NoId, sub |-> 0, att |-> {}]

\* Docker refuses a network whose subnet overlaps another network's.
Overlaps(idx) == \E pr \in Pair : net[pr].nid # NoId /\ net[pr].sub = idx

\* connect() gives a running container an endpoint; one more is benign.
Attached(pr, n) ==
  IF ctr[n].up THEN [net EXCEPT ![pr].att = @ \union {n}] ELSE net

\* disconnect(force=True) of nodes' containers, by name, from a network that
\* may no longer be the one of that name.
Disconnected(pr, nid, ns) ==
  IF net[pr].nid = nid THEN [net EXCEPT ![pr].att = @ \ ns] ELSE net

\* What a container that stops or disappears leaves of the networks.
DetachedEverywhere(n) == [pr \in Pair |-> [net[pr] EXCEPT !.att = @ \ {n}]]

\* `a outduct` and `a plan`; adding what exists is reported as success and
\* leaves the existing entry as it is.
WithDuct(c, duct)     == [c EXCEPT !.ducts = @ \union {duct}]
WithPlan(c, peer, duct) == [c EXCEPT !.plans[peer] = IF @ = NoDuct THEN duct ELSE @]

\* `d plan` and `d outduct`; removing what is absent does nothing.
WithoutPlan(c, peer)  == [c EXCEPT !.plans[peer] = NoDuct]
WithoutDuct(c, duct)  == [c EXCEPT !.ducts = @ \ {duct}]

-----------------------------------------------------------------------------
(* Threads *)

Operation == {"create_link", "delete_link", "create_node", "delete_node"}

ASSUME CallAssumption == MayCall \in [Proc -> SUBSET Operation]

\* The local variables of all four operations. `call` is the operation the
\* client asked for: delete_node calls delete_link.
Local == [op: Id \union {NoId}, call: Operation \union {""}, cl: CL \union {""},
          pr: Pair \union {<<>>}, n: Node \union {NoId}, idx: Index, real: Index,
          ref: [Side -> Ref], me: Ref, cid: [Side -> Id \union {NoId}],
          nid: Id \union {NoId}, made: BOOLEAN, con: SUBSET Side, rdy: SUBSET Side,
          ok: BOOLEAN, side: Side, lid: Id \union {NoId}, todo: SUBSET Pair,
          dir: BOOLEAN, st: {"absent", "running", "error"}]

NoLocal == [op |-> NoId, call |-> "", cl |-> "", pr |-> <<>>, n |-> NoId, idx |-> 0, real |-> 0,
            ref |-> [s \in Side |-> NoRef], me |-> NoRef, cid |-> [s \in Side |-> NoId],
            nid |-> NoId, made |-> FALSE, con |-> {}, rdy |-> {},
            ok |-> TRUE, side |-> "a", lid |-> NoId, todo |-> {},
            dir |-> FALSE, st |-> "absent"]

CreateLinkLabel == {"cl_get", "cl_new", "cl_race", "cl_adopt", "cl_ctrs", "cl_connect",
                    "cl_ready", "cl_config", "cl_commit", "cl_undo", "cl_unnet", "cl_unres"}
CreateNodeLabel == {"cn_stale", "cn_dir", "cn_run", "cn_check", "cn_commit", "cn_undo", "cn_unres"}
DeleteLinkLabel == {"dl_ion", "dl_get", "dl_disc", "dl_remove", "dl_finish"}
DeleteNodeLabel == {"dn_next", "dn_ctr", "dn_finish"}
LinkLabel == CreateLinkLabel \union DeleteLinkLabel
NodeLabel == CreateNodeLabel \union DeleteNodeLabel
Label == {"idle"} \union LinkLabel \union NodeLabel

Goto(p, label, l) == /\ pc'  = [pc EXCEPT ![p] = label]
                     /\ loc' = [loc EXCEPT ![p] = l]

\* The call is over: it returns or raises to the API layer.
Finish(p) == Goto(p, "idle", NoLocal)

\* Thread p is asked for operation o.
Begin(p, o) == /\ pc[p] = "idle"
               /\ o \in MayCall[p]
               /\ started < MaxOps
               /\ started' = started + 1

NoFault == UNCHANGED faults

\* The call of step `label` fails without effect.
Fails(label) == /\ label \in FaultAt
                /\ faults < MaxFaults
                /\ faults' = faults + 1

\* The call of step `label` takes effect, but its reply is lost: it raises.
ReplyLost(label) == /\ label \in LostAt
                    /\ faults < MaxFaults
                    /\ faults' = faults + 1
=============================================================================

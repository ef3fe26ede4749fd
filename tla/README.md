# Formal model of DTN-Manager

DTN-Manager (`backend/`, `frontend/`) runs a network of ION-DTN nodes as Docker
containers: a node is a container, a link is a Docker bridge network with an
outduct and an egress plan in the ION of both ends. This directory holds TLA+
modules for the parts of it whose correctness depends on orders, failures and
shared state, TLC configurations that check them on small instances, and proofs
that TLAPS checks for every instance.

    tlc -workers 2 -config MCSequential.cfg MCDockerManager     # one run
    tlapm DockerManagerProofs.tla                               # one proof module

`PROJECT.json` lists the components, runs, mutants (a plausible bug for each
property, and the run that catches it), the source lines of each definition,
findings, hazards and theorems.

## 1. Inventory

| Component | Source | State | Operations | Hard behaviour |
|---|---|---|---|---|
| Subnet pool | `services/subnet_pool.py` | `_next_id`, `_released`, `_in_use` | `allocate`, `reserve`, `from_live`, `release` | long sequences of calls, the last index, adoption of a high index |
| Node and link lifecycle | `services/docker_manager.py:239-587` | `nodes`, `links`, `_config_dirs`, pool, `_epoch`, one re-entrant lock; the daemon; ION in each container | `create_node`, `delete_node`, `create_link`, `delete_link` | the lock covers short sections only: calls of several threads interleave at each Docker or `docker exec` call, each of which may fail or time out; rollbacks |
| Reconcile, cleanup, restart | `docker_manager.py:87-237, 817-858`, `main.py:35-66` | the same tables, rebuilt | `reconcile`, `cleanup_all`, start, shutdown | a crash between any two steps; adopted state is only what Docker knows |
| Link disruption, ION repair | `docker_manager.py:589-644, 1103-1140` | `Link.status`, `Link.netem`, `tc` in containers | `disrupt_link`, `restore_link`, `repair_ion_config` | status written after unlocked work |
| Routing | `docker_manager.py:860-1101` | ION exits | `set_all_exits`, `set_node_exits`, `clear_all_exits`, `add_exit`, `delete_exit`, `apply_raw_exit` | shortest paths; diff computed from a topology that may be stale |
| Scenarios | `api/scenarios.py`, `schemas.py` | files; all of the above | import, export | wipe, rebuild, roll back; snapshots under several lock acquisitions |
| Statistics and streams | `main.py:69-77`, `api/websocket.py`, `docker_manager.py:662-815` | `stats_snapshot`, clients, lines sent | poller, `ws_topology`, `ws_logs` | stale snapshots, bounded tail |
| Frontend synchronisation | `frontend/js/app.js:60-375, 1540-1600` | `topology`, `bundleStats`, `serverEpoch`, `mutationInFlight`, `importInProgress` | polls, mutations, import, sockets | answers out of order, restart of the server |
| Standalone bundles | `services/scenario_export.py` | none | `build_export_archive`, text generators | mostly text |
| Deployment | `start.sh`, `stop.sh`, `docker/` | processes, image | start, stop, reap | outside the program |

**Interaction.** Each HTTP handler runs its manager call in a worker thread
(`asyncio.to_thread`), so calls of several clients, tabs or an import run
concurrently. They share the tables, the pool and Node and Link *objects*,
which threads keep references to after they release the lock. Docker and ION
are reached by calls outside the lock. `delete_node` calls `delete_link`;
import calls `cleanup_all`, `create_node`, `create_link`, `disrupt_link` and
`repair_ion_config`; start-up calls `reconcile`. The frontend polls the
topology with the epoch that each completed create or delete bumps.

**What makes each component correct.** Pool: an index gets a second owner only when
a create adopts a network on an index that another call holds, no index is lost, a
refusal is justified. Lifecycle: one index per link and the
pool knows them; tables, containers, networks, directories and ION agree
whenever no call runs; an UP link really is configured; no reservation survives
its call; caps hold. Restart: what is adopted equals what is live, and the pool
knows every live subnet. Routing: the exits of each node are the shortest-path
set of the current links. Scenarios: import leaves the old, the new or an empty
topology, an exported file can be imported. Streams and frontend: the view
eventually shows the server's state, and never statistics of a node that is
gone.

## 2. Plan

Done:

1. `SubnetPoolOps`, `IndexAllocator`, `SubnetPool` and their proofs.
2. `DockerState`, `LinkOps`, `NodeOps`, `DockerManager` for the lifecycle
   operations; proofs of all their invariants.
3. Routing (`NextHops`, `LiveState`, `ExitRoutes`), link disruption
   (`Disruption`), exported documents (`ScenarioFiles`), composed in
   `LiveTopology`; proofs of all its properties, and of the search on any graph.
4. `Recovery`: restart at any step, `reconcile`, `cleanup_all`, import, repair; proofs
   in `RecoveryProofs`.
5. `NodeStats` and `LiveView`: poller, streams, the browser's view, and the
   proofs in `LiveViewProofs`.

Left:

6. A run of `Recovery` with two threads, so that a cleanup meets calls of clients (the
   theorems about it hold for any number); the frontend's gate on mutations.

## 3. Modules

| Module | Models |
|---|---|
| `SubnetPoolOps` | the pool's methods as operators on its value |
| `IndexAllocator` | abstract: leases of resources; issued to one owner each, unless taken from under an owner |
| `SubnetPool` | the pool driven by owners as the manager drives it, and their networks; implements `IndexAllocator` |
| `DockerState` | shared tables, Docker and ION state, thread locals, failures |
| `LinkOps` | `create_link`, `delete_link` |
| `NodeOps` | `create_node`, `delete_node` |
| `DockerManager` | the composition of these, the environment, properties |
| `Recovery` | crash, shutdown and `reconcile`, `cleanup_all`, import with its rollback, `repair_ion_config`, over the steps of `DockerManager` |
| `NextHops` | the breadth-first search, and distance as its reference |
| `LiveState` | a running network: tables, exits, tc, documents; of the lifecycle operations, the locked sections and the steps in which interfaces and containers go |
| `ExitRoutes` | the operations on exits, one docker exec per step |
| `Disruption` | `disrupt_link`, `restore_link` |
| `ScenarioFiles` | export of scenario files and bundles, node configurations, validation, what an import brings back |
| `LiveTopology` | the composition of the last five, properties |
| `NodeStats` | nodes, ION's log, the poller |
| `LiveView` | streams and the browser, over `NodeStats` |
| `SubnetPoolOpsProofs`, `SubnetPoolProofs`, `DockerManagerProofs`, `RecoveryProofs`, `LiveViewProofs` | lemmas and theorems about the modules they are named after |
| `OneClientProofs` | what a single client of `DockerManager` may rely on |
| `NextHopsProofs` | the search, on any graph |
| `LiveTopologyProofs` | the running network: types, documents, exits and the paths of bundles, status of links and `tc` |
| `MCSubnetPool`, `MCDockerManager`, `MCRecovery`, `MCLiveTopology`, `MCLiveView` | instances for TLC |

Three compositions share the nodes and links of the manager at different
detail. `DockerManager` has every Docker and ION call of the lifecycle
operations; `Recovery` runs jobs over the same steps. `LiveTopology` has of
them what exits, tc and documents can tell: the locked sections, and, step by step
and with their failures, the deletions, in which interfaces and containers go.
`NodeStats` knows of a node only its identity and whether it is absent, reserved or
made. Mutated forms of definitions (`Mutant:` in the comment) stand
beside the definitions they replace; no specification uses them.

**Pool.** `release()` keeps `_released` sorted and without duplicates and
`allocate()` takes its head, so the list is a set of which the least element is
taken. Each method runs under the manager's lock and is one step. Between these
steps, `SubnetPool` creates and removes the networks of the links: Docker refuses a
subnet that is in use, a removal may never come (`Release` does not wait for it), and
so a call may find the network of an earlier one and adopt its index, whoever owns
that by now (`AdoptReal`). `shared` is a history variable: the indices that an adoption
gave to a second owner, until all their owners have let go.

**State of the manager.** `nodes`, `cfgDir`, `links`, `pool` are the dicts and
the pool. A link's table entry is the identity of a Link object in the heap
`obj`: threads hold such identities in `loc`, as the code holds object
references, so that an operation may work on an object that has left the table.
A Node object is named by a reference (`Ref`), because `create_node` puts a
second object in place of its placeholder; setting or popping an address through
a stale reference changes nothing in the table (`WithIps`). `ctr` and `net` are
the daemon's containers and networks by name, with the identity of what carries
the name; ION's plans and outducts belong to the container. `disk` is the set of
config directories. An identity is the number of the call that made the thing.
Addresses are `<<index, side, protocol>>`.

**Steps.** A section under `_lock` calls neither Docker nor ION, so it is one
step. Each Docker or `docker exec` call that changes something, or whose answer
decides what comes next, is a step. The labels of `pc` follow the code:
`cl_get`, `cl_new`, `cl_race` (`_get_or_create_network`), `cl_adopt`,
`cl_ctrs`, `cl_connect`, `cl_ready`, `cl_config`, `cl_commit`, and `cl_undo`,
`cl_unnet`, `cl_unres` for the rollback; `dl_*`, `cn_*`, `dn_*` alike. A call
fails without effect (`Fails`) or takes effect and raises (`ReplyLost`, a client
timeout). `ContainerExits` and `OtherWriter` are the environment.

**Abstractions.**
- `containers.get` followed by `remove` or `disconnect` is one step, as is
  polling readiness of both ends; `delete_node` handles its links in any order.
- The automatic node id is one of the ids a client may name.
- Docker's client raises on an empty name, so a placeholder (empty container or
  network name) can neither be removed nor disconnected. (The fake client of the
  tests answers "not found" instead.)
- A network with a link's name has a subnet of the pool's block; the branch for
  foreign blocks (`new_idx is None`) is not modelled.
- `a plan` and `a outduct` for an existing entry succeed and keep it, as
  `_BENIGN_ION` assumes; `d ...` for an absent one does nothing.
- `_epoch`, statistics, logs, `tc`, exits and API validation are not in these
  modules, but in those below.
- Of the outduct and the plan of one end, a failure lets a prefix succeed (`ClConfig`,
  `RepairEnd`); the code goes on to the plan when ION has refused the outduct
  (`docker_manager.py:532-539, 1123-1139`). Either way the end is not configured, which
  makes the link ERROR in `create_link`.

**Recovery.** A job (`job[p]`) is a cleanup or an import. It runs in a thread,
calls the four operations as the steps of `LinkOps` and `NodeOps`, and sees of
each only whether it returned or raised (`Raising`, `Returned`). `Restart` may
come between any two steps: it clears threads, jobs, `_config_dirs` and the
tables and computes what `reconcile()` makes of the daemon (`Reconciled`):
containers with the label, stopped or not, networks with the label and at least
one endpoint, the others removed, the pool seeded with the indices of what was
adopted. It may raise on the way, and the constructor swallows it: then tables
are partial and the pool is empty (`seeded` is false). `SweepList`,
`SweepRemove` and `SweepNext` are the three listings of `cleanup_all` and the
removals they lead to, by identity. A file is a set of nodes, a sequence of
links and the links to disrupt; the disruption itself may only succeed or time
out here. `RepairEnd` is one end of a link: outduct, then plan. Exits that the
import applies last change nothing that these properties see.

**Running network.** `links` holds the Link objects themselves with the number of
the call that made them, so that `disrupt_link` can write to an object that is no
longer in the table (`Written`). `tc[pr]` is the qdisc on both ends, or
`Cut` at an end that has no interface. An exit is
`<<first, last, gateway>>`; ION refuses a second one with the same range. Each
`l exit`, `a exit`, `d exit` and each `tc` is a step that may fail (a refusal
goes on, a timeout ends the call). The snapshot of the topology and the search on
it are one step per node (`RtNext`), as in the code. `Interface` finds a link by
the address that was read before: it may be another link's by then.
`delete_link` is its lookup, the disconnection of the ends with the removal of the
network (`NetGone`), and the removal from the table (`LinkPopped`); the second may
fail with any of the ends disconnected, and the link stays, with its status.
`delete_node` is its lookup, the deletion of each link (`GoneNext`), whose failure it
ignores, the removal of the container and that from the table. A container exits at
any time (`ContainerExits`); its node stays, its ION answers no more, and the links at
it lose their interfaces there (`Unwired`). `aims`,
`touched` and `torn` are history variables and guard nothing: the sets of exits
that overlapping reconciliations of one node aimed at, the calls that something
interfered with, and the links whose qdiscs are in doubt. A link is in doubt from
the moment that two calls work on it at the same time, that a `tc` fails or does not
run, or that a `tc` meant for another link hits it, until a call that
nothing interferes with sets both ends anew.

- A Python set of ids is iterated in an order that its hash table decides;
  `Orders` is a set of orders and each search takes any of them.
- Nodes of a call are taken in ascending order, since nothing depends on it.
- Routes are computed over all links of the table, whatever their status, as the
  code does. `RoutesDeliver` requires that a gateway is a neighbour, since a bundle
  leaves by a plan.
- The ION of a node answers from its commit on.
- The lookup of the interface and the `tc` that follows it on one end are one step
  (`Tc`; `docker_manager.py:607-614` has two docker execs).
- The removal of plans in `delete_link` is part of its lookup. `RoutesDeliver` takes a
  link with both interfaces to have its plans; its comment names the exception.
- What a second deletion of a link does to a link of that name made between the removal
  of the network and the pop is in `DockerManager` (`double_delete`). Here the name is in
  doubt (`torn`) from then on, and `LinkPopped` leaves no qdisc behind.

**Documents.** An export reads the nodes, the exits of each node and the links
under locks of their own; each is a step, and a file records whether anything
interfered (`calm`). A file, the inputs of `node.rc` and those of the compose file
are records and sets; their text is left out. `Rebuilt` is what `_do_import` makes
of a file when no call fails; the import step by step, with failures, is in
`Recovery`.

**Statistics and streams.** Each node ever made has an identity (`inc`), which the
code does not know and the properties compare. `ionlog` holds the last lines of
`ion.log`; `bpstats` makes ION write a block (`printing`) line by line while the
poller counts, triggers, waits and reads. The count of blocks is kept as what was
written since it was first taken (`poll.fresh`). ION is at most one block behind
when it is asked again. `pushed`, `asked`, `askedStats` and `logs` are messages on
their way; `session` is the server's side of `ws_logs` and `term` the terminal.
The answer about statistics is taken when it is asked for: a late answer is an
early request. `boot_id` is the process id; two processes are assumed to differ in
it. Changes of links and the end of `cleanup_all` advance the epoch, too, which only
makes it larger than here. The removal of a container and of its node from the table
are one step (`NodeStats.DeleteNode`; `docker_manager.py:357, 362-365`): in between, the
poller reads nothing from the node, as it does from one that does not answer.

## 4. Runs

| Run | Checks | Result |
|---|---|---|
| `subnet_pool` | types, partition of the indices, refusals, refinement | holds |
| `subnet_pool_shared` | "no duplicate allocations": no index has two owners | violated |
| `subnet_pool_exhausted` | "no free /24": refused only when all are taken | violated |
| `sequential` | nine invariants, one client with failures | hold |
| `concurrent` | indices, nodes, no foreign removal; two threads, one deletes (for networks see 6) | hold |
| `settles` | reservations belong to running calls and are resolved; both delete | hold |
| `double_delete` | `OneIndexPerLink` when two threads delete | violated |
| `dangling_link` | `LinksHaveNodes` with two threads | violated |
| `false_up` | `UpMeansConfigured` with one client and one timeout | violated |
| `operations` | routes, tc, documents; two threads, ten scenes | hold |
| `restart` | types, crash and adoption, cleanup, import; one thread | hold |
| `streams` | statistics, view, terminals; five scenes, under fairness | hold |

**Bounds.** Pool: three indices (256 in the program) and four owners, so that the
pool runs full and each index can be owned, by two at once, released, adopted or
jumped over; nothing in the code compares indices except by order and with the last
one. Networks start anywhere, with or without an owner.
Manager: `MaxOps` calls per behaviour (four: build, tear down, build again, and
one more), `MaxFaults` failures (two sequentially, one concurrently), two or
three nodes of which some exist at the start, one to three links, as few
indices as links so that re-use and exhaustion of the counter happen, caps that
are reached. The concurrent runs use links that share a node, because that is
what operations of two threads can meet at. `OtherWriter` acts at most once.
An exhausted pool is not reached in the manager's instances, as in the program
with its default caps (`MAX_LINKS` 128 of 256 indices); the pool's run covers it.
Deadlock is not checked in the manager's instances: clients may stop calling, and
the bound on calls ends every behaviour. The pool's instances are checked for it.

`operations`: four nodes on a ring, where opposite nodes have two shortest paths,
and which becomes a path when it loses a link; two
iteration orders (ascending and descending), so that two nodes may break a tie
differently; two to four calls of two threads per behaviour, and one failure, so
that two calls overlap and a later one shows what they left. A *scene* is a start
(nodes, links, exits that were set for other links) and the calls that each
thread may be asked for: `Broken` (a link has gone since the exits were
set), `Closed` (a link has come; links go while exits are set), `Leaving` (a node
goes, with its links, while exits are set), `Shaky` (disrupt and restore while links are
deleted and made), `Clash` (disrupt against disrupt and restore), `Moving` and `Fading`
(documents while the topology changes), `Early` (a link is disrupted before `create_link`
commits it), `Anew` (a node is deleted and made anew while its link is made and
disrupted) and `Twice` (two deletions of a link that is made anew and disrupted
meanwhile). The one failure may be a container's
exit, at any time, or that of a step of a deletion. Three netem configurations reach
each status, loss and delay alone, and jitter without a delay. No state can be in two scenes, so that the whole is their sum
and not their product.

`restart`: two nodes and their link, two calls by clients, one job, one restart,
two failures. A restart meets any step of any call or job, before or after a
failure; one link is enough for a network to be half-built, half-attached,
orphaned or stopped, and `TwiceFile` makes the second link of an import fail.
One thread: what calls of two threads do to each other is in `concurrent`, and a
cleanup takes its nodes and links from one snapshot. With one thread nothing that
a cleanup wants to delete can be gone before, so those branches of
`CallDeleteLink` and `CallDeleteNode` are not taken here.

`streams`: one node that is made twice (`MaxMade`), three bundles, a window that
does not hold two whole blocks (four lines for blocks of three), two readings of
it, a tail of two lines against a log of three, one failure, one lost connection,
one import, one restart. Node identity is what matters, and the code handles each
node by itself; requests are one at a time because a late answer already crosses
with the socket's messages.

**Which calls fail.** `sequential`: every call that builds, containers that exit,
the other writer; calls that clean up succeed, because the code ignores their
failures by design and leaves what they should have removed (see 5), and
`cl_config` succeeds because of `false_up`. `concurrent`: every call but those
of the rollbacks. `settles`: every call, and every lost reply. `operations`:
the building of nodes and links, every ION command and listing, `tc`, the
removal of networks and containers in a deletion, and containers that exit. `restart`: all
but the rollbacks, which leak by design (see 5), and a few labels whose failure
has the effect of another (`MCRecovery` names them); replies are lost where what
took effect is a removal or a container. `streams`: `grep`, `bpstats`, `tail`,
each by an error or a timeout, and an answer that never comes.

**Fairness.** `FairSpec` gives each thread weak fairness on its steps: a worker
thread that has begun a call runs on, and each Docker or ION call ends, by an
answer or by a timeout (`_exec` has one, the Docker client has one; the readiness
poll is bounded). Nothing is assumed of clients or of the environment. Locks are
held for sections without calls, so a thread never waits for another one's call.
`RecSpec` assumes the same of a thread that runs a job. `LiveSpec` assumes that
each loop goes on (poller, `ws_topology`, `ws_logs`: `while True` around bounded
calls), that each timer of the browser fires, that a request which is not lost is
answered and an answer shown, that ION ends a block it has begun, and that an
import returns. Nodes, bundles, failures, restarts and lost connections happen or
not.

**What the passing runs show.** Single-client use with failures keeps tables,
pool, daemon, disk and ION in agreement at every quiescent point; with two threads,
as long as one of them deletes, each link keeps an index of its own, nodes agree with
daemon and disk, and nobody removes the network of an UP link;
reservations never outlive their calls and are always resolved, with any mix.

`subnet_pool`: whatever is adopted, no index is lost, and an index that a link owns
goes to another one only through an adoption: the pool itself issues it a second time
only after that.

`operations`: overlapping reconciliations of a node end with exactly the exits
wanted, if they aimed at the same destinations and nothing else interfered, even
though each works on a listing that the other makes stale, and whether or not they
report errors; when all nodes run and are settled for the present links, hop-by-hop
forwarding takes a shortest path although each node broke ties for itself; the status of a link and `tc` agree except where an end has no interface
(`Unwired`) or the qdiscs are in doubt (`torn`), and the doubt ends; a calm export
of a portable topology passes validation and rebuilds it; a bundle agrees with
itself at all times.

`restart`: after any crash, with any complete reconciliation, an UP link has two
running, attached ends, every labelled network is in the tables, the pool knows
all their indices, and a restart between calls is transparent; a cleanup empties
the daemon whatever failed before its sweep; an import brings what the file says
or leaves nothing of its own; all jobs end.

`streams`: epoch and process identify the node set; a badge goes no later than its
node; what the view shows is in the end what the server has, through late answers,
failed imports and a restart; statistics do not fall back while a node lives;
terminals get lines in order, once per connection, and all of them up to the
length of the tail.

## 5. Findings

- **Exhausted with free subnets.** `reserve()` moves the counter past indices it
  does not put on the free list. After the adoption of a high index, allocation
  stops early, and the message claims that no /24 is free.
- **One index, two links.** `create_link` reserves the index of a network that it
  adopts, and nobody asks whether another call owns it. One call is given index 5 and
  its `networks.create()` is outstanding; another finds the stray network of its own
  link on that subnet and takes the index as well. Docker refuses the first, its
  rollback releases the index, and the pool issues it again, though a live link has it.
- **Double delete.** `delete_link` looks the link up under one lock section and
  ends under another that does not look again. Two calls, with the link created
  anew in between, release the new link's index and drop its entry.
- **Dangling link.** A link created while `delete_node` runs keeps an end that is
  no node; routing then raises `KeyError`. The same happens to a single client
  when the `delete_link` inside fails, since `delete_node` ignores that.
- **False UP, one client.** The rollback of `create_link` leaves the outducts and
  plans that were added before a command timed out. When another link takes the
  index and the link is created again, ION's "duplicate" is taken for success:
  the link is UP and its plan points to the other link's address.
- **False UP, two threads.** `delete_link` accepts a link that is still being
  created, removes its plans, fails on the empty network name, and the link is
  committed as UP.
- **udp and stcp outducts survive** their link: the delete command is generated
  with the default protocol. (No run of its own: `IonMatchesLinks` with `CL = {"udp"}`
  is violated by one client without any failure.)

Checked but left out of the passing runs, because the property fails by design of
the code: when `network.remove()` of the rollback fails, or the reply of
`networks.create()` is lost, the network stays while its index is released, and
each later allocation of that index is refused by Docker; two `delete_node` calls
for one id may remove the container of a node that was created in between.

The findings below have no run of their own. They were met while modelling, in the
code or in a counterexample, and the properties are stated so as to hold beside
them, each with the exception named in its comment or here.

*Exits and links.*
- The lock does not serialize `disrupt_link` and `restore_link`: `tc` runs between
  two locked sections. Two of them on one link may leave the status of one and the
  qdiscs of the other. One whose link is deleted meanwhile may disrupt the link
  that has taken over its index at that node (`torn`).
- A link can be disrupted while `create_link` still works on it. The commit then
  makes it UP although `tc` drops everything and `Link.netem` says so; a rollback
  frees its index while the qdiscs are there.
- `tc` may reach one end only, for an end is made anew or its container is gone.
  The status is then written all the same.
- A `delete_link` whose `network.remove()` raises has disconnected the ends: the link
  stays, DOWN or DEGRADED as it was, without any qdisc, and UP without its plans. A
  container that exits takes its interfaces along, and the status says nothing of it.
- `restore_link` sets UP whatever the status was, so that a half-built ERROR link
  becomes UP; `repair_ion_config`, which is meant to mend such links, never
  changes their status.
- The listing that verifies exits counts as empty when it fails: a node with stale
  exits that wants none is then reported as converged. A node left alone keeps its
  exits. `add_exit` reports the gateway it was asked for although ION may have kept
  another. No property is stated of the reported errors: the call compares its last
  listing with what it wanted, and a property would restate that.

*Restart.*
- A network with both ends attached is adopted as UP, configured or not.
- A udp link is adopted as tcpcl, a disrupted one as UP while `tc` is in force.
  The network of two stopped containers has no endpoints and is removed.
- If `reconcile()` raises on the way, the manager runs with part of the topology
  and a pool that knows no index.

*Scenarios.*
- A file that passes the validation (an unknown convergence layer, a link twice)
  may still fail after the old topology has been wiped.
- A timeout in the repair, called non-fatal, fails the import.
- Some topologies export to files that the import refuses or changes: ids above the
  cap, a link of a node to itself, jitter without loss or delay, an ERROR link, an
  export while a node is deleted (`Portable`, `calm`).
- A bundle made while a node and its link are created, or with a dangling link,
  fails with `KeyError`.

*Streams and browser.*
- `ws_logs` compares lengths of a tail of 100 lines: it stops when the log has 100,
  skips the first lines of a node made anew, and counts Docker's complaint about a
  missing container as a line (`Due` says up to where lines arrive).
- A placeholder keeps or gets the badge of the deleted node that had its id, and a
  badge stays in memory when the topology becomes empty.
- The comment on the start of "the last bpstats block" is not what the loop does;
  what it says would let statistics fall back (mutant `LastBlock`).
- `fetchTopology()` after a failed import returns at once, for the gate is still
  closed; an answer asked for before an import is shown during it. Topologies that
  are polled have no counts of bundles, so that counts come and go between them
  and those of the socket.

## 6. Proofs

`SubnetPoolProofs`, for any number of indices and owners, from
`MaxIndexAssumption` and `NoIndexAssumption`: the invariant
`TypeOK /\ Partition /\ OthersExclusive` is inductive. Partition alone is not: that a
release frees the index needs that nobody else owns it, or that the index is shared
(`OthersExclusive`), in which case it is owned and on the released list at once.
`SubnetPoolOpsProofs` states once what each operator does to the three sets
(`AllocatedEffect`, `RefusedEffect`, `ReleasedEffect`, `FromLiveEffect`), with
the existence of the least element from well-foundedness of `<` on the naturals.
From it follow `TypeCorrect`, `NoIndexLost`, `RefusalJustified`,
`OnlyAdoptionDuplicates` (nothing but an adoption gives an index a second owner, and
when its owners have let go the pool is right again), and, step by
step, `PoolImplementsAllocator`. No condition is put on adoptions: the abstract
allocator has them, and says what it no longer protects.

`DockerManagerProofs`, for any nodes, links, threads, mix of calls, bounds and
set of failures, from the assumptions of `DockerState`:

- `TypeCorrect`. `TypeOK` is not inductive: a step uses the pair, node or object
  that an earlier step put into the thread's locals. `IInv` adds `LocalOK`, what
  each label promises of the locals. A thread's move (`Moves`) and the shared
  state (`SharedOK`) are treated separately, with one lemma per group of actions.
- `NoReservationOutlivesItsCall` (`[]NoOrphanPlaceholder`). Given `IInv`, the
  property is inductive together with `OnlyPast` (the table holds only objects of
  past calls, so that a fresh identity is new). Each step either moves the
  creator along its own operation (`SameJob`), or ends a call after the locked
  section that commits or takes out what the table holds under its name. The
  point is that these sections work by name, not by object: another thread's
  link or node of that name is resolved too, and nobody's reservation is left.
- `IndicesAreLeased` (`[]OneIndexPerLink`), `NetworksAreReserved`
  (`[]NetworksReserved`), `UpNetworksStay` (`NoForeignRemoval`). None is inductive:
  that a call gives back the right index, and takes down the right network, depends
  on how far every other call has come. `Leases` says it: a creator holds its own
  placeholder, and from the creation of the network on a network with its own
  identity on its own index (`BuildOK`, `Held`); a link has one creator at most; a
  deletion works on the link that is in the table, or on one that was rolled back
  since and has no network to lose (`DeleteOK`); each network belongs to the link in
  the table, or to its creator (`LinkOK`); the pool holds the indices of the table,
  and no two are the same (`IndicesOK`).
- `NodesKeepWhatTheyMade` (`[]NodesMatchDocker`) and `CapsAreRespected`
  (`[]CapsRespected`), in the same way from `NodeLeases`: a creator has its
  placeholder to itself and knows which of container and directory it has made
  (`MakeOK`), a deletion works on the Node object it looked up (`RemoveOK`), a
  committed node has the container and the directory of one call (`NodeOK`).
  Only the two locked reservations add to the tables, and they look at the caps
  (`NodesGrow`, `LinksGrow`); what is on the daemon has its node.

`IndicesAreLeased` and those after it have conditions, because without them the code breaks them (section 5);
each is a hypothesis of the theorem:

| Condition | Says | Without it |
|---|---|---|
| `OneDeletes` | one thread at most may be asked to delete | two deletions of a link, or of a node, end by name and take out what was made in between (`double_delete`) |
| `NetworksTidy` | rollbacks of `create_link` succeed, networks that were made or attached are reported so, nobody else makes networks of these names | a network stays whose index is free; adopting it later may take the index of another link (`subnet_pool_shared`) |
| `NodesTidy` | the removal of the container in the rollback of `create_node` succeeds | a container stays without a node |
| `"dn_ctr" \notin LostAt` | an answer to the removal of a node's container arrives | the node stays in the table without its container |

All other calls may fail, before or after they took effect, and containers may stop at
any time. The instance of `concurrent` satisfies all four; `sequential` checks the same
properties with one thread and a foreign writer, which the theorems leave out.

`OneClientProofs`, for any nodes, links, indices and bounds, and one client whose calls come
one after the other; containers may stop, another writer may make a network, and every call
that is not named below may fail:

- `LinksKeepTheirNodes` (`[]LinksHaveNodes`) and `LinksAreOnTheirNetworks`
  (`[]LinksMatchDocker`), from `Sound`: each link that the call at hand is not about is
  settled (`Settled`), and of the call it says how far it has come with the network and the
  addresses (`BuildSound`, `DeleteSound`) and which links of the node are left to delete
  (`RemoveSound`).
- `IonForgetsDeletedLinks` (`[]IonMatchesLinks`), from `Ion` and `DuctsSound`: each plan and
  each outduct is one that some link may have at present (`MayHave`): `create_link` may have
  it from `cl_config` on, `delete_link` until it has taken that side down. A container that
  does not run has none (`OffIsEmpty`).
- `UpLinksAreConfigured` (`[]UpMeansConfigured`), from `Configures`: an end that runs is on
  the network of its link (`Joined`), and ION has its entries (`Served`). ION's "duplicate"
  is taken for success, so that a plan which is there already must be the link's own. It is
  (`PlanIsOwn`), because by `Ion` each plan is of a link between these two nodes that is there.

Most steps are about no link or about another one; `Aside` says what they leave alone. The
conditions:

| Condition | Says | Without it |
|---|---|---|
| `OneClient` | one thread | a node goes while a link to it is made (`dangling_link`) |
| `NetworkCallsSucceed` | what takes networks and endpoints away succeeds; what was made or attached is reported so | a network stays without its link; `delete_node` goes on without the link |
| `IonCallsSucceed` | no command to ION times out while a link is configured or taken down | an outduct or a plan stays, and is taken for another link's (`false_up`) |
| `CL \subseteq {"tcp"}` | all links are tcp (`IonForgetsDeletedLinks` only) | the outduct stays (section 5) |
| `NoLoops` | no link joins a node to itself (`UpLinksAreConfigured` only); the API does not forbid it | the two ends share one plan, which has one of the two addresses |

The instance of `sequential` satisfies all of them.

`RecoveryProofs`, for any nodes, links, files, threads, jobs, failures and restarts:

- `RestartsKeepTypes` (`[]RecTypeOK`), from `RecInv`. Networks keep apart by identity and
  by subnet across crashes (`NetsOK`): Docker refuses overlaps, and a creation that is still
  to come has an identity of its own. A link in the table has a layer (`LayersOK`), a loop
  of a job works on what it was meant for, and a call that an import waits for is about the
  node or link at the head of what is left (`JobsOK`).
- `IndicesOutliveCrashes` (`[]IndicesSurvive`). A crash leaves half-built links, released
  indices and networks that nobody holds. Whatever they are, a complete `reconcile()`
  restores `Leases` (`ReconciledRestores`): by `NetsOK` the networks that it adopts have
  subnets of their own, and those it does not adopt it removes. From there on the steps of
  calls and jobs keep `Leases`, as in `DockerManagerProofs`; a sweep may take the network of
  a link away, but never gives it another (`DockerOnlyKeeps`). If `reconcile()` did not come
  to its end, the pool knows no index and nothing is claimed (`seeded`).
- `WhatIsAdoptedIsLive` (`RestartAdopts`, an action property), with `EndsRun`: what has an
  endpoint runs, because Docker takes the endpoints of a container that stops. So the two
  endpoints of a link that is adopted as UP are of running containers.
- `CleanupsEmptyDocker` (`SweepEmptiesDocker`, an action property), for one thread. Whatever
  a crash left on the daemon, what is gone leaves nothing behind (`Tidy`): a name without an
  identity has no address, network or endpoint either. `SweepSound` follows the sweep: its
  mark is never above the count of failures, and as long as the two are equal, what is not
  gone yet is in the listing at hand or comes with a later one (`Swept`). Containers go first and take their endpoints along (`EndsRun`: what has an
  endpoint has a container), so that Docker refuses none of the networks, and the last
  listing sees those without the label as well. A container that stops by itself is still
  there for the sweep. With several threads a call may make a container behind the first
  listing, hence the condition.
- `RestartsAreTransparent` (`RestartTransparent`, an action property), for one thread. What a
  restart makes of the daemon equals what was in the tables because the tables agreed with
  the daemon before, and that must hold after any crash, sweep or reconcile that failed half-way:
  a node in the table whose container is there has the one of its own commit (`NodesOwn`;
  while it is made, nobody else makes one of that name), and a Link object has the subnet of
  its network wherever that is still there (`SubsOK`). The second needs that a creator which
  finds a network on another subnet goes on with that subnet (`Settling`), and that no object
  has the identity of a network yet to be made.

All five leave the foreign writer out, since `reconcile()` could not tell its network
from one of the manager's; `IndicesOutliveCrashes` has `OneDeletes` and `NetworksTidy` besides.
The instance of `restart` satisfies all of them.

`NextHopsProofs`, for any finite graph, source and order of iteration:
`NextHopsAreShortest`. What the search reaches is what a path reaches, and the first hop
it records is one link nearer to the destination. `NextHop` and `Ball` are recursive
functions, and the induction theorems of the library cannot be used; that they exist and
satisfy their equations is shown along the least number at which they would not
(`MinIsLeast`, `UpTo`, `SearchExists`, `BallsExist`). The invariant of the search
(`Queued`, `Level`) says that the queue holds nodes of one distance and behind them
those of the next, that every node nearer is visited, and that what is visited has its first
hop on a shortest path. A level ends when its last node is expanded (`NextLevel`).

`LiveTopologyProofs`, for any nodes, links, threads, scenes, orders, netem configurations
and failures. It is assumed of the constants that a scene starts with links between its own
nodes (`SceneAssumption`), that an order lists each node once, as a Python set does
(`OrderAssumption`), that the bounds are numbers, and the types of nodes, links and
configurations (`LiveState`). There are more indices than links, so that the pool never
refuses; the manager's modules treat a pool that does.

- `TypeCorrect` (`[]TypeOK`), from `Shape`, which adds the types of locals by label
  (`Fits`) and that links carry stamps of past calls.
- `BundlesCohere` (`[]BundleCoheres`) and `ExportsRebuild` (`ExportRebuilds`), from
  `Drafted`: a document under way holds, of a topology that may have changed since, what
  fits together; and if nothing interfered, what there is now.
- `ReconciliationConverges` (`[]ReconcilesConverge`), from `AllConverge`. A thread's
  listing is stale as soon as another thread deletes or adds. The invariant keeps that
  whatever is not wanted by anyone was there when a thread listed, so that this thread
  takes it away; that a thread which takes an exit away will put one for the same
  destination back (`Restores`); and that a destination which is wanted has an exit or a
  thread at work that will add one (`Promised`). The last of the threads therefore leaves
  all that are wanted and nothing else, although no thread may have seen that state.
- `BundlesArrive` (`[]RoutesDeliver`), while all containers run and no link lacks an
  interface. Each node's exits come from a search of its own,
  which broke ties in its own order. By `NextHopsAreShortest` each hop is one link nearer to
  the destination, so that no choice of ties makes a loop.
- `StatusIsTrue` (`[]StatusMatchesTc`), from `Sound`: of each call between its lookup and
  its end, which link it has under its address (`Flight`: the stamp and the index tell a link
  from all others) and what of its qdiscs are in place (`Applied`); of each deletion, that a
  link of its name which it does not hold is in doubt (`Leaving`); of each link that no call
  works on, that is not in doubt and has both interfaces (`Clear`), that status and `tc`
  match (`Settles`); indices are unique and a name without a link has no qdisc.

The attempt showed where model and property were wrong. A link that is disrupted while it
is created was not in doubt, though its commit makes it UP; the last `tc` counted as having
reached an end that was gone; a late `tc` did not put the link in doubt whose index it hit;
threads without a link counted as overlapping; and `OrderAssumption` allowed repetitions.
The scenes `Early` and `Anew` reach the first three, and the definitions say now what the code
does.

`LiveViewProofs`, for any nodes, requests, scenes, classes and bounds. It is assumed that
nodes are positive numbers (`NodeAssumption`), that the bounds are numbers, that `ws_logs`
reads at least one line (`TailAssumption`), and that the window onto `ion.log` is longer than
the lines of the classes in a block (`WindowAssumption`; the code reads 60 lines, for seven
classes):

- `EpochSound` (`[]EpochIdentifiesNodes`). The property itself is not inductive: a
  topology that is late is compared with later ones. `IInv` says of everything that
  the browser holds or may get to see (`Held`) that it is either of the past, an
  earlier process or an earlier epoch of this one, or has the nodes that are made
  now, and that two of one process and epoch agree. A snapshot may join what is
  held (`SnapshotJoins`); when the server moves on, what is held becomes the past
  (`ServerMovesOn`); a placeholder that comes or goes changes neither epoch nor
  the nodes that are made (`PlaceholderStep`).
- `StaleBadgesFlushed` (`BadgesGoWithNodes`, an action property). The browser
  compares pairs of process and epoch only; by `IInv`, if they are equal then no
  node that is made differs, so that a change of a node implies a flush.
- `LogsInOrder` (`[]LinesOnceInOrder`). `TermInv` says that what a terminal shows and all
  that is on its way to it are in order together (`InOrder`), and that lines of the present
  container have been sent only up to the number that the session counts (`Counted`). The
  session counts the lines it has read, not their places, so that from a full window on
  nothing more is sent: late lines are lost, but no line comes twice.
- `ViewTypes` (`[]LiveTypeOK`), from the invariants of nodes (`IInv`), statistics
  (`StatInv`) and terminals (`TermInv`).
- `StatsKeepUp` (`StatsNeverFallBack`, an action property). `FallInv` says that `ion.log`
  followed by what ION is about to write is a stream: values do not fall, and each class
  comes back after one block (`Stream`). When the oldest line is cut off, the same class is
  therefore found further on, with a value at least as high (`LineKeepsValues`), even if the
  window starts inside a block, as it does since the last block is not looked for
  (`FirstBlock`). What the poller has read lies between the last snapshot and the log
  (`Between`), and an answer that spans two containers of one name is not complete.

Every invariant of the passing runs is proved. Only model-checked are two action properties
of `Recovery` (`ImportAllOrNothing`, `ImportedAsFiled`): they follow a whole import, and need
invariants of what each of its calls has achieved. Out of the prover's reach: liveness
(`PlaceholdersResolve`, `JobsEnd`, `LinesArrive`, `ViewSettles`, `BadgesSettle`) and what
needs ENABLED.

## 7. Not modelled

- `start.sh`, `stop.sh`, `docker/`: processes, image and label-based reaping outside
  the program.
- The HTTP layer: arguments, settings, the mapping of exceptions to status codes.
  The caps of the settings are constants of the modules.
- `api/traffic.py`: bundle traffic starts commands in containers and changes no
  state that another part reads; its effect is `Bundle` in `NodeStats`.
- Scenario files on disk: names, sizes, listing and removal.
- The text of `node.rc`, `ionconfig`, the compose file, and the scripts, Dockerfile
  and README of a bundle, except for what the properties compare.
- In the frontend: the gate on mutations (`mutationInFlight`), positions, the cap of
  500 lines of a terminal, and all rendering.
- Failures outside the listed labels (disk errors of export and import; a full
  disk in a container).

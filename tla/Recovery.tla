------------------------------- MODULE Recovery -------------------------------
(***************************************************************************)
(* What spans many calls of DockerManager: the adoption of live Docker      *)
(* resources after a crash or a shutdown (reconcile), cleanup_all, and the  *)
(* import of a scenario file, which cleans up and builds anew.              *)
(*                                                                         *)
(* A job is a cleanup or an import. It runs in a worker thread, which runs  *)
(* create_link, delete_link, create_node and delete_node as the steps of    *)
(* LinkOps and NodeOps and sees of each call whether it returned or raised. *)
(***************************************************************************)
EXTENDS DockerManager, Sequences

CONSTANTS
  Files,     \* scenario files: nodes, a sequence of links, links to disrupt
  MaxCalls,  \* bound: calls by clients outside jobs
  MaxJobs,   \* bound: jobs
  MaxBoots   \* bound: restarts

\* What a file asks of a link: a file may name any convergence layer.
Entry == [pr : Pair, cl : STRING]

ASSUME FileAssumption == Files \subseteq [nodes : SUBSET Node, links : Seq(Entry), netem : SUBSET Pair]
ASSUME LimitAssumption == MaxCalls \in Nat /\ MaxJobs \in Nat /\ MaxBoots \in Nat

\* The layer that is assumed of an adopted link is one that clients may ask for.
ASSUME DefaultAssumption == "tcp" \in CL

VARIABLES
  job,       \* the job of each thread
  seeded,    \* whether the last reconcile() ran to its end
  calls, jobs, boots   \* the counters of the bounds

recVars == <<vars, job, seeded, calls, jobs, boots>>
bounds == <<calls, jobs, boots>>

NoFile == [nodes |-> {}, links |-> <<>>, netem |-> {}]

\* links, nodes, found: what is left of the loop that the job is in; mark: the
\* failures before it began; first: the identity of the first call of an import.
NoJob == [phase |-> "none", file |-> NoFile, links |-> {}, nodes |-> {}, found |-> {},
          entries |-> <<>>, madeNodes |-> {}, madeLinks |-> {}, errors |-> FALSE,
          mark |-> 0, first |-> NoId, end |-> "none"]

Over(p) == job[p].phase \in {"none", "done"}

Become(p, j) == job' = [job EXCEPT ![p] = j]
Phase(p, ph) == Become(p, [job[p] EXCEPT !.phase = ph])
Ended(j, how) == [j EXCEPT !.phase = "done", !.end = how]

\* The job goes on by itself: no call of its own is under way.
InPhase(p, ph) == pc[p] = "idle" /\ job[p].phase = ph

-----------------------------------------------------------------------------
(* reconcile(), run by the constructor of a new process                     *)

Labelled == {pr \in Pair : net[pr].nid \notin {NoId, Boot}}
Orphan(pr) == net[pr].att = {}

\* Mutant: the listing of the containers leaves out those that are stopped.
RunningContainers == {n \in Node : ctr[n].up}

Containers == {n \in Node : ctr[n].cid # NoId}

\* Mutant: one end that is attached is enough.
HealthyByOneEnd(pr, ns) == ns \intersect net[pr].att # {}

\* Both ends must be nodes, and attached.
Healthy(pr, ns) == Ends(pr) \subseteq ns /\ Ends(pr) \subseteq net[pr].att

\* Mutant: the layer gets the name that ION has for it.
AdoptedLinkIonName(pr, ns) ==
  [idx |-> net[pr].sub, named |-> TRUE, nid |-> net[pr].nid, cl |-> "tcpcl",
   st |-> IF Healthy(pr, ns) THEN "up" ELSE "error"]

\* Its convergence layer is not on the network: the default is assumed.
AdoptedLink(pr, ns) ==
  [idx |-> net[pr].sub, named |-> TRUE, nid |-> net[pr].nid, cl |-> "tcp",
   st |-> IF Healthy(pr, ns) THEN "up" ELSE "error"]

AdoptedNode(n, prs) ==
  [ref |-> [op |-> ctr[n].cid, named |-> TRUE], st |-> StatusOfContainer(n),
   ips |-> {pr \in prs : n \in Ends(pr)}]

\* Mutant: the indices of half-built links are left out.
LiveIndicesOfUp(prs, ns) == {net[pr].sub : pr \in {q \in prs : Healthy(q, ns)}}

LiveIndices(prs, ns) == {net[pr].sub : pr \in prs}

\* Containers ns and networks prs are adopted, orphans are removed but those in
\* `kept`; the pool is seeded unless an exception came first.
Reconciled(ns, prs, kept, complete) ==
  LET mine == {pr \in prs : ~Orphan(pr)}
      gone == {pr \in prs \ kept : Orphan(pr)}
  IN /\ nodes' = [n \in Node |-> IF n \in ns THEN AdoptedNode(n, mine) ELSE NoNode]
     /\ links' = [pr \in Pair |-> IF pr \in mine THEN net[pr].nid ELSE NoId]
     /\ obj' = [i \in Id |-> IF \E pr \in mine : net[pr].nid = i
                             THEN AdoptedLink(CHOOSE pr \in mine : net[pr].nid = i, ns)
                             ELSE NoLink]
     /\ net' = [pr \in Pair |-> IF pr \in gone THEN NoNetwork ELSE net[pr]]
     /\ pool' = IF complete THEN FromLive(EmptyPool, LiveIndices(mine, ns)) ELSE EmptyPool
     /\ seeded' = (complete /\ kept = {})

\* The process dies between any two steps, or shuts down, which preserves the
\* topology by default, and a new one starts. Its constructor swallows whatever
\* reconcile() raises, and reconcile() ignores the removal of a network.
Restart ==
  /\ boots < MaxBoots
  /\ boots' = boots + 1
  /\ \/ Reconciled(Containers, Labelled, {}, TRUE) /\ NoFault
     \/ \E pr \in Labelled : Orphan(pr) /\ Fails("reap") /\ Reconciled(Containers, Labelled, {pr}, TRUE)
     \/ Fails("reconcile") /\ Reconciled({}, {}, {}, FALSE)
     \/ \E prs \in SUBSET Labelled :
          prs # Labelled /\ Fails("reconcile") /\ Reconciled(Containers, prs, {}, FALSE)
  /\ cfgDir' = [n \in Node |-> NoId]
  /\ pc' = [p \in Proc |-> "idle"]
  /\ loc' = [p \in Proc |-> NoLocal]
  /\ job' = [p \in Proc |-> NoJob]
  /\ UNCHANGED <<ctr, disk, started, calls, jobs>>

-----------------------------------------------------------------------------
(* cleanup_all(): the loops over the tables ignore every exception, and     *)
(* each listing of the sweep may raise one that ends the job.               *)

\* The locked snapshot.
Cleanup(f) ==
  [NoJob EXCEPT !.phase = "links", !.file = f, !.links = LinkNames,
                !.nodes = {n \in Node : Present(n)}, !.mark = faults]

StartJob(p, f) ==
  /\ pc[p] = "idle" /\ Over(p) /\ jobs < MaxJobs
  /\ jobs' = jobs + 1
  /\ Become(p, Cleanup(f))
  /\ UNCHANGED <<vars, seeded, calls, boots>>

\* Call delete_link(pr) or delete_node(n), which raise if it is gone by now.
CallDeleteLink(p, pr) ==
  \/ DeleteLink(p, pr)
  \/ links[pr] = NoId /\ UNCHANGED vars
CallDeleteNode(p, n) ==
  \/ DeleteNode(p, n)
  \/ ~Present(n) /\ UNCHANGED vars

\* A loop of delete_link or delete_node, and the phase that follows it.
DeleteLinks(p, ph, next) ==
  /\ InPhase(p, ph)
  /\ \/ \E pr \in job[p].links :
          CallDeleteLink(p, pr) /\ Become(p, [job[p] EXCEPT !.links = @ \ {pr}])
     \/ job[p].links = {} /\ Phase(p, next) /\ UNCHANGED vars
DeleteNodes(p, ph, Then(_)) ==
  /\ InPhase(p, ph)
  /\ \/ \E n \in job[p].nodes :
          CallDeleteNode(p, n) /\ Become(p, [job[p] EXCEPT !.nodes = @ \ {n}])
     \/ job[p].nodes = {} /\ Become(p, Then(job[p])) /\ UNCHANGED vars

\* Mutant: networks are swept before the containers.
SweepOrderSwapped == <<"networks", "leftovers", "containers">>

\* Labelled containers, labelled networks, then networks of a link's name.
SweepOrder == <<"containers", "networks", "leftovers">>

Clean(p) ==
  \/ DeleteLinks(p, "links", "nodes")
  \/ DeleteNodes(p, "nodes", LAMBDA j : [j EXCEPT !.phase = SweepOrder[1], !.mark = faults])

\* What a listing of the sweep finds, with identities.
Found(what) ==
  CASE what = "containers" -> {<<n, ctr[n].cid>> : n \in Containers}
    [] what = "networks"   -> {<<pr, net[pr].nid>> : pr \in Labelled}
    [] what = "leftovers"  -> {<<pr, net[pr].nid>> : pr \in {q \in Pair : net[q].nid # NoId}}

SweepList(p) ==
  \E i \in DOMAIN SweepOrder :
    /\ InPhase(p, SweepOrder[i])
    /\ \/ Become(p, [job[p] EXCEPT !.phase = "sweep", !.found = Found(SweepOrder[i]),
                                   !.entries = SubSeq(SweepOrder, i, 3)]) /\ NoFault
       \/ Fails("list") /\ Become(p, Ended(job[p], "failed"))
    /\ UNCHANGED <<tableVars, dockerVars, disk, pc, loc, started>>

\* What was listed is there; Docker refuses to remove a network that has endpoints.
Removable(what, x) ==
  IF what = "containers" THEN ctr[x[1]].cid = x[2]
                         ELSE net[x[1]].nid = x[2] /\ net[x[1]].att = {}

\* The next removal, whose failure is ignored.
SweepRemove(p) ==
  \E x \in job[p].found :
    LET what == Head(job[p].entries)
    IN /\ InPhase(p, "sweep")
       /\ \/ Removable(what, x) /\ what = "containers" /\ RemoveContainer(x[1]) /\ NoFault
          \/ /\ Removable(what, x) /\ what # "containers" /\ NoFault
             /\ net' = [net EXCEPT ![x[1]] = NoNetwork] /\ UNCHANGED ctr
          \/ ~Removable(what, x) /\ NoFault /\ UNCHANGED dockerVars
          \/ Fails("sweep") /\ UNCHANGED dockerVars
       /\ Become(p, [job[p] EXCEPT !.found = @ \ {x}])
       /\ UNCHANGED <<tableVars, disk, pc, loc, started>>

\* The next listing, or the end: an import goes on to create the nodes.
SweepNext(p) ==
  /\ InPhase(p, "sweep") /\ job[p].found = {}
  /\ LET j == [job[p] EXCEPT !.entries = Tail(@)]
     IN Become(p, IF j.entries # <<>> THEN [j EXCEPT !.phase = Head(j.entries)]
                  ELSE IF j.file = NoFile THEN Ended(j, "cleaned")
                  ELSE [j EXCEPT !.phase = "mk_nodes", !.nodes = j.file.nodes,
                                 !.entries = j.file.links, !.first = NewId])
  /\ UNCHANGED vars

-----------------------------------------------------------------------------
(* _do_import(), after the cleanup                                          *)

\* Mutant: the rollback deletes the links only.
LinksRolledBack(j) ==
  [j EXCEPT !.phase = "rb_links", !.links = j.madeLinks, !.nodes = {}, !.mark = faults']

RolledBack(j) ==
  [j EXCEPT !.phase = "rb_links", !.links = j.madeLinks, !.nodes = j.madeNodes, !.mark = faults']

\* What create_node and create_link check before they reserve anything.
NodeAccepted(n) == ~Present(n) /\ ~NodeCapReached
LinkAccepted(k) == /\ k.cl \in CL /\ links[k.pr] = NoId /\ ~LinkCapReached
                   /\ \A n \in Ends(k.pr) : Present(n)

\* Nodes are created in ascending order ...
MakeNode(p) ==
  LET j == job[p]
      n == Min(j.nodes)
  IN /\ InPhase(p, "mk_nodes")
     /\ \/ j.nodes # {} /\ NodeAccepted(n) /\ CreateNode(p, n) /\ UNCHANGED job
        \/ j.nodes # {} /\ ~NodeAccepted(n) /\ UNCHANGED vars /\ Become(p, RolledBack(j))
        \/ j.nodes = {} /\ UNCHANGED vars /\ Phase(p, "mk_links")

\* ... and links in the order of the file.
MakeLink(p) ==
  LET j == job[p]
      k == Head(j.entries)
  IN /\ InPhase(p, "mk_links")
     /\ \/ /\ j.entries # <<>> /\ LinkAccepted(k) /\ CreateLink(p, k.pr, k.cl)
           /\ IF Exhausted(pool) THEN Become(p, RolledBack(j)) ELSE UNCHANGED job
        \/ j.entries # <<>> /\ ~LinkAccepted(k) /\ UNCHANGED vars /\ Become(p, RolledBack(j))
        \/ j.entries = <<>> /\ UNCHANGED vars /\ Phase(p, "repair")

\* disrupt_link() of a link that the file has as disrupted may time out. What it
\* does otherwise is the subject of Disruption.
MakeDisrupted(p) ==
  /\ InPhase(p, "disrupt")
  /\ \/ NoFault /\ Phase(p, "mk_links")
     \/ Fails("disrupt") /\ Become(p, RolledBack(job[p]))
  /\ UNCHANGED <<tableVars, dockerVars, disk, pc, loc, started>>

\* Mutant: only links that are UP are repaired.
EndsOfUp == {<<pr, s, links[pr]>> : pr \in {q \in LinkNames : obj[links[q]].st = "up"}, s \in Side}

\* repair_ion_config(): the ends of all links, from one locked snapshot; a link
\* with an end that is no node is skipped.
EndsToRepair == {<<pr, s, links[pr]>> : pr \in {q \in LinkNames : \A n \in Ends(q) : Present(n)}, s \in Side}

RepairStart(p) ==
  /\ InPhase(p, "repair")
  /\ Become(p, [job[p] EXCEPT !.phase = "repairing", !.found = EndsToRepair])
  /\ UNCHANGED vars

\* The outduct of one end, and its plan if it has none for the peer. Commands
\* that are refused are noted; one that times out ends the import as it is.
RepairEnd(p) ==
  \E x \in job[p].found :
    LET n == At(x[1], x[2])
        duct == <<obj[x[3]].idx, Other(x[2]), obj[x[3]].cl>>
        j == [job[p] EXCEPT !.found = @ \ {x}]
        Run(k) == ctr' = [ctr EXCEPT ![n] = ConfiguredUpTo(k, @, At(x[1], Other(x[2])), duct)]
    IN /\ InPhase(p, "repairing")
       /\ x[2] = "b" => <<x[1], "a", x[3]>> \notin job[p].found
       /\ \/ ctr[n].up /\ Run(2) /\ NoFault /\ Become(p, j)
          \/ ~ctr[n].up /\ UNCHANGED ctr /\ NoFault /\ Become(p, [j EXCEPT !.errors = TRUE])
          \/ /\ ctr[n].up /\ Fails("repair")
             /\ \/ \E k \in 0..1 : Run(k) /\ Become(p, [j EXCEPT !.errors = TRUE])
                \/ \E k \in 0..2 : Run(k) /\ Become(p, Ended(j, "failed"))
       /\ UNCHANGED <<tableVars, net, disk, pc, loc, started>>

\* Mutant: the repair is repeated until nothing fails.
RepairUntilClean(p) ==
  /\ InPhase(p, "repairing") /\ job[p].found = {}
  /\ Become(p, IF job[p].errors THEN [job[p] EXCEPT !.phase = "repair", !.errors = FALSE]
               ELSE Ended(job[p], "imported"))
  /\ UNCHANGED vars

\* Exits are applied afterwards; their failures are collected.
RepairDone(p) ==
  /\ InPhase(p, "repairing") /\ job[p].found = {}
  /\ Become(p, Ended(job[p], "imported"))
  /\ UNCHANGED vars

RollBack(p) ==
  \/ DeleteLinks(p, "rb_links", "rb_nodes")
  \/ DeleteNodes(p, "rb_nodes", LAMBDA j : Ended(j, "rolled_back"))

-----------------------------------------------------------------------------
(* The calls within a job                                                   *)

\* A call that returns at one of these steps raises.
Raising == {"cl_unres", "cn_unres", "dl_get", "dl_remove", "dn_ctr"}

\* What a job makes of the return of a call. Deletions are not looked at.
Returned(j, raised) ==
  CASE j.phase \in {"mk_nodes", "mk_links"} /\ raised -> RolledBack(j)
    [] j.phase = "mk_nodes" /\ ~raised ->
         [j EXCEPT !.madeNodes = @ \union {Min(j.nodes)}, !.nodes = @ \ {Min(j.nodes)}]
    [] j.phase = "mk_links" /\ ~raised ->
         [j EXCEPT !.madeLinks = @ \union {Head(j.entries).pr}, !.entries = Tail(@),
                   !.phase = IF Head(j.entries).pr \in j.file.netem THEN "disrupt" ELSE @]
    [] OTHER -> j

RunStep(p) ==
  /\ Step(p)
  /\ Become(p, IF pc'[p] = "idle" THEN Returned(job[p], pc[p] \in Raising) ELSE job[p])

ClientCall(p) ==
  /\ Over(p) /\ calls < MaxCalls
  /\ Call(p)
  /\ calls' = calls + 1
  /\ Become(p, NoJob)
  /\ UNCHANGED <<seeded, jobs, boots>>

JobStep(p) ==
  /\ \/ RunStep(p)
     \/ Clean(p) \/ SweepList(p) \/ SweepRemove(p) \/ SweepNext(p)
     \/ MakeNode(p) \/ MakeLink(p) \/ MakeDisrupted(p)
     \/ RepairStart(p) \/ RepairEnd(p) \/ RepairDone(p) \/ RollBack(p)
  /\ UNCHANGED <<seeded, bounds>>

Outside ==
  /\ \/ \E n \in Node : ContainerExits(n)
     \/ \E pr \in Pair, idx \in Index : OtherWriter(pr, idx)
  /\ UNCHANGED <<job, seeded, bounds>>

RecInit ==
  /\ Init
  /\ job = [p \in Proc |-> NoJob]
  /\ seeded = TRUE
  /\ calls = 0 /\ jobs = 0 /\ boots = 0

RecNext ==
  \/ \E p \in Proc : ClientCall(p) \/ JobStep(p) \/ StartJob(p, NoFile)
  \/ \E p \in Proc, f \in Files : StartJob(p, f)
  \/ Restart
  \/ Outside

\* A worker thread runs its job to the end. Nobody has to start one.
RecSpec == RecInit /\ [][RecNext]_recVars /\ \A p \in Proc : WF_recVars(JobStep(p))

-----------------------------------------------------------------------------
(* Types *)

Sweeps == {"containers", "networks", "leftovers"}
JobPhase == {"none", "links", "nodes", "sweep", "mk_nodes", "mk_links", "disrupt", "repair",
             "repairing", "rb_links", "rb_nodes", "done"} \union Sweeps

\* The entries are listings that are still to come, and then links of the file.
JobOK(j) ==
  /\ DOMAIN j = DOMAIN NoJob
  /\ j.phase \in JobPhase /\ j.file \in Files \union {NoFile}
  /\ j.links \subseteq Pair /\ j.madeLinks \subseteq Pair
  /\ j.nodes \subseteq Node /\ j.madeNodes \subseteq Node
  /\ j.phase = "sweep" => j.entries \in Seq(Sweeps) \ {<<>>}
  /\ j.phase \in {"mk_nodes", "mk_links", "disrupt"} => j.entries \in Seq(Entry)
  /\ j.phase = "sweep" =>
       j.found \subseteq (IF Head(j.entries) = "containers" THEN Node ELSE Pair) \X Id
  /\ j.phase = "repairing" => j.found \subseteq Pair \X Side \X Id
  /\ j.errors \in BOOLEAN /\ j.mark \in 0..MaxFaults /\ j.first \in 0..(MaxOps + 2)
  /\ j.end \in {"none", "failed", "cleaned", "imported", "rolled_back"}

\* Whatever is adopted, swept, imported or rolled back, the state and what the jobs
\* are about keep their types.
RecTypeOK ==
  /\ TypeOK
  /\ DOMAIN job = Proc /\ \A p \in Proc : JobOK(job[p])
  /\ seeded \in BOOLEAN
  /\ calls \in 0..MaxCalls /\ jobs \in 0..MaxJobs /\ boots \in 0..MaxBoots

-----------------------------------------------------------------------------
(* Properties *)

\* After a crash at any point, and through the calls and jobs that follow, the
\* pool holds the index of each link, each link one of its own, and the subnet of
\* each labelled network: the seeding that ends reconcile() makes up for whatever
\* the crash interrupted (docker_manager.py:173-180; subnet_pool.py:9, 16-19).
IndicesSurvive == seeded => OneIndexPerLink /\ NetworksReserved

Adopts == boots' # boots /\ seeded'

\* Whatever was going on when the process died, an UP link of the new one has both
\* ends, running and attached, and no labelled network escapes the tables: what
\* was half-built is ERROR or reaped (docker_manager.py:137-163: "mark half-built
\* links ERROR, and remove true orphan networks").
RestartAdopts ==
  [][Adopts =>
       \A pr \in Pair :
         LET k == obj'[links'[pr]]
         IN /\ links'[pr] = NoId => net'[pr].nid \in {NoId, Boot}
            /\ links'[pr] # NoId /\ k.st = "up" =>
                 \A n \in Ends(pr) : ctr[n].up /\ n \in net'[pr].att /\ nodes'[n].st = "running"
    ]_recVars

\* A restart between two calls loses no node, whether or not its container runs,
\* and no link that has an endpoint left. They keep their index, their addresses
\* and, when both ends are attached, an UP status (docker_manager.py:85-91;
\* main.py:57-66: "topology preserved").
RestartTransparent ==
  [][Adopts /\ Quiet =>
       /\ \A n \in Node : Present(n) /\ ctr[n].cid # NoId => nodes'[n].ref = nodes[n].ref
       /\ \A pr \in LinkNames :
            LET old == obj[links[pr]]
                new == obj'[links'[pr]]
            IN old.nid = net[pr].nid /\ pr \in Labelled /\ ~Orphan(pr) =>
                 /\ links'[pr] # NoId /\ new.idx = old.idx
                 /\ old.st = "up" /\ net[pr].att = Ends(pr) => new.st = "up"
                 /\ \A n \in Ends(pr) : pr \in nodes[n].ips /\ ctr[n].cid # NoId => pr \in nodes'[n].ips
    ]_recVars

JobEnds(p, how) == job[p].phase # "done" /\ job'[p].end = how

\* cleanup_all() takes every container and every network off the daemon, although
\* deletions fail before: only what fails in the sweep itself may stay
\* (docker_manager.py:836-856: "one bad resource cannot abort the whole sweep").
SweepEmptiesDocker ==
  [][\A p \in Proc : JobEnds(p, "cleaned") /\ faults = job[p].mark =>
       /\ \A n \in Node : ctr[n] = NoContainer
       /\ \A pr \in Pair : net[pr] = NoNetwork
    ]_recVars

\* A failed import leaves nothing that it has made, neither in the tables nor on
\* the daemon, unless the rollback fails as well (scenarios.py:134-139, 165-177:
\* "we roll back everything created during this import").
ImportAllOrNothing ==
  [][\A p \in Proc : JobEnds(p, "rolled_back") /\ faults' = job[p].mark =>
       /\ \A n \in Node : nodes'[n].ref.op < job[p].first /\ ctr'[n].cid < job[p].first
       /\ \A pr \in Pair : links'[pr] < job[p].first /\ net'[pr].nid < job[p].first
    ]_recVars

\* An import that reports success without an error has the nodes and the links of
\* the file, and ION is configured on both ends of each link, whatever failed in
\* create_link: the repair that follows is a safety net (scenarios.py:146-157,
\* 179-180; docker_manager.py:1103-1140). Without a failure there is nothing else.
ImportedAsFiled ==
  [][\A p \in Proc : JobEnds(p, "imported") /\ ~job[p].errors =>
       LET f == job[p].file
           wanted == {k.pr : k \in Range(f.links)}
       IN /\ \A n \in f.nodes : Present(n)
          /\ \A pr \in wanted :
               /\ links[pr] # NoId
               /\ (\A n \in Ends(pr) : ctr[n].up) /\ net[pr].att = Ends(pr) => Configured(pr)
          /\ faults = 0 => f.nodes = {n \in Node : Present(n)} /\ wanted = LinkNames
    ]_recVars

\* A cleanup and an import come to an end, whatever fails
\* (docker_manager.py:825-856; scenarios.py:140-202).
JobsEnd == \A p \in Proc : ~Over(p) ~> Over(p)
=============================================================================

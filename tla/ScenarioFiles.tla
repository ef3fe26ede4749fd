---------------------------- MODULE ScenarioFiles ----------------------------
(***************************************************************************)
(* What the manager hands out: scenario files (api/scenarios.py), bundles   *)
(* (services/scenario_export.py) and the configuration of one node. All of  *)
(* them read the nodes, the links and the exits of each node under          *)
(* acquisitions of the lock of their own, with docker execs in between.     *)
(***************************************************************************)
EXTENDS Disruption

docOnly == <<tables, exits, tc, may, started, aims>>

\* list_exits(): a node that is gone raises, which the callers swallow, and a
\* listing that fails is empty.
Listing(n) == IF nodes[n] = "named" THEN exits[n] ELSE {}

\* No exits failed to be listed, and nothing changed meanwhile.
Calm(p) == p \notin touched /\ ~loc[p].bad

NoExits == [n \in Node |-> {}]

\* The exits of the next node of the list, or the end of the list.
ListNext(p, label, After(_)) ==
  LET l == loc[p]
      n == Min(l.todo)
      Take(found, bad) == Goto(p, label, [l EXCEPT !.todo = @ \ {n}, !.doc.exits[n] = found,
                                                   !.bad = bad])
  IN /\ pc[p] = label
     /\ \/ l.todo # {} /\ Take(Listing(n), l.bad) /\ NoFault /\ UNCHANGED document
        \/ l.todo # {} /\ Fails("list") /\ Take({}, TRUE) /\ UNCHANGED document
        \/ l.todo = {} /\ NoFault /\ After(l)
     /\ UNCHANGED docOnly

-----------------------------------------------------------------------------
(* Scenario files *)

\* Mutant: a link is exported as disrupted only if it loses bundles.
KeptOnLoss(m) == IF m.loss > 0 THEN m ELSE NoNetem

\* Only loss and delay are worth an entry.
Kept(m) == IF m.loss > 0 \/ m.delay > 0 THEN m ELSE NoNetem

\* The links of a file. Status, index and addresses are not read back.
LinkEntries == {[pr |-> pr, cl |-> links[pr].cl, netem |-> Kept(links[pr].netem)] : pr \in LinkNames}

\* The nodes; "No topology to export" is refused.
ExportScenario(p) ==
  /\ Begin(p, "export")
  /\ There # {}
  /\ Goto(p, "export", [NoLocal EXCEPT !.todo = There,
                                       !.doc = [kind |-> "file", nodes |-> There, exits |-> NoExits]])
  /\ UNCHANGED <<tables, liveOnly, aims>>

\* The links come last, and the file is written.
WriteFile(p, l) ==
  /\ document' = [kind |-> "file", nodes |-> l.doc.nodes, exits |-> l.doc.exits,
                  links |-> LinkEntries, calm |-> Calm(p)]
  /\ Finish(p)

ExportStep(p) == ListNext(p, "export", LAMBDA l : WriteFile(p, l))

\* ScenarioSpec._check(), on a file that was exported.
Valid(f) ==
  /\ f.nodes # {} /\ Cardinality(f.nodes) <= MaxNodes
  /\ \A n \in f.nodes : n \in 1..MaxNodes
  /\ \A k \in f.links : Ends(k.pr) \subseteq f.nodes /\ k.pr[1] # k.pr[2]

\* What _do_import() makes of a valid file when no call fails: nodes, links
\* with their convergence layer, disrupted when the file says so, and exits.
Rebuilt(f) ==
  [nodes |-> f.nodes,
   links |-> {[pr |-> k.pr, cl |-> k.cl, tc |-> TcArgs(k.netem),
               st |-> IF k.netem = NoNetem THEN "up" ELSE DisruptedStatus(k.netem)] : k \in f.links},
   exits |-> [n \in Node |-> IF n \in f.nodes THEN f.exits[n] ELSE {}]]

-----------------------------------------------------------------------------
(* ION configurations. A neighbour is a record of peer, its address and the *)
(* convergence layer of the link; an address is an index and a side.        *)

\* generate_node_rc(): what ION listens on, sends through, and routes by. Tcp
\* is declared in any case.
NodeRc(nbs, ex) ==
  [inducts  |-> {"tcp"} \union {nb.cl : nb \in nbs},
   outducts |-> {<<nb.cl, nb.ip>> : nb \in nbs},
   plans    |-> {<<nb.peer, nb.cl, nb.ip>> : nb \in nbs},
   exits    |-> ex]

\* The neighbours of a node, with the addresses that the live links have.
LiveNeighbours(n) ==
  {[peer |-> At(x[1], Other(x[2])), cl |-> links[x[1]].cl, ip |-> <<links[x[1]].idx, Other(x[2])>>] :
     x \in {y \in LinkNames \X Side : At(y[1], y[2]) = n}}

\* get_node_config(): one snapshot of the links, then the exits.
GetNodeConfig(p, n) ==
  /\ Begin(p, "config")
  /\ Present(n)
  /\ Goto(p, "config", [NoLocal EXCEPT !.n = n, !.todo = {n},
                                       !.doc = [nbs |-> LiveNeighbours(n), exits |-> NoExits]])
  /\ UNCHANGED <<tables, liveOnly, aims>>

ShowConfig(p, l) ==
  /\ document' = [kind |-> "config", n |-> l.n, rc |-> NodeRc(l.doc.nbs, l.doc.exits[l.n]),
                  calm |-> Calm(p)]
  /\ Finish(p)

ConfigStep(p) == ListNext(p, "config", LAMBDA l : ShowConfig(p, l))

-----------------------------------------------------------------------------
(* Bundles *)

Before(q, pr) == q[1] < pr[1] \/ (q[1] = pr[1] /\ q[2] < pr[2])

\* The number of the link's exported subnet: its place in the sorted list.
Place(pr, net) == Cardinality({k \in net : Before(k.pr, pr)})

\* The ends of the exported links at node n.
EndsAt(n, net) == {x \in net \X Side : At(x[1].pr, x[2]) = n}

\* Mutant: ip_a and ip_b change places when a link is added to its ends.
BundleNeighboursSwapped(n, net) ==
  {[peer |-> At(x[1].pr, Other(x[2])), cl |-> x[1].cl,
    ip |-> <<Place(x[1].pr, net), x[2]>>] : x \in EndsAt(n, net)}

\* node_neighbors of build_export_archive(): peers, with exported addresses.
BundleNeighbours(n, net) ==
  {[peer |-> At(x[1].pr, Other(x[2])), cl |-> x[1].cl,
    ip |-> <<Place(x[1].pr, net), Other(x[2])>>] : x \in EndsAt(n, net)}

\* generate_compose_yml(): the addresses of a service on its networks.
ComposeAddresses(n, net) == {<<Place(x[1].pr, net), x[2]>> : x \in EndsAt(n, net)}

ExportBundle(p) ==
  /\ Begin(p, "bundle")
  /\ There # {}
  /\ Goto(p, "bundle_links", [NoLocal EXCEPT !.doc = [nodes |-> There]])
  /\ UNCHANGED <<tables, liveOnly, aims>>

\* The links; an end that is no node of the first list is a KeyError.
BundleLinks(p) ==
  LET l == loc[p]
      net == {[pr |-> pr, cl |-> links[pr].cl] : pr \in LinkNames}
  IN /\ pc[p] = "bundle_links"
     /\ \/ /\ \A k \in net : Ends(k.pr) \subseteq l.doc.nodes
           /\ Goto(p, "bundle", [l EXCEPT !.todo = l.doc.nodes,
                                          !.doc = [nodes |-> @.nodes, net |-> net, exits |-> NoExits]])
        \/ \E k \in net : ~(Ends(k.pr) \subseteq l.doc.nodes) /\ Finish(p)
     /\ UNCHANGED <<docOnly, document, faults>>

PackBundle(p, l) ==
  /\ document' = [kind |-> "bundle", nodes |-> l.doc.nodes,
                  rc |-> [n \in l.doc.nodes |-> NodeRc(BundleNeighbours(n, l.doc.net), l.doc.exits[n])],
                  compose |-> [n \in l.doc.nodes |-> ComposeAddresses(n, l.doc.net)],
                  calm |-> Calm(p)]
  /\ Finish(p)

BundleStep(p) == ListNext(p, "bundle", LAMBDA l : PackBundle(p, l))

DocCall(p) == ExportScenario(p) \/ ExportBundle(p) \/ \E n \in Node : GetNodeConfig(p, n)
DocStep(p) == ExportStep(p) \/ ConfigStep(p) \/ BundleLinks(p) \/ BundleStep(p)
=============================================================================

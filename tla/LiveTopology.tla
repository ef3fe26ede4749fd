---------------------------- MODULE LiveTopology ----------------------------
(***************************************************************************)
(* A running network as a whole: threads that change the topology, set and  *)
(* clear exits, disrupt and restore links, and hand out documents.          *)
(***************************************************************************)
EXTENDS ScenarioFiles

ASSUME SceneAssumption ==
  \A s \in Scenes : /\ s.calls \in 0..MaxOps /\ s.nodes \subseteq Node
                    /\ s.now \subseteq {pr \in Pair : Ends(pr) \subseteq s.nodes}

VARIABLE torn  \* history: links whose qdiscs are in doubt

liveVars == <<vars, torn>>

\* A start: nodes and UP links, and exits as set_all_exits left them for the
\* links that were there before.
Init ==
  /\ \E s \in Scenes :
       /\ nodes = [n \in Node |-> IF n \in s.nodes THEN "named" ELSE "absent"]
       /\ \E order \in Orders :
            LET was == [n \in Node |-> {m \in Node : s.was \intersect {<<m, n>>, <<n, m>>} # {}}]
            IN exits = [n \in Node |-> IF n \in s.nodes THEN Wanted(n, s.nodes, was, order) ELSE {}]
       /\ links = [pr \in Pair |->
                     IF pr \notin s.now THEN NoLink
                     ELSE [NoLink EXCEPT !.made = 1, !.st = "up",
                                         !.idx = Cardinality({q \in s.now : Before(q, pr)})]]
       /\ may = s.may
       /\ started = MaxOps - s.calls
  /\ tc = [pr \in Pair |-> NoTc]
  /\ document = <<>>
  /\ pc = [p \in Proc |-> "idle"]
  /\ loc = [p \in Proc |-> NoLocal]
  /\ faults = 0
  /\ aims = [n \in Node |-> NoAims]
  /\ touched = {}
  /\ torn = {}

\* Lines of an exported file are applied again by hand.
RawCall(p) ==
  /\ document # <<>> /\ document.kind = "file"
  /\ \E n \in Node : \E e \in document.exits[n] : ApplyRawExit(p, n, e)

Call(p) == LifeCall(p) \/ ExitCall(p) \/ RawCall(p) \/ DisruptCall(p) \/ DocCall(p)
Step(p) == LifeStep(p) \/ ExitStep(p) \/ DisruptStep(p) \/ DocStep(p)

-----------------------------------------------------------------------------
(* History *)

\* The step runs tc for call p.
Tcs(p) == pc[p] \in {"tc_replace", "tc_del"} /\ <<pc'[p], loc'[p]>> # <<pc[p], loc[p]>>

\* Another call works on the same link.
Overlapped(p) == loc[p].pr \in Pair /\ \E q \in Proc \ {p} : loc[q].pr = loc[p].pr

\* The qdiscs of link pr come into doubt: tc fails or does not reach an end; two
\* calls work on the link at the same time; or tc reaches it for a call that was
\* meant for a link that is gone.
Torn(pr) ==
  \/ \E p \in Proc : Tcs(p) /\ loc[p].pr = pr /\ (faults' # faults \/ loc'[p].bad)
  \/ \E p \in Proc : loc'[p].pr = pr /\ Overlapped(p)'
  \/ tc'[pr] # tc[pr] /\ \E p \in Proc : Tcs(p) /\ loc[p].made # links[pr].made

\* A call that nothing interfered with leaves no doubt.
Mended(pr) ==
  \E p \in Proc \ touched : /\ pc[p] \in {"disrupted", "restored"} /\ pc'[p] = "idle"
                            /\ loc[p].pr = pr /\ ~loc[p].bad

\* What call p works with changes, and p does not do it.
Disturbs(p) ==
  \/ <<nodes, links, exits>>' # <<nodes, links, exits>>
  \/ loc[p].pr \in Pair /\ tc'[loc[p].pr] # tc[loc[p].pr] /\ ~Tcs(p)

History ==
  /\ touched' = {p \in Proc : pc'[p] # "idle" /\ (p \in touched \/ Overlapped(p)' \/ Disturbs(p))}
  /\ torn' = {pr \in Pair : Torn(pr) \/ (pr \in torn /\ ~Mended(pr))}

-----------------------------------------------------------------------------

Next ==
  /\ (\E p \in Proc : Call(p) \/ Step(p)) \/ \E n \in Node : ContainerExits(n)
  /\ History

Spec == Init /\ [][Next]_liveVars

-----------------------------------------------------------------------------

TypeOK ==
  /\ nodes \in [Node -> {"absent", "creating", "named", "exited"}]
  /\ \A pr \in Pair :
       /\ links[pr].made \in 0..(MaxOps + 2) /\ links[pr].idx \in Index
       /\ links[pr].st \in {"up", "down", "degraded", "error"}
       /\ links[pr].cl \in CL /\ links[pr].netem \in Netem \union {NoNetem}
  /\ \A n \in Node : exits[n] \subseteq Exit /\ aims[n].sets \subseteq SUBSET Exit
  /\ tc \in [Pair -> [Side -> {TcArgs(m) : m \in Netem} \union {NoNetem, Cut}]]
  /\ may \in {s.may : s \in Scenes}
  /\ \A p \in Proc : loc[p].todo \subseteq Node /\ loc[p].pr \in Pair \union {<<>>}
  /\ started \in 0..MaxOps /\ faults \in 0..MaxFaults
  /\ touched \subseteq Proc /\ torn \subseteq Pair

\* Node n has been left with an undisturbed answer to the same question: all
\* reconciliations of its exits that overlapped aimed at the same destinations.
Settled(n) ==
  /\ Working(n) = {} /\ aims[n].pure /\ aims[n].sets # {}
  /\ \A S, T \in aims[n].sets : {Key(e) : e \in S} = {Key(e) : e \in T}

\* Reconciliations of one node's exits may overlap, each with a listing that is
\* out of date by the time it deletes and adds; whatever exits were there before,
\* and whatever errors the calls report, the node ends with an exit for exactly
\* the destinations wanted, each as one of them wanted it
\* (docker_manager.py:1035-1101).
ReconcilesConverge ==
  \A n \in Node : Present(n) /\ Settled(n) =>
    /\ exits[n] \subseteq UNION aims[n].sets
    /\ \A S \in aims[n].sets : {Key(e) : e \in exits[n]} = {Key(e) : e \in S}

\* Where a node sends a bundle for d: to d itself along a plan, else along the
\* exit whose range holds d, to a gateway that it has a plan for.
Hop(n, d) ==
  IF d \in Neighbors(n) THEN d
  ELSE LET via == {e \in exits[n] : e[1] <= d /\ d <= e[2] /\ e[3] \in Neighbors(n)}
       IN IF via = {} THEN NoGateway ELSE (CHOOSE e \in via : TRUE)[3]

Arrives(n, d) ==
  LET at[k \in 0..Cardinality(Node)] ==
        IF k = 0 THEN n
        ELSE IF at[k - 1] \in {NoGateway, d} THEN at[k - 1] ELSE Hop(at[k - 1], d)
  IN at[Distance(n, d, Adjacent)] = d

\* When the last reconciliations of all nodes were undisturbed and made for the
\* present links, a bundle reaches every node that is connected, hop by hop and
\* in as many hops as the shortest path has, although each node chose among
\* equally short paths on its own (docker_manager.py:1012-1033, 1060-1066). It
\* takes every link with both interfaces to have its plans: a delete_link that
\* fails before it disconnects the ends leaves one without them (551-569).
RoutesDeliver ==
  /\ Dangling \union Unwired = {} /\ There = Running
  /\ \A n \in There : Settled(n)
  /\ \A n \in There : aims[n].sets \subseteq {Wanted(n, There, Adjacent, o) : o \in Orders}
  => \A n, d \in There :
       n # d /\ Connected(n, d, Adjacent) => Arrives(n, d)

\* The status of a link says what tc does at both ends when no disrupt_link,
\* restore_link or delete_link is at work on it (docker_manager.py:564-644), save
\* where it cannot: an end has no interface, because a delete_link failed after it
\* disconnected the ends (568-570), the container exited, or its node is gone; or
\* the qdiscs are in doubt. A disruption that nothing interferes with ends all
\* doubt: what an earlier one left half-done, or on a link that took over an
\* index, does not outlive it.
StatusMatchesTc ==
  \A pr \in LinkNames \ (torn \union Unwired) :
    (\A p \in Proc : loc[p].pr # pr) =>
      /\ \A s \in Side : tc[pr][s] = TcArgs(links[pr].netem)
      /\ links[pr].st = "down" <=> links[pr].netem.loss >= 100
      /\ links[pr].st \in {"up", "error"} => links[pr].netem = NoNetem

\* What a file should bring back: the effect of each link, not its object.
Live ==
  [nodes |-> There,
   links |-> {[pr |-> pr, cl |-> links[pr].cl, tc |-> TcArgs(links[pr].netem),
               st |-> links[pr].st] : pr \in LinkNames},
   exits |-> exits]

\* The manager's tables are within what the import accepts, and no link has a
\* status that files do not keep: ERROR, or one that does not go with its netem,
\* as when create_link commits a link UP that was disrupted meanwhile.
Portable ==
  /\ There = Running /\ There \subseteq 1..MaxNodes /\ Dangling = {}
  /\ \A pr \in LinkNames : /\ pr[1] # pr[2] /\ links[pr].st # "error"
                           /\ links[pr].st = "up" <=> Kept(links[pr].netem) = NoNetem

\* A file that was exported while nothing changed passes the validation of the
\* import, and importing it brings back nodes, links with their disruptions, and
\* exits (api/scenarios.py:58-119, 137-198; schemas.py:58-91).
ExportRebuilds ==
  [][document' # document /\ document'.kind = "file" /\ document'.calm /\ Portable
     => Valid(document') /\ Rebuilt(document') = Live]_liveVars

\* In a bundle, whenever it was made, the address that a node's plan gives for a
\* peer is the address that the compose file gives the peer's container on a
\* network that both are on, no address is given twice, and the peer listens on
\* the protocol (scenario_export.py:211-238, 819-841).
BundleCoheres ==
  document # <<>> /\ document.kind = "bundle" =>
    \A n \in document.nodes :
      /\ \A plan \in document.rc[n].plans :
           /\ plan[1] \in document.nodes /\ plan[3] \in document.compose[plan[1]]
           /\ plan[2] \in document.rc[plan[1]].inducts
           /\ \E ip \in document.compose[n] : ip[1] = plan[3][1] /\ ip # plan[3]
           /\ <<plan[2], plan[3]>> \in document.rc[n].outducts
      /\ \A m \in document.nodes \ {n} : document.compose[n] \intersect document.compose[m] = {}
=============================================================================

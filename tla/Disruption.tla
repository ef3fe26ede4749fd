----------------------------- MODULE Disruption -----------------------------
(***************************************************************************)
(* DockerManager.disrupt_link and restore_link: the link is looked up under *)
(* the lock, tc runs in the containers of both ends, and the Link object    *)
(* gets its status under the lock again.                                    *)
(***************************************************************************)
EXTENDS ExitRoutes

\* to_tc_args(): jitter goes with a delay only.
TcArgs(m) == [m EXCEPT !.jitter = IF m.delay > 0 THEN @ ELSE 0]

\* Mutant: DOWN is taken for any loss.
DownWithLoss(m) == IF m.loss > 0 THEN "down" ELSE "degraded"

DisruptedStatus(m) == IF m.loss >= 100 THEN "down" ELSE "degraded"

\* The locked lookup: the object, the addresses of its ends and the nodes.
Look(p, pr, m, label) ==
  /\ pr \in LinkNames
  /\ Goto(p, label, [NoLocal EXCEPT !.pr = pr, !.made = links[pr].made, !.idx = links[pr].idx,
                                    !.netem = m, !.known = Named])
  /\ UNCHANGED <<tables, liveOnly, aims>>

DisruptLink(p, pr, m) == Begin(p, "disrupt") /\ Look(p, pr, m, "tc_replace")
RestoreLink(p, pr) == Begin(p, "restore") /\ Look(p, pr, NoNetem, "tc_del")

\* _get_interface(): the interface of node n with address (idx, s), on whatever
\* network that address is by now. A link that is being created may have one.
Interface(n, idx, s) ==
  {pr \in LinkNames : links[pr].idx = idx /\ At(pr, s) = n /\ tc[pr][s] # Cut}

\* `tc qdisc replace` or `del` on side a, then on side b. Its failure is
\* ignored, as is an end without a container or an interface; a timeout of tc or
\* of the lookup of the interface raises. `bad` is set when tc does not run.
Tc(p) ==
  LET l == loc[p]
      n == At(l.pr, l.side)
      Then(k) == IF l.side = "a" THEN Goto(p, pc[p], [k EXCEPT !.side = "b"])
                 ELSE Goto(p, IF pc[p] = "tc_del" THEN "restored" ELSE "disrupted", k)
      mine == Interface(n, l.idx, l.side)
  IN /\ pc[p] \in {"tc_replace", "tc_del"}
     /\ \/ /\ Reached(p, n) /\ Then(l) /\ NoFault
           /\ \E pr \in mine : tc' = [tc EXCEPT ![pr][l.side] = TcArgs(l.netem)]
        \/ /\ ~Reached(p, n) \/ mine \subseteq Pending
           /\ Then([l EXCEPT !.bad = TRUE]) /\ NoFault /\ UNCHANGED tc
        \/ Fails("tc") /\ (Then([l EXCEPT !.bad = TRUE]) \/ Finish(p)) /\ UNCHANGED tc
     /\ UNCHANGED <<tables, exits, document, may, started, aims>>

\* The object of the lookup is written; it is in the table only if the link
\* was not made again.
Written(l, st) ==
  IF links[l.pr].made = l.made THEN [links EXCEPT ![l.pr].st = st, ![l.pr].netem = l.netem] ELSE links

\* The locked write.
DisruptDone(p) ==
  /\ pc[p] = "disrupted"
  /\ links' = Written(loc[p], DisruptedStatus(loc[p].netem))
  /\ Finish(p)
  /\ UNCHANGED <<nodes, liveOnly, may, started, aims>>

\* A restored link is UP, whatever it was before.
RestoreDone(p) ==
  /\ pc[p] = "restored"
  /\ links' = Written(loc[p], "up")
  /\ Finish(p)
  /\ UNCHANGED <<nodes, liveOnly, may, started, aims>>

DisruptCall(p) == \E pr \in Pair : RestoreLink(p, pr) \/ \E m \in Netem : DisruptLink(p, pr, m)
DisruptStep(p) == Tc(p) \/ DisruptDone(p) \/ RestoreDone(p)
=============================================================================

------------------------------- MODULE NodeStats -------------------------------
(***************************************************************************)
(* The statistics of nodes: the poller task of main.py, which asks each    *)
(* node in turn (get_all_bundle_stats, get_bundle_stats) and publishes one *)
(* snapshot, against nodes that come and go, and ION, which counts bundles  *)
(* and writes its statistics to ion.log line by line, when asked.           *)
(***************************************************************************)
EXTENDS Naturals, Integers, FiniteSets, FiniteSetsExt, Sequences, SequencesExt

CONSTANTS
  Node,
  Classes,     \* the classes of bpstats, in the order it prints them
  Window,      \* the lines of ion.log that are read (60)
  MaxTries,    \* how often they are read (5)
  MaxMade,     \* bound: nodes made in a behaviour
  MaxBundles,  \* bound: bundles delivered to one node
  MaxFaults,   \* bound: failures
  Scenes       \* what else happens in a behaviour: each a set of Feature

Feature == {"bundles", "bundle", "faults", "nodes", "node", "reboot", "stats", "blocks",
            "merge", "http", "socket", "import", "terminal", "drop"}

ASSUME SceneAssumption == Scenes \subseteq SUBSET Feature
ASSUME ClassesAssumption == Classes \in Seq(STRING)
ASSUME WindowAssumption == Window \in Nat /\ Window > Len(Classes) /\ MaxTries \in Nat \ {0}
ASSUME NodeAssumption == Node \subseteq Nat \ {0}
ASSUME BoundAssumption == MaxMade \in Nat \ {0} /\ MaxBundles \in Nat \ {0}

VARIABLES
  scene,
  live,        \* self.nodes, with an identity for each node ever made
  epoch, boot, \* self._epoch, self.boot_id
  total,       \* bundles delivered to each container: lines of its bpsink.log
  ionlog,      \* the last lines of each ion.log
  printing,    \* what ION is about to write to it
  poll,        \* the poller task
  snapshot,    \* app.state.stats_snapshot
  made, faults \* the counters of the bounds

statsVars == <<scene, live, epoch, boot, total, ionlog, printing, poll, snapshot, made, faults>>
nodeVars == <<scene, live, epoch, boot, total, made>>
ionVars == <<ionlog, printing>>

On(x) == x \in scene
Fail == On("faults") /\ faults < MaxFaults /\ faults' = faults + 1
NoFail == UNCHANGED faults

-----------------------------------------------------------------------------
(* Nodes: the locked sections of create_node, delete_node and reconcile     *)

Absent == [inc |-> 0, st |-> "absent"]
Present(n) == live[n].st # "absent"

\* A container to look into: the name of a placeholder is empty.
Readable(n) == live[n].st = "made"

NewIon(n) == /\ total' = [total EXCEPT ![n] = 0]
             /\ ionlog' = [ionlog EXCEPT ![n] = <<>>]
             /\ printing' = [printing EXCEPT ![n] = <<>>]

\* The count of blocks that the poller holds is of the old container: by how
\* much it exceeds that of the new one does not matter beyond one.
Recounted(n) ==
  IF poll.n = n /\ poll.at \in {"trigger", "read", "now"}
  THEN \E k \in {-1, 0} : poll' = [poll EXCEPT !.fresh = k]
  ELSE UNCHANGED poll

\* The placeholder of create_node: the epoch stands still.
ReserveNode(n) ==
  /\ ~Present(n)
  /\ (On("nodes") /\ made < MaxMade) \/ (On("node") /\ made = 0)
  /\ made' = made + 1
  /\ live' = [live EXCEPT ![n] = [inc |-> made + 1, st |-> "creating"]]
  /\ NewIon(n) /\ Recounted(n)
  /\ UNCHANGED <<scene, epoch, boot, snapshot, faults>>

\* Its commit, or its rollback.
CommitNode(n) ==
  /\ live[n].st = "creating"
  /\ live' = [live EXCEPT ![n].st = "made"]
  /\ epoch' = epoch + 1
  /\ UNCHANGED <<scene, boot, total, made, ionVars, poll, snapshot, faults>>

UnreserveNode(n) ==
  /\ live[n].st = "creating"
  /\ live' = [live EXCEPT ![n] = Absent]
  /\ UNCHANGED <<scene, epoch, boot, total, made, ionVars, poll, snapshot, faults>>

\* Mutant: delete_node does not bump the epoch.
DeleteNodeSilently(n) ==
  /\ On("nodes") /\ live[n].st = "made"
  /\ live' = [live EXCEPT ![n] = Absent]
  /\ NewIon(n) /\ Recounted(n)
  /\ UNCHANGED <<scene, epoch, boot, made, snapshot, faults>>

DeleteNode(n) ==
  /\ On("nodes") /\ live[n].st = "made"
  /\ live' = [live EXCEPT ![n] = Absent]
  /\ epoch' = epoch + 1
  /\ NewIon(n) /\ Recounted(n)
  /\ UNCHANGED <<scene, boot, made, snapshot, faults>>

-----------------------------------------------------------------------------
(* ION in the containers (external)                                        *)

Bundle(n) ==
  /\ Readable(n)
  /\ (On("bundles") /\ total[n] < MaxBundles) \/ (On("bundle") /\ total[n] = 0)
  /\ total' = [total EXCEPT ![n] = @ + 1]
  /\ UNCHANGED <<scene, live, epoch, boot, made, ionVars, poll, snapshot, faults>>

\* A block of statistics: a line with the total, then one for each class.
Block(v) == <<[cls |-> "total", val |-> v]>> \o [i \in DOMAIN Classes |-> [cls |-> Classes[i], val |-> v]]

LastLines(s, k) == IF Len(s) <= k THEN s ELSE SubSeq(s, Len(s) - k + 1, Len(s))

\* The poller's count of the blocks written since it first counted them.
PrintLine(n) ==
  /\ printing[n] # <<>>
  /\ printing' = [printing EXCEPT ![n] = Tail(@)]
  /\ ionlog' = [ionlog EXCEPT ![n] = LastLines(Append(@, Head(printing[n])), Window)]
  /\ poll' = IF poll.n = n /\ Head(printing[n]).cls = "total" /\ poll.fresh < 1
             THEN [poll EXCEPT !.fresh = @ + 1] ELSE poll
  /\ UNCHANGED <<nodeVars, snapshot, faults>>

-----------------------------------------------------------------------------
(* The poller                                                              *)

NoNode == 0
NoValues == [c \in Range(Classes) |-> 0]

\* What is known of a node: values of the classes, bundles delivered, the node
\* that was asked, and whether every answer came.
NoStats == [vals |-> NoValues, dlv |-> 0, of |-> 0, ok |-> FALSE]
Nothing == [n \in Node |-> NoStats]

\* fresh: blocks written since they were counted. lines: what tail has read.
Asleep == [at |-> "asleep", todo |-> {}, n |-> NoNode, of |-> 0, fresh |-> 0, tries |-> 0,
           lines |-> <<>>, ok |-> TRUE, vals |-> NoValues, result |-> Nothing]

\* On to the next node, with st for the present one.
Done(st) == [poll EXCEPT !.at = "next", !.n = NoNode, !.of = 0, !.fresh = 0, !.tries = 0, !.lines = <<>>,
                          !.ok = TRUE, !.vals = NoValues, !.result[poll.n] = st]

\* BackendTimeout: the node gets zeros.
TimedOut == Fail /\ poll' = Done(NoStats)

\* The locked list of the nodes.
PollStart ==
  /\ On("stats") /\ poll.at = "asleep"
  /\ poll' = [Asleep EXCEPT !.at = "next", !.todo = {n \in Node : Present(n)}]
  /\ UNCHANGED <<nodeVars, ionVars, snapshot, faults>>

\* The locked lookup of the next node's container, or zeros if it is gone. A scene
\* without "blocks" leaves bpstats out.
PollNode ==
  /\ poll.at = "next" /\ poll.todo # {}
  /\ LET n == Min(poll.todo)
     IN poll' = IF Present(n)
                THEN [poll EXCEPT !.at = IF On("blocks") THEN "count" ELSE "sum", !.n = n, !.of = live[n].inc, !.todo = @ \ {n}]
                ELSE [poll EXCEPT !.todo = @ \ {n}]
  /\ UNCHANGED <<nodeVars, ionVars, snapshot, faults>>

\* Every node has been asked.
Publish ==
  /\ poll.at = "next" /\ poll.todo = {}
  /\ snapshot' = poll.result
  /\ poll' = Asleep
  /\ UNCHANGED <<nodeVars, ionVars, faults>>

\* The blocks so far. A command that fails counts as none.
CountBlocks ==
  LET n == poll.n
      any == IF ionlog[n] = <<>> THEN 0 ELSE 1
  IN /\ poll.at = "count"
     /\ \/ NoFail /\ poll' = [poll EXCEPT !.at = "trigger"]
        \/ Fail /\ poll' = [poll EXCEPT !.at = "trigger", !.fresh = any]
        \/ TimedOut
     /\ UNCHANGED <<nodeVars, ionVars, snapshot>>

Told(n) == [printing EXCEPT ![n] = @ \o Block(total[n])]

\* bpstats, whose failure is ignored. Bound: ION is at most one block behind.
Trigger ==
  LET n == poll.n
  IN /\ poll.at = "trigger" /\ Len(printing[n]) <= Len(Classes)
     /\ \/ Readable(n) /\ NoFail /\ printing' = Told(n)
        \/ ~Readable(n) /\ NoFail /\ UNCHANGED printing
        \/ Readable(n) /\ Fail /\ printing' \in {printing, Told(n)}
     /\ poll' = [poll EXCEPT !.at = "read", !.tries = MaxTries]
     /\ UNCHANGED <<nodeVars, ionlog, snapshot>>

\* tail -n 60 ion.log, of whatever container has the name by now.
ReadLines ==
  /\ poll.at = "read"
  /\ \/ NoFail /\ poll' = [poll EXCEPT !.at = "now",
                             !.lines = IF Readable(poll.n) THEN ionlog[poll.n] ELSE <<>>]
     \/ TimedOut
  /\ UNCHANGED <<nodeVars, ionVars, snapshot>>

\* Mutant: where the comment says that the lines are taken from, the start of the
\* last block.
LastBlock(lines) == SelectLastInSeq(lines, LAMBDA x : x.cls = "total")

\* The first line of a block in the window, whole or not; 0 if there is none.
FirstBlock(lines) == IF lines = <<>> THEN 0 ELSE 1

\* The last line of each class wins.
Parsed(lines) ==
  [c \in Range(Classes) |->
     LET at == {i \in DOMAIN lines : lines[i].cls = c}
     IN IF at = {} THEN 0 ELSE lines[Max(at)].val]

\* Is there a block that was not counted? Then what has been read is parsed;
\* otherwise it is read again, or nothing is known.
CountAgain ==
  LET start == FirstBlock(poll.lines)
      new   == Readable(poll.n) /\ poll.fresh > 0 /\ start # 0
      next  == IF poll.tries > 1 THEN [poll EXCEPT !.at = "read", !.tries = @ - 1, !.lines = <<>>]
               ELSE [poll EXCEPT !.at = "sum", !.ok = FALSE, !.lines = <<>>]
  IN /\ poll.at = "now"
     /\ \/ new /\ NoFail
           /\ poll' = [poll EXCEPT !.at = "sum", !.lines = <<>>,
                                   !.vals = Parsed(SubSeq(poll.lines, start, Len(poll.lines)))]
        \/ ~new /\ NoFail /\ poll' = next
        \/ Fail /\ poll' = next
        \/ TimedOut
     /\ UNCHANGED <<nodeVars, ionVars, snapshot>>

\* grep -c over all of bpsink.log.
Delivered(n) == total[n]

\* get_bundle_count: no node, no file or a timeout count as zero.
CountBundles ==
  LET n == poll.n
      st == [vals |-> poll.vals, dlv |-> Delivered(n), of |-> poll.of, ok |-> poll.ok /\ live[n].inc = poll.of]
  IN /\ poll.at = "sum"
     /\ \/ Readable(n) /\ NoFail /\ poll' = Done(st)
        \/ ~Readable(n) /\ NoFail /\ poll' = Done([st EXCEPT !.dlv = 0, !.ok = FALSE])
        \/ Readable(n) /\ Fail /\ poll' = Done([st EXCEPT !.dlv = 0, !.ok = FALSE])
     /\ UNCHANGED <<nodeVars, ionVars, snapshot>>

PollStep == \/ PollStart \/ PollNode \/ Publish \/ CountBlocks \/ Trigger \/ ReadLines
            \/ CountAgain \/ CountBundles

-----------------------------------------------------------------------------

StatsInit ==
  /\ scene \in Scenes
  /\ live = [n \in Node |-> Absent]
  /\ epoch = 1 /\ boot = 1
  /\ total = [n \in Node |-> 0]
  /\ ionlog = [n \in Node |-> <<>>]
  /\ printing = [n \in Node |-> <<>>]
  /\ poll = Asleep
  /\ snapshot = Nothing
  /\ made = 0 /\ faults = 0

NodeStep ==
  \E n \in Node : \/ ReserveNode(n) \/ CommitNode(n) \/ UnreserveNode(n) \/ DeleteNode(n)
                  \/ Bundle(n) \/ PrintLine(n)

-----------------------------------------------------------------------------
(* Properties *)

\* As long as every command answers, what the snapshot says of a node never falls
\* back while the node lives, although blocks are read while ION writes them and
\* through a window (docker_manager.py:690-709: the count never "silently caps/
\* decreases"; 711-751, 764-785).
StatsNeverFallBack ==
  [][\A n \in Node :
       snapshot[n].ok /\ snapshot'[n].ok /\ snapshot'[n].of = snapshot[n].of =>
         /\ snapshot'[n].dlv >= snapshot[n].dlv
         /\ \A c \in Range(Classes) : snapshot'[n].vals[c] >= snapshot[n].vals[c]
    ]_statsVars
=============================================================================

-------------------------------- MODULE LiveView --------------------------------
(***************************************************************************)
(* What a browser shows of the server: the topology, over the socket that   *)
(* pushes it (ws_topology) and over the requests that poll it              *)
(* (fetchTopology), the badges of the nodes (fetchBundleStats), and one      *)
(* terminal per node, fed by a socket of its own (ws_logs).                 *)
(***************************************************************************)
EXTENDS NodeStats

CONSTANTS
  Requests,   \* topology requests that may be under way together
  Tail100,    \* the lines of bpsink.log that ws_logs reads (100)
  MaxDrops,   \* bound: connections lost
  MaxImports  \* bound: imports from this browser

ASSUME TailAssumption == Tail100 \in Nat \ {0}

VARIABLES
  shown,      \* topology, serverEpoch and serverBootId of app.js
  badges,     \* bundleStats of app.js
  pushed,     \* messages of the topology socket on their way
  asked,      \* each topology request: not made, or made, or the answer to it
  askedStats, \* the request for the statistics
  importing,  \* importInProgress, and whether its import is over
  term,       \* the terminal of each node: open, lines of its connection so far
  session,    \* the ws_logs session of each terminal
  logs,       \* its messages on their way
  drops, imports

topoVars == <<shown, badges, pushed, asked, askedStats, importing>>
termVars == <<term, session, logs>>
viewVars == <<topoVars, termVars, drops, imports>>
liveVars == <<statsVars, viewVars>>

NoTopology == [epoch |-> 0, boot |-> 0, nodes |-> [n \in Node |-> Absent], recv |-> [n \in Node |-> 0]]

\* get_topology(): one locked snapshot. Only the socket merges what the poller
\* knows; recv says of which node (in scenes with "merge").
Topology(merged) ==
  [epoch |-> epoch, boot |-> boot, nodes |-> live,
   recv |-> [n \in Node |-> IF merged /\ On("merge") /\ Present(n) THEN snapshot[n].of ELSE 0]]

Importing == importing # "off"
Shown(n) == shown.nodes[n].st # "absent"

-----------------------------------------------------------------------------
(* Terminals *)

Closed == [open |-> FALSE, got |-> <<>>]
NoSession == [up |-> FALSE, last |-> 0, clean |-> TRUE, of |-> 0]

\* Mutant: terminals are added, but none is removed.
SyncAdding(nodes) ==
  /\ term' = [n \in Node |-> IF On("terminal") /\ nodes[n].st # "absent"
                             THEN [term[n] EXCEPT !.open = TRUE] ELSE term[n]]
  /\ UNCHANGED <<session, logs>>

\* syncTerminals(): one terminal for each node in the topology.
SyncTerminals(nodes) ==
  LET there(n) == On("terminal") /\ nodes[n].st # "absent"
  IN /\ term' = [n \in Node |-> IF there(n) THEN [term[n] EXCEPT !.open = TRUE] ELSE Closed]
     /\ session' = [n \in Node |-> IF there(n) THEN session[n] ELSE NoSession]
     /\ logs' = [n \in Node |-> IF there(n) THEN logs[n] ELSE <<>>]

\* The socket of an open terminal connects, again if it must.
ConnectLogs(n) ==
  /\ term[n].open /\ ~session[n].up
  /\ session' = [session EXCEPT ![n] = [NoSession EXCEPT !.up = TRUE]]
  /\ term' = [term EXCEPT ![n].got = <<>>]
  /\ UNCHANGED <<statsVars, topoVars, logs, drops, imports>>

DropLogs(n) ==
  /\ On("drop") /\ session[n].up /\ drops < MaxDrops
  /\ drops' = drops + 1
  /\ session' = [session EXCEPT ![n] = NoSession]
  /\ logs' = [logs EXCEPT ![n] = <<>>]
  /\ UNCHANGED <<statsVars, topoVars, term, imports>>

\* A line of a container's log, and what docker exec says on stderr when it finds
\* no container: a line as any other.
Line(n, k) == [of |-> live[n].inc, no |-> k]
Complaint == [of |-> 0, no |-> 0]

Output(n) ==
  IF Readable(n)
  THEN [k \in 1..Min({total[n], Tail100}) |-> Line(n, k + total[n] - Min({total[n], Tail100}))]
  ELSE <<Complaint>>

\* Mutant: what is remembered is how many lines were sent last.
SentLast(last, lines) == Len(lines) - last

\* last_line_count = len(lines)
SeenAfter(last, lines) == Len(lines)

\* Mutant: the first line that is new is left out.
NewAfterNext(last, lines) == SubSeq(lines, last + 2, Len(lines))

\* lines[last_line_count:]
NewLines(last, lines) == SubSeq(lines, last + 1, Len(lines))

\* One turn of ws_logs. It is skipped while there is no such node. clean: all that
\* was counted are lines of one container.
ReadLogs(n) ==
  LET s == session[n]
      lines == Output(n)
      mine == Readable(n) /\ s.of \in {0, live[n].inc}
  IN /\ s.up /\ Present(n)
     /\ Len(lines) > s.last
     /\ session' = [session EXCEPT ![n] = [up |-> TRUE, last |-> SeenAfter(s.last, lines),
                                           clean |-> s.clean /\ mine, of |-> live[n].inc]]
     /\ logs' = [logs EXCEPT ![n] = Append(@, NewLines(s.last, lines))]
     /\ UNCHANGED <<statsVars, topoVars, term, drops, imports>>

\* appendToTerminal()
ShowLines(n) ==
  /\ logs[n] # <<>>
  /\ logs' = [logs EXCEPT ![n] = Tail(@)]
  /\ term' = [term EXCEPT ![n].got = @ \o Head(logs[n])]
  /\ UNCHANGED <<statsVars, topoVars, session, drops, imports>>

-----------------------------------------------------------------------------
(* Topology *)

NoBadges == Nothing

\* Mutant: the badges are never flushed.
NotFlushed(topology) == badges

\* reconcileEpoch(): a new epoch or a new process flushes the badges.
Flushed(topology) ==
  IF shown # NoTopology /\ (shown.epoch # topology.epoch \/ shown.boot # topology.boot)
  THEN NoBadges ELSE badges

Show(topology) ==
  /\ badges' = Flushed(topology)
  /\ shown' = topology
  /\ SyncTerminals(topology.nodes)

\* One turn of ws_topology, once the last message has gone.
Push ==
  /\ On("socket") /\ pushed = <<>>
  /\ pushed' = <<Topology(TRUE)>>
  /\ UNCHANGED <<statsVars, shown, badges, asked, askedStats, importing, termVars, drops, imports>>

\* A message that comes while an import is running is skipped.
Receive ==
  /\ pushed # <<>>
  /\ pushed' = <<>>
  /\ IF Importing THEN UNCHANGED <<shown, badges, termVars>> ELSE Show(Head(pushed))
  /\ UNCHANGED <<statsVars, asked, askedStats, importing, drops, imports>>

Idle == [st |-> "idle", data |-> NoTopology]

\* A timer asks every three seconds, whatever is under way, but not during an
\* import; so does every mutation.
Ask(r) ==
  /\ On("http") /\ asked[r].st = "idle" /\ ~Importing
  /\ asked' = [asked EXCEPT ![r].st = "asked"]
  /\ UNCHANGED <<statsVars, shown, badges, pushed, askedStats, importing, termVars, drops, imports>>

Answer(r) ==
  /\ asked[r].st = "asked"
  /\ asked' = [asked EXCEPT ![r] = [st |-> "answered", data |-> Topology(FALSE)]]
  /\ UNCHANGED <<statsVars, shown, badges, pushed, askedStats, importing, termVars, drops, imports>>

\* An answer that comes in the course of an import is not skipped.
Arrive(r) ==
  /\ asked[r].st = "answered"
  /\ asked' = [asked EXCEPT ![r] = Idle]
  /\ Show(asked[r].data)
  /\ UNCHANGED <<statsVars, pushed, askedStats, importing, drops, imports>>

\* A request fails: there is nothing to show until the next.
LoseAnswer(r) ==
  /\ asked[r].st # "idle" /\ Fail
  /\ asked' = [asked EXCEPT ![r] = Idle]
  /\ UNCHANGED <<nodeVars, ionVars, poll, snapshot, shown, badges, pushed, askedStats, importing,
                 termVars, drops, imports>>

-----------------------------------------------------------------------------
(* Badges *)

NoAnswer == [st |-> "idle", data |-> Nothing]

\* fetchBundleStats(): nothing is asked while the topology is empty. The answer is
\* on its way at once: it may as well have been asked for later.
AskStats ==
  /\ On("stats") /\ askedStats.st = "idle"
  /\ \E n \in Node : Shown(n)
  /\ askedStats' = [st |-> "answered", data |-> snapshot]
  /\ UNCHANGED <<statsVars, shown, badges, pushed, asked, importing, termVars, drops, imports>>

\* Mutant: what is there already is kept.
FilteredUnder(data) == [n \in Node |-> IF Shown(n) /\ badges[n] = NoStats THEN data[n] ELSE badges[n]]

\* Statistics of nodes that are not in the topology by now are dropped.
Filtered(data) == [n \in Node |-> IF Shown(n) THEN data[n] ELSE NoStats]

ShowStats ==
  /\ askedStats.st = "answered"
  /\ askedStats' = NoAnswer
  /\ badges' = Filtered(askedStats.data)
  /\ UNCHANGED <<statsVars, shown, pushed, asked, importing, termVars, drops, imports>>

-----------------------------------------------------------------------------
(* An import from this browser, and the end of the server process          *)

StartImport ==
  /\ On("import") /\ ~Importing /\ imports < MaxImports
  /\ imports' = imports + 1
  /\ importing' = "on"
  /\ UNCHANGED <<statsVars, shown, badges, pushed, asked, askedStats, termVars, drops>>

\* Mutant: sync is resumed after a success only.
ResumedBySuccess(ok) == IF ok THEN "off" ELSE "left on"

\* The finally clause: sync is resumed whatever came of it.
Resumed(ok) == "off"

\* Only a success is followed by a topology request at once: the one that follows a
\* failure finds the gate closed.
EndImport ==
  /\ importing = "on"
  /\ \E ok \in BOOLEAN : importing' = Resumed(ok)
  /\ UNCHANGED <<statsVars, shown, badges, pushed, asked, askedStats, termVars, drops, imports>>

\* A new process adopts the nodes that have a container; one that was half-made may
\* have. Its clients connect anew.
Reboot ==
  /\ On("reboot") /\ boot = 1
  /\ boot' = 2 /\ epoch' = 1
  /\ \E half \in SUBSET {n \in Node : live[n].st = "creating"} :
       live' = [n \in Node |-> IF Readable(n) THEN live[n]
                               ELSE IF n \in half THEN [live[n] EXCEPT !.st = "made"] ELSE Absent]
  /\ poll' = Asleep /\ snapshot' = Nothing
  /\ pushed' = <<>>
  /\ asked' = [r \in Requests |-> IF asked[r].st = "asked" THEN Idle ELSE asked[r]]
  /\ session' = [n \in Node |-> NoSession]
  /\ logs' = [n \in Node |-> <<>>]
  /\ UNCHANGED <<scene, total, made, ionVars, faults, shown, badges, askedStats, importing, term, drops, imports>>

-----------------------------------------------------------------------------

LiveInit ==
  /\ StatsInit
  /\ shown = NoTopology /\ badges = NoBadges
  /\ pushed = <<>>
  /\ asked = [r \in Requests |-> Idle]
  /\ askedStats = NoAnswer
  /\ importing = "off"
  /\ term = [n \in Node |-> Closed]
  /\ session = [n \in Node |-> NoSession]
  /\ logs = [n \in Node |-> <<>>]
  /\ drops = 0 /\ imports = 0

\* What runs by itself: loops, timers, answers, and ION.
Running ==
  \/ PollStep /\ UNCHANGED viewVars
  \/ \E n \in Node : PrintLine(n) /\ UNCHANGED viewVars
  \/ Push \/ Receive \/ AskStats \/ ShowStats \/ EndImport
  \/ \E r \in Requests : Ask(r) \/ Answer(r) \/ Arrive(r)
  \/ \E n \in Node : ConnectLogs(n) \/ ReadLogs(n) \/ ShowLines(n)

LiveNext ==
  \/ Running
  \/ NodeStep /\ UNCHANGED viewVars
  \/ StartImport \/ Reboot
  \/ \E r \in Requests : LoseAnswer(r)
  \/ \E n \in Node : DropLogs(n)

\* Each loop goes on, each timer fires, each request that is not lost is answered,
\* and each import returns.
LiveSpec ==
  /\ LiveInit /\ [][LiveNext]_liveVars
  /\ WF_liveVars(PollStep /\ UNCHANGED viewVars)
  /\ WF_liveVars(Push) /\ WF_liveVars(Receive)
  /\ WF_liveVars(AskStats) /\ WF_liveVars(ShowStats)
  /\ WF_liveVars(EndImport)
  /\ \A n \in Node : /\ WF_liveVars(PrintLine(n) /\ UNCHANGED viewVars)
                     /\ WF_liveVars(ConnectLogs(n)) /\ WF_liveVars(ReadLogs(n)) /\ WF_liveVars(ShowLines(n))
  /\ \A r \in Requests : WF_liveVars(Ask(r)) /\ WF_liveVars(Answer(r)) /\ WF_liveVars(Arrive(r))

-----------------------------------------------------------------------------
(* Properties *)

LineSeq == Seq([of : 0..MaxMade, no : 0..MaxBundles])

\* Nodes, badges and terminals have their types; a terminal is open for each node
\* that is shown, and for no other (app.js:400-424).
LiveTypeOK ==
  /\ shown.nodes \in [Node -> [inc : 0..MaxMade, st : {"absent", "creating", "made"}]]
  /\ \A n \in Node : /\ badges[n].dlv \in 0..MaxBundles /\ badges[n].of \in 0..MaxMade
                     /\ term[n].got \in LineSeq
                     /\ term[n].open <=> (On("terminal") /\ Shown(n))
                     /\ session[n].up => term[n].open
                     /\ session[n].last \in 0..Tail100

\* The topologies that are shown, on their way, or the server's own.
Topologies ==
  {shown, Topology(FALSE)} \union Range(pushed) \union {asked[r].data : r \in Requests}

MadeIn(t) == {<<n, t.nodes[n].inc>> : n \in {m \in Node : t.nodes[m].st = "made"}}

\* Two topologies of one process and one epoch have the same nodes: the epoch tells
\* the browser when to flush the badges (docker_manager.py:75-83; app.js:35-38).
EpochIdentifiesNodes ==
  \A t1, t2 \in Topologies :
    t1.boot = t2.boot /\ t1.epoch = t2.epoch => MadeIn(t1) = MadeIn(t2)

\* Over one connection a terminal gets the lines of a container in their order, and
\* none twice, although the window slides and the node may be made anew
\* (websocket.py:68-96).
LinesOnceInOrder ==
  \A n \in Node : \A i, j \in DOMAIN term[n].got :
    LET x == term[n].got[i]
        y == term[n].got[j]
    IN i < j /\ x.of = y.of /\ x.of # 0 => x.no < y.no

\* A line that a session has to send: its log fits into the window, and nothing but
\* lines of this container has been counted.
Due(n, k) ==
  /\ session[n].up /\ session[n].clean /\ session[n].of \in {0, live[n].inc}
  /\ Readable(n) /\ k <= total[n] /\ total[n] <= Tail100

\* Each such line is shown in the end (websocket.py:83-94).
LinesArrive ==
  \A n \in Node, k \in 1..Tail100 :
    Due(n, k) ~> ([of |-> live[n].inc, no |-> k] \in Range(term[n].got) \/ ~Due(n, k))

\* Once the nodes stay as they are the browser shows them, in spite of late answers,
\* messages skipped during imports that fail, and a restart (app.js:186-213, 373-393,
\* 1554-1599: "always resume sync").
ViewSettles ==
  On("socket") => <>[](shown.nodes = live /\ shown.epoch = epoch /\ shown.boot = boot)

\* Then the badge and the count of each node are its own, and complete
\* (app.js:225-238; websocket.py:48-56; main.py:69-77).
BadgesSettle ==
  On("stats") /\ On("socket") =>
    <>[](\A n \in Node : Readable(n) => /\ badges[n].of = live[n].inc /\ badges[n].dlv = total[n]
                                        /\ On("merge") => shown.recv[n] = live[n].inc)

\* When a node is gone from the topology that is shown, or another one has its id,
\* its badge is gone, before any new statistics come: "a stale badge can never
\* outlive the node it described" (app.js:186-198). A placeholder may have one.
BadgesGoWithNodes ==
  [][\A n \in Node :
       shown.nodes[n].st = "made" /\ shown'.nodes[n].inc # shown.nodes[n].inc => badges'[n] = NoStats
    ]_liveVars

=============================================================================

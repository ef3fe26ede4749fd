--------------------------- MODULE MCLiveTopology ---------------------------
(* The instance of LiveTopology for TLC. *)
EXTENDS LiveTopology, TLC

CONSTANTS p1, p2

TwoThreads == {p1, p2}

Loss  == [loss |-> 100, delay |-> 0, jitter |-> 0]
Slow  == [loss |-> 0, delay |-> 10, jitter |-> 5]
Lossy == [loss |-> 20, delay |-> 0, jitter |-> 5]
Netems == {Loss, Slow, Lossy}

Ring == {<<1, 2>>, <<2, 3>>, <<3, 4>>, <<1, 4>>}

MCOrders == {<<1, 2, 3, 4>>, <<4, 3, 2, 1>>}

\* A ring that has lost a link since its exits were set, and a path that has
\* become a ring; one thread sets all exits, the other those of one node, or takes
\* a link away. A node or a link goes while exits are set on a path.
Broken == [calls |-> 2, nodes |-> 1..4, was |-> Ring, now |-> Ring \ {<<1, 4>>},
           may |-> p1 :> {"set_all"} @@ p2 :> {"set_node", "add_exit"}]
Closed == [calls |-> 2, nodes |-> 1..4, was |-> Ring \ {<<1, 4>>}, now |-> Ring,
           may |-> p1 :> {"set_all"} @@ p2 :> {"delete_link"}]
Path == {<<1, 2>>, <<2, 3>>}
Leaving == [calls |-> 2, nodes |-> 1..3, was |-> Path, now |-> Path,
            may |-> p1 :> {"set_all", "set_node", "clear_all"} @@ p2 :> {"delete_node", "delete_link"}]

\* One thread disrupts and restores what the other takes away and makes; two
\* disrupt the same link.
Shaky == [calls |-> 3, nodes |-> {1, 2, 4}, was |-> {}, now |-> {<<1, 2>>},
          may |-> p1 :> {"disrupt", "restore"} @@ p2 :> {"delete_link", "create_link"}]
Clash == [calls |-> 3, nodes |-> 1..2, was |-> {}, now |-> {<<1, 2>>},
          may |-> p1 :> {"disrupt"} @@ p2 :> {"disrupt", "restore"}]

\* One thread hands out documents while the other changes what they say.
Moving == [calls |-> 3, nodes |-> 1..2, was |-> {<<1, 2>>}, now |-> {<<1, 2>>},
           may |-> p1 :> {"export", "bundle"} @@
                   p2 :> {"create_node", "delete_node", "create_link", "delete_link"}]
Fading == [calls |-> 3, nodes |-> 1..3, was |-> Path, now |-> {<<1, 2>>},
           may |-> p1 :> {"export", "raw_exit"} @@ p2 :> {"disrupt", "delete_exit"}]

\* A link is disrupted while it is created, or while its end is made anew.
Early == [calls |-> 3, nodes |-> 1..2, was |-> {}, now |-> {},
          may |-> p1 :> {"create_link", "export", "config"} @@ p2 :> {"disrupt"}]
Anew == [calls |-> 3, nodes |-> 1..2, was |-> {}, now |-> {<<1, 2>>},
         may |-> p1 :> {"create_link", "disrupt"} @@ p2 :> {"delete_node", "create_node"}]

\* Two threads delete the same link, and one makes it anew.
Twice == [calls |-> 4, nodes |-> 1..2, was |-> {}, now |-> {<<1, 2>>},
         may |-> p1 :> {"delete_link"} @@ p2 :> {"delete_link", "create_link", "disrupt"}]

MCScenes == {Broken, Closed, Leaving, Shaky, Clash, Moving, Fading, Early, Anew, Twice}

Hand == {<<3, 4, 2>>}
=============================================================================

--------------------------- MODULE MCDockerManager ---------------------------
(* Instances of DockerManager for TLC. *)
EXTENDS DockerManager, TLC

CONSTANTS p1, p2

OneThread == {p1}
TwoThreads == {p1, p2}

Triangle == {<<1, 2>>, <<1, 3>>, <<2, 3>>}
SinglePair == {<<1, 2>>}
Star == {<<1, 2>>, <<1, 3>>}

Everything == [p \in {p1} |-> Operation]

BothDelete == p1 :> {"create_link", "delete_link", "create_node"} @@ p2 :> {"delete_link", "delete_node"}

\* One thread builds, the other builds links too and deletes.
OneDeleter == p1 :> {"create_link", "create_node"} @@ p2 :> {"create_link", "delete_link", "delete_node"}

\* Both threads delete links.
TwoDeleters == [p \in {p1, p2} |-> {"create_link", "delete_link"}]

\* Which calls may fail. "writer" and "exit" are the two external actions.
CallFailures == LinkLabel \union NodeLabel
NoLabel == {}

\* Any call that builds something, or any other process, gets in the way;
\* clean-up calls succeed.
BuildFailures ==
  (CallFailures \ {"cl_config", "cl_undo", "cl_unnet", "cn_undo",
                   "dl_ion", "dl_get", "dl_disc", "dl_remove"})
  \union {"writer", "exit"}
BuildLosses == {"cn_stale", "cn_run"}

\* Anything fails but the two clean-up calls whose failure leaks by design.
AllButRollback == (CallFailures \ {"cl_undo", "cl_unnet", "cn_undo"}) \union {"exit"}
LossesButNetworks == {"cn_stale", "cn_run", "dl_remove"}

AllLosses == LossesButNetworks \union {"cl_new", "cl_connect", "dn_ctr"}
=============================================================================

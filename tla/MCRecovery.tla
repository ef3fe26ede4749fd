------------------------------ MODULE MCRecovery ------------------------------
(* An instance of Recovery for TLC. *)
EXTENDS Recovery

CONSTANTS p1

OneThread == {p1}
Everything == [p \in OneThread |-> Operation]
OnePair == {<<1, 2>>}

Asks(pr, cl) == [pr |-> pr, cl |-> cl]

\* A file that can be built, and one whose second link exists by then. The first
\* wants its link disrupted.
GoodFile == [nodes |-> {1, 2}, links |-> <<Asks(<<1, 2>>, "tcp")>>, netem |-> {<<1, 2>>}]
TwiceFile == [nodes |-> {1, 2}, netem |-> {},
              links |-> <<Asks(<<1, 2>>, "tcp"), Asks(<<1, 2>>, "tcp")>>]
SomeFiles == {GoodFile, TwiceFile}

\* The failures of a rollback leak by design, and so does a network or an endpoint whose
\* creation is reported as failed. The failures left out have the effect of others.
Failures == (LinkLabel \union NodeLabel \union {"reap", "reconcile", "list", "sweep", "disrupt", "repair", "exit"})
              \ {"cl_undo", "cl_unnet", "cn_undo", "cl_get", "cl_race", "cl_ctrs", "cn_stale", "cn_dir"}
Losses == {"cn_run", "dl_remove", "dn_ctr"}
=============================================================================

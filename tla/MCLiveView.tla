------------------------------ MODULE MCLiveView ------------------------------
(* An instance of LiveView for TLC. Each scene is a part of the whole. *)
EXTENDS LiveView

TwoClasses == <<"src", "dlv">>

Poller    == {"faults", "stats", "blocks", "bundle", "nodes"}
Badges    == {"stats", "nodes", "socket"}
Counts    == {"stats", "merge", "bundle", "node", "socket"}
Sync      == {"faults", "http", "socket", "nodes", "import", "reboot"}
Terminals == {"terminal", "socket", "nodes", "bundles", "drop"}

AllScenes == {Poller, Badges, Counts, Sync, Terminals}
=============================================================================

----------------------------- MODULE MCSubnetPool -----------------------------
(* SubnetPool for TLC: three indices and one link more than that. *)
EXTENDS SubnetPool

CONSTANTS l1, l2, l3, l4

MCOwner == {l1, l2, l3, l4}
=============================================================================

---------------------------- MODULE IndexAllocator ----------------------------
(***************************************************************************)
(* What the subnet pool promises to its callers. There is no counter, no   *)
(* free list and no order here: any resource without an owner may be       *)
(* issued, and a request may be refused. An owner may take a resource that *)
(* it found in place whoever owns it; from then on the allocator no longer *)
(* protects that resource, until all its owners have let go.               *)
(***************************************************************************)
CONSTANTS Owner, Resource, None

VARIABLES lease,     \* what each owner holds, or None
          shared     \* held resources that were taken from under an owner

Held(f) == {f[o] : o \in Owner} \ {None}

Protected == Resource \ shared

Init == /\ lease \in [Owner -> Resource \union {None}]
        /\ \A o1, o2 \in Owner : lease[o1] = lease[o2] /\ lease[o1] # None => o1 = o2
        /\ shared = {}

\* An owner with nothing is given a resource; a protected one only if nobody
\* holds it.
Issue(o) == /\ lease[o] = None
            /\ \E r \in Resource \ (Held(lease) \intersect Protected) :
                  lease' = [lease EXCEPT ![o] = r]
            /\ UNCHANGED shared

\* An owner returns what it holds.
Return(o) == /\ lease[o] # None
             /\ lease' = [lease EXCEPT ![o] = None]
             /\ shared' = shared \intersect Held(lease')

\* An owner exchanges what it holds for another resource, which becomes shared
\* if it is held.
Exchange(o) ==
  /\ lease[o] # None
  /\ \E r \in Resource \ {lease[o]} :
        /\ lease' = [lease EXCEPT ![o] = r]
        /\ shared' = (shared \union ({r} \intersect Held(lease))) \intersect Held(lease')

Next == \E o \in Owner : Issue(o) \/ Return(o) \/ Exchange(o)

Spec == Init /\ [][Next]_<<lease, shared>>
=============================================================================

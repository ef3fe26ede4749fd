------------------------------ MODULE SubnetPool ------------------------------
(***************************************************************************)
(* The SubnetPool object as its only client, DockerManager, drives it: the *)
(* constructor and from_live() at start-up, then allocate(), release() and *)
(* the release-then-reserve of create_link when it adopts a network whose  *)
(* real subnet differs. Every call is made under DockerManager._lock, so   *)
(* each is one step. Between them, the calls of several links create and   *)
(* remove networks on the subnets that they were given.                    *)
(***************************************************************************)
EXTENDS SubnetPoolOps

CONSTANTS Owner,        \* the links that may exist
          NoIndex       \* held by a link that does not exist

ASSUME NoIndexAssumption == NoIndex \notin Index

VARIABLES
  pool,     \* the object
  lease,    \* the index each link owns
  network,  \* the index of the subnet of the live network of each link's name
  jumped,   \* history: indices the counter has passed and nobody received
  shared    \* history: owned indices that an adoption gave to a second owner

vars == <<pool, lease, network, jumped, shared>>

Held(f) == {f[o] : o \in Owner} \ {NoIndex}

\* No two links have the same index in f.
Exclusive(f) == \A o1, o2 \in Owner : f[o1] = f[o2] /\ f[o1] # NoIndex => o1 = o2

\* The indices that reserving the members of S jumps over, at p.
Skipped(p, S) == {i \in p.next..MaxIndex : \E s \in S : i < s} \ S

-----------------------------------------------------------------------------

\* SubnetPool() followed by from_live() of what reconcile() adopted. The live
\* networks have distinct subnets: Docker refuses overlapping ones. Some may
\* belong to no link: their removal failed.
Init ==
  /\ network \in {f \in [Owner -> Index \union {NoIndex}] : Exclusive(f)}
  /\ lease \in {f \in [Owner -> Index \union {NoIndex}] :
                   \A o \in Owner : f[o] \in {network[o], NoIndex}}
  /\ pool = FromLive(EmptyPool, Held(lease))
  /\ jumped = Skipped(EmptyPool, Held(lease))
  /\ shared = {}

Allocate(o) ==
  /\ lease[o] = NoIndex
  /\ ~Exhausted(pool)
  /\ pool' = Allocated(pool)
  /\ lease' = [lease EXCEPT ![o] = Issued(pool)]
  /\ UNCHANGED <<network, jumped, shared>>

\* allocate() raises CapacityError.
AllocateFails(o) ==
  /\ lease[o] = NoIndex
  /\ Exhausted(pool)
  /\ pool' = Allocated(pool)
  /\ UNCHANGED <<lease, network, jumped, shared>>

\* networks.create(); Docker refuses a subnet that a live network has.
CreateNetwork(o) ==
  /\ lease[o] # NoIndex
  /\ network[o] = NoIndex
  /\ lease[o] \notin Held(network)
  /\ network' = [network EXCEPT ![o] = lease[o]]
  /\ UNCHANGED <<pool, lease, jumped, shared>>

\* create_link found a network of the link's name on another subnet than the
\* one allocated. Nobody asks whether another call owns that index.
AdoptReal(o) ==
  LET i == network[o]
      others == {lease[q] : q \in Owner \ {o}}
  IN
  /\ lease[o] # NoIndex
  /\ i \notin {NoIndex, lease[o]}
  /\ pool' = Reserved(Released(pool, lease[o]), i)
  /\ lease' = [lease EXCEPT ![o] = i]
  /\ jumped' = (jumped \union Skipped(pool, {i})) \ {i}
  /\ shared' = (shared \union ({i} \intersect others)) \intersect Held(lease')
  /\ UNCHANGED network

\* network.remove() in delete_link or in the rollback of create_link.
RemoveNetwork(o) ==
  /\ lease[o] # NoIndex
  /\ network[o] = lease[o]
  /\ network' = [network EXCEPT ![o] = NoIndex]
  /\ UNCHANGED <<pool, lease, jumped, shared>>

\* release() at the end of delete_link or of the rollback, whether or not the
\* link's network is gone by then.
Release(o) ==
  /\ lease[o] # NoIndex
  /\ pool' = Released(pool, lease[o])
  /\ lease' = [lease EXCEPT ![o] = NoIndex]
  /\ shared' = shared \intersect Held(lease')
  /\ UNCHANGED <<network, jumped>>

Next ==
  \E o \in Owner :
    \/ Allocate(o)
    \/ AllocateFails(o)
    \/ CreateNetwork(o)
    \/ AdoptReal(o)
    \/ RemoveNetwork(o)
    \/ Release(o)

Spec == Init /\ [][Next]_vars

-----------------------------------------------------------------------------
(* Properties *)

TypeOK ==
  /\ pool \in Pool
  /\ lease \in [Owner -> Index \union {NoIndex}]
  /\ network \in [Owner -> Index \union {NoIndex}]
  /\ jumped \subseteq Index
  /\ shared \subseteq Index

\* Every index the counter has passed is in exactly one place: in use, on the
\* released list, or jumped over by a reserve(). What is in use has an owner;
\* what an owner has is in use, unless it was adopted while somebody else owned
\* it, and then it is on the released list. So no index is lost, and when the
\* owners of such an index have let go, the pool is right again
\* (subnet_pool.py:37-85).
Partition ==
  /\ pool.inUse \subseteq Held(lease)
  /\ Held(lease) \ pool.inUse \subseteq shared \intersect pool.released
  /\ pool.inUse \intersect pool.released = {}
  /\ jumped \intersect (pool.inUse \union pool.released) = {}
  /\ pool.inUse \union pool.released \union jumped = 0..(pool.next - 1)

\* An allocation is refused only when every index is owned or was jumped over
\* by an adoption (subnet_pool.py:47-58, 72-73).
RefusedOnlyWhenNoneLeft == Exhausted(pool) => Held(lease) \union jumped = Index

Allocator == INSTANCE IndexAllocator WITH Resource <- Index, None <- NoIndex

\* The pool implements the abstract allocator: allocate() never issues an index
\* that a link owns, unless an adoption has already given that index to two
\* owners; no other sequence of calls brings two owners about
\* (subnet_pool.py:37-85, docker_manager.py:425-433).
ImplementsAllocator == Allocator!Spec

\* "no torn reads or duplicate allocations" (AUDIT.md:92): no index has two
\* owners. An adoption gives it a second one (docker_manager.py:427-430).
NoDuplicateAllocation == Exclusive(lease)

\* The message of the CapacityError, "no free /24 ... (max 256 links)": an
\* allocation is refused only when every index is taken (subnet_pool.py:55-58).
ExhaustedMeansFull == Exhausted(pool) => Held(lease) = Index
=============================================================================

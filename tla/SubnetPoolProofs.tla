--------------------------- MODULE SubnetPoolProofs ---------------------------
(***************************************************************************)
(* For every MAX_INDEX and every set of links: the pool loses no index but *)
(* those an adoption jumps over, issues an owned one only after an         *)
(* adoption has shared it, and implements IndexAllocator.                  *)
(***************************************************************************)
EXTENDS SubnetPool, SubnetPoolOpsProofs

-----------------------------------------------------------------------------
(* The pool loses and duplicates no index *)

\* What two links own is shared.
OthersExclusive ==
  \A o1, o2 \in Owner :
    o1 # o2 /\ lease[o1] = lease[o2] /\ lease[o1] # NoIndex => lease[o1] \in shared

IInv == TypeOK /\ OthersExclusive /\ Partition

\* The start-up pool, seeded from any set of live networks, is consistent.
LEMMA InitIInv == Init => IInv
<1> SUFFICES ASSUME Init PROVE IInv
  OBVIOUS
<1> DEFINE S == Held(lease)
<1>1. /\ lease \in [Owner -> Index \union {NoIndex}] /\ OthersExclusive /\ S \subseteq Index
      /\ network \in [Owner -> Index \union {NoIndex}] /\ shared = {}
  BY DEF Init, Held, Exclusive, OthersExclusive
<1>2. EmptyPool \in Pool
  BY MaxIndexAssumption DEF EmptyPool, Pool
<1>3. /\ pool \in Pool
      /\ pool.inUse = S
      /\ pool.released = {}
      /\ \A s \in S : s < pool.next
      /\ pool.next # 0 => \E s \in S : pool.next = s + 1
  <2>1. pool = FromLive(EmptyPool, S)
    BY DEF Init
  <2>2. EmptyPool.next = 0 /\ EmptyPool.released = {} /\ EmptyPool.inUse = {}
    BY DEF EmptyPool
  <2> HIDE DEF S
  <2>3. LET q == FromLive(EmptyPool, S)
        IN /\ q \in Pool
           /\ q.inUse = EmptyPool.inUse \union S
           /\ q.released = EmptyPool.released \ S
           /\ \A s \in S : s < q.next
           /\ q.next # EmptyPool.next => \E s \in S : q.next = s + 1
    BY <1>1, <1>2, FromLiveEffect
  <2> QED
    BY <2>1, <2>2, <2>3
<1>4. jumped = {i \in Index : \E s \in S : i < s} \ S
  BY DEF Init, Skipped, EmptyPool, Index
<1> HIDE DEF S
<1>5. ASSUME NEW i PROVE i \in 0..(pool.next - 1) <=> i \in S \union jumped
  <2>1. pool.next \in 0..(MaxIndex + 1) /\ S \subseteq 0..MaxIndex
    BY <1>1, <1>3 DEF Pool, Index
  <2>2. CASE S = {}
    BY <1>3, <1>4, <2>1, <2>2
  <2>3. CASE S # {}
    <3>1. PICK s \in S : pool.next = s + 1
      BY <1>3, <2>1, <2>3
    <3> QED
      BY <1>3, <1>4, <2>1, <3>1, MaxIndexAssumption DEF Index
  <2> QED
    BY <2>2, <2>3
<1>6. pool.inUse \union pool.released \union jumped = 0..(pool.next - 1)
  BY <1>3, <1>5
<1>7. jumped \subseteq Index /\ jumped \intersect S = {}
  BY <1>4
<1>8. TypeOK
  BY <1>1, <1>3, <1>7 DEF TypeOK
<1>9. Partition
  BY <1>3, <1>6, <1>7 DEF Partition, S
<1> QED
  BY <1>1, <1>8, <1>9 DEF IInv

\* An index that belongs to a link is below the counter and in no other place.
LEMMA HeldFacts ==
  ASSUME TypeOK, NEW o \in Owner
  PROVE  /\ lease[o] \in Index \union {NoIndex}
         /\ lease[o] # NoIndex => lease[o] \in Held(lease)
         /\ Held(lease) \subseteq Index
BY DEF TypeOK, Held

\* Handing index i to link o, or taking what it has: i is held then, and what
\* the others hold; what o held is held only if it was shared.
LEMMA HeldAfter ==
  ASSUME TypeOK, OthersExclusive, NEW o \in Owner, NEW i \in Index \union {NoIndex},
         lease' = [lease EXCEPT ![o] = i], lease[o] # i
  PROVE  /\ lease' \in [Owner -> Index \union {NoIndex}]
         /\ Held(lease') \subseteq Held(lease) \union {i}
         /\ Held(lease) \ {lease[o]} \subseteq Held(lease')
         /\ i # NoIndex => i \in Held(lease')
         /\ lease[o] \in Held(lease') => lease[o] \in shared
         /\ \A o1, o2 \in Owner :
              o1 # o2 /\ lease'[o1] = lease'[o2] /\ lease'[o1] # NoIndex
                => /\ lease'[o1] \in Held(lease')
                   /\ lease'[o1] \in shared \/ (lease'[o1] = i /\ i \in Held(lease))
<1>1. lease \in [Owner -> Index \union {NoIndex}] /\ lease' \in [Owner -> Index \union {NoIndex}]
  BY DEF TypeOK
<1>2. /\ Held(lease') \subseteq Held(lease) \union {i}
      /\ i # NoIndex => i \in Held(lease')
  BY <1>1 DEF Held
<1>3. Held(lease) \ {lease[o]} \subseteq Held(lease')
  BY <1>1 DEF Held
<1>4. lease[o] \in Held(lease') => lease[o] \in shared
  BY <1>1 DEF Held, OthersExclusive
<1>5. ASSUME NEW o1 \in Owner, NEW o2 \in Owner,
             o1 # o2, lease'[o1] = lease'[o2], lease'[o1] # NoIndex
      PROVE  /\ lease'[o1] \in Held(lease')
             /\ lease'[o1] \in shared \/ (lease'[o1] = i /\ i \in Held(lease))
  BY <1>1, <1>5 DEF Held, OthersExclusive
<1> QED
  BY <1>1, <1>2, <1>3, <1>4, <1>5

\* Indices and counter of a pool, for the arithmetic of the step lemmas.
LEMMA PoolFacts ==
  ASSUME TypeOK
  PROVE  /\ pool.next \in 0..(MaxIndex + 1)
         /\ pool.released \subseteq Index /\ pool.inUse \subseteq Index
         /\ jumped \subseteq Index /\ shared \subseteq Index
         /\ \A i \in Index : i \in Int /\ 0 <= i /\ i <= MaxIndex
BY MaxIndexAssumption DEF TypeOK, Pool, Index

\* A successful allocate() keeps the invariant.
LEMMA AllocateStep ==
  ASSUME IInv, NEW o \in Owner, Allocate(o)
  PROVE  IInv'
<1> DEFINE i == Issued(pool)
           q == Allocated(pool)
<1>1. /\ pool' = q /\ lease' = [lease EXCEPT ![o] = i] /\ lease[o] = NoIndex
      /\ jumped' = jumped /\ shared' = shared /\ network' = network
  BY DEF Allocate
<1>2. /\ i \in Index \ pool.inUse
      /\ q \in Pool
      /\ q.inUse = pool.inUse \union {i}
      /\ \/ /\ i \in pool.released
            /\ q.next = pool.next
            /\ q.released = {r \in pool.released : r > i}
            /\ \A r \in pool.released \ pool.inUse : i <= r
         \/ /\ pool.released \subseteq pool.inUse
            /\ i >= pool.next
            /\ q.next = i + 1
            /\ q.released = {}
            /\ \A j \in pool.next..(i - 1) : j \in pool.inUse
  BY AllocatedEffect DEF Allocate, IInv, TypeOK
<1> HIDE DEF i, q
<1>3. TypeOK /\ OthersExclusive /\ Partition
  BY DEF IInv
<1>4. /\ lease' \in [Owner -> Index \union {NoIndex}]
      /\ Held(lease') = Held(lease) \union {i}
      /\ OthersExclusive'
  <2>1. i \in Index /\ i # NoIndex /\ NoIndex \notin Held(lease)
    BY <1>2, NoIndexAssumption DEF Held
  <2>2. /\ lease' \in [Owner -> Index \union {NoIndex}]
        /\ Held(lease') \subseteq Held(lease) \union {i}
        /\ Held(lease) \ {lease[o]} \subseteq Held(lease')
        /\ i # NoIndex => i \in Held(lease')
        /\ \A o1, o2 \in Owner :
             o1 # o2 /\ lease'[o1] = lease'[o2] /\ lease'[o1] # NoIndex
               => lease'[o1] \in shared \/ (lease'[o1] = i /\ i \in Held(lease))
    BY <1>1, <1>3, <2>1, HeldAfter
  <2>3. i \in Held(lease) => i \in shared
    BY <1>2, <1>3 DEF Partition
  <2> QED
    BY <1>1, <2>1, <2>2, <2>3 DEF OthersExclusive
<1>5. TypeOK'
  BY <1>1, <1>2, <1>3, <1>4 DEF TypeOK
<1>6. Partition'
  <2>1. CASE /\ i \in pool.released
             /\ q.next = pool.next
             /\ q.released = {r \in pool.released : r > i}
             /\ \A r \in pool.released \ pool.inUse : i <= r
    <3>1. q.released = pool.released \ {i}
      BY <1>3, <2>1, PoolFacts DEF Partition
    <3>2. /\ pool.inUse \subseteq Held(lease)
          /\ Held(lease) \ pool.inUse \subseteq shared \intersect pool.released
          /\ pool.inUse \intersect pool.released = {}
          /\ jumped \intersect (pool.inUse \union pool.released) = {}
          /\ pool.inUse \union pool.released \union jumped = 0..(pool.next - 1)
      BY <1>3 DEF Partition
    <3>3. /\ pool'.inUse \subseteq Held(lease')
          /\ Held(lease') \ pool'.inUse \subseteq shared' \intersect pool'.released
      BY <1>1, <1>2, <1>4, <2>1, <3>1, <3>2
    <3>4. pool'.inUse \intersect pool'.released = {}
      BY <1>1, <1>2, <1>4, <2>1, <3>1, <3>2
    <3>5. jumped' \intersect (pool'.inUse \union pool'.released) = {}
      BY <1>1, <1>2, <1>4, <2>1, <3>1, <3>2
    <3>6. pool'.inUse \union pool'.released \union jumped' = 0..(pool'.next - 1)
      BY <1>1, <1>2, <1>4, <2>1, <3>1, <3>2
    <3> QED
      BY <3>3, <3>4, <3>5, <3>6 DEF Partition
  <2>2. CASE /\ pool.released \subseteq pool.inUse
             /\ i >= pool.next
             /\ q.next = i + 1
             /\ q.released = {}
             /\ \A j \in pool.next..(i - 1) : j \in pool.inUse
    <3>1. pool.released = {} /\ \A j \in pool.inUse : j < pool.next
      BY <1>3, <2>2, PoolFacts DEF Partition
    <3>2. i = pool.next
      BY <1>2, <2>2, <3>1, PoolFacts, <1>3
    <3>3. 0..(q.next - 1) = 0..(pool.next - 1) \union {i}
      BY <2>2, <3>2, PoolFacts, <1>3
    <3>4. i \notin jumped
      BY <1>3, <3>2, PoolFacts DEF Partition
    <3>5. /\ pool.inUse \subseteq Held(lease)
          /\ Held(lease) \ pool.inUse \subseteq shared \intersect pool.released
          /\ jumped \intersect pool.inUse = {}
          /\ pool.inUse \union jumped = 0..(pool.next - 1)
      BY <1>3, <3>1 DEF Partition
    <3>6. /\ pool'.inUse \subseteq Held(lease')
          /\ Held(lease') \ pool'.inUse \subseteq shared' \intersect pool'.released
      BY <1>1, <1>2, <1>4, <2>2, <3>3, <3>4, <3>5
    <3>7. pool'.inUse \intersect pool'.released = {}
      BY <1>1, <1>2, <1>4, <2>2, <3>3, <3>4, <3>5
    <3>8. jumped' \intersect (pool'.inUse \union pool'.released) = {}
      BY <1>1, <1>2, <1>4, <2>2, <3>3, <3>4, <3>5
    <3>9. pool'.inUse \union pool'.released \union jumped' = 0..(pool'.next - 1)
      BY <1>1, <1>2, <1>4, <2>2, <3>3, <3>4, <3>5
    <3> QED
      BY <3>6, <3>7, <3>8, <3>9 DEF Partition
  <2> QED
    BY <1>2, <2>1, <2>2
<1> QED
  BY <1>4, <1>5, <1>6 DEF IInv

\* A refused allocate() keeps the invariant: it loses no index.
LEMMA AllocateFailsStep ==
  ASSUME IInv, NEW o \in Owner, AllocateFails(o)
  PROVE  IInv'
<1> DEFINE q == Allocated(pool)
<1>1. pool' = q /\ UNCHANGED <<lease, network, jumped, shared>>
  BY DEF AllocateFails
<1>2. /\ q \in Pool
      /\ q.inUse = pool.inUse
      /\ q.released = {}
      /\ q.next = MaxIndex + 1
      /\ pool.released \subseteq pool.inUse
      /\ pool.next..MaxIndex \subseteq pool.inUse
  BY RefusedEffect DEF AllocateFails, IInv, TypeOK
<1> HIDE DEF q
<1>3. TypeOK /\ OthersExclusive /\ Partition
  BY DEF IInv
<1>4. pool.released = {} /\ pool.next = MaxIndex + 1
  <2>1. pool.released = {}
    BY <1>2, <1>3 DEF Partition
  <2>2. pool.next \notin pool.inUse
    BY <1>3, PoolFacts DEF Partition
  <2> QED
    BY <1>2, <1>3, <2>1, <2>2, PoolFacts, MaxIndexAssumption
<1>5. Partition'
  BY <1>1, <1>2, <1>3, <1>4 DEF Partition
<1>6. TypeOK'
  BY <1>1, <1>2, <1>3 DEF TypeOK
<1> QED
  BY <1>1, <1>3, <1>5, <1>6 DEF IInv, OthersExclusive

\* release() keeps the invariant.
LEMMA ReleaseStep ==
  ASSUME IInv, NEW o \in Owner, Release(o)
  PROVE  IInv'
<1> DEFINE i == lease[o]
<1>1. TypeOK /\ OthersExclusive /\ Partition
  BY DEF IInv
<1>2. /\ i \in Held(lease) /\ i \in Index /\ i # NoIndex
      /\ jumped' = jumped /\ network' = network
      /\ lease' = [lease EXCEPT ![o] = NoIndex]
      /\ pool' = Released(pool, i)
      /\ shared' = shared \intersect Held(lease')
  BY <1>1, HeldFacts, NoIndexAssumption DEF Release
<1>3. /\ pool' \in Pool
      /\ pool'.next = pool.next
      /\ pool'.inUse = pool.inUse \ {i}
      /\ pool'.released = pool.released \union {i}
  BY <1>1, <1>2 DEF Released, TypeOK, Pool
<1>4. /\ lease' \in [Owner -> Index \union {NoIndex}]
      /\ Held(lease') \subseteq Held(lease)
      /\ Held(lease) \ {i} \subseteq Held(lease')
      /\ i \in Held(lease') => i \in shared
      /\ OthersExclusive'
  <2>1. NoIndex \notin Held(lease) /\ NoIndex \notin Held(lease')
    BY DEF Held
  <2>2. /\ lease' \in [Owner -> Index \union {NoIndex}]
        /\ Held(lease') \subseteq Held(lease) \union {NoIndex}
        /\ Held(lease) \ {i} \subseteq Held(lease')
        /\ i \in Held(lease') => i \in shared
        /\ \A o1, o2 \in Owner :
             o1 # o2 /\ lease'[o1] = lease'[o2] /\ lease'[o1] # NoIndex
               => /\ lease'[o1] \in Held(lease')
                  /\ lease'[o1] \in shared \/ (lease'[o1] = NoIndex /\ NoIndex \in Held(lease))
    BY <1>1, <1>2, HeldAfter
  <2> QED
    BY <1>2, <2>1, <2>2 DEF OthersExclusive
<1> HIDE DEF i
<1>5. TypeOK'
  BY <1>1, <1>2, <1>3, <1>4 DEF TypeOK
<1>6. Partition'
  <2>1. /\ pool.inUse \subseteq Held(lease)
        /\ Held(lease) \ pool.inUse \subseteq shared \intersect pool.released
        /\ pool.inUse \intersect pool.released = {}
        /\ jumped \intersect (pool.inUse \union pool.released) = {}
        /\ pool.inUse \union pool.released \union jumped = 0..(pool.next - 1)
    BY <1>1 DEF Partition
  <2>2. pool'.inUse \subseteq Held(lease')
    BY <1>3, <1>4, <2>1
  <2>3. Held(lease') \ pool'.inUse \subseteq shared' \intersect pool'.released
    BY <1>2, <1>3, <1>4, <2>1
  <2>4. pool'.inUse \intersect pool'.released = {}
    BY <1>3, <2>1
  <2>5. i \in pool.inUse \union pool.released
    BY <1>2, <2>1
  <2>6. jumped' \intersect (pool'.inUse \union pool'.released) = {}
    BY <1>2, <1>3, <2>1, <2>5
  <2>7. pool'.inUse \union pool'.released \union jumped' = 0..(pool'.next - 1)
    BY <1>2, <1>3, <2>1, <2>5
  <2> QED
    BY <2>2, <2>3, <2>4, <2>6, <2>7 DEF Partition
<1> QED
  BY <1>4, <1>5, <1>6 DEF IInv

\* Adopting a network's real subnet keeps the invariant, whoever owns its index.
LEMMA AdoptRealStep ==
  ASSUME IInv, NEW o \in Owner, AdoptReal(o)
  PROVE  IInv'
<1> DEFINE own == lease[o]
           i == network[o]
           r == Released(pool, own)
           skip == Skipped(pool, {i})
<1>1. TypeOK /\ OthersExclusive /\ Partition
  BY DEF IInv
<1>2. /\ own \in Held(lease) /\ own \in Index
      /\ i \in Index /\ i # own /\ i # NoIndex
      /\ network' = network
      /\ lease' = [lease EXCEPT ![o] = i]
      /\ pool' = FromLive(r, {i})
      /\ jumped' = (jumped \union skip) \ {i}
      /\ skip = {k \in pool.next..MaxIndex : k < i}
      /\ shared' = (shared \union ({i} \intersect Held(lease))) \intersect Held(lease')
  <2>1. {i} \intersect {lease[q] : q \in Owner \ {o}} = {i} \intersect Held(lease)
    BY DEF AdoptReal, Held
  <2>2. i \in Index
    BY <1>1 DEF AdoptReal, TypeOK
  <2> QED
    BY <1>1, <2>1, <2>2, HeldFacts DEF AdoptReal, Reserved, Skipped
<1>3. /\ r \in Pool
      /\ r.next = pool.next
      /\ r.inUse = pool.inUse \ {own}
      /\ r.released = pool.released \union {own}
  BY <1>1, <1>2 DEF Released, TypeOK, Pool
<1>4. /\ lease' \in [Owner -> Index \union {NoIndex}]
      /\ Held(lease') \subseteq Held(lease) \union {i}
      /\ Held(lease) \ {own} \subseteq Held(lease')
      /\ i \in Held(lease')
      /\ own \in Held(lease') => own \in shared
      /\ OthersExclusive'
  <2>1. /\ lease' \in [Owner -> Index \union {NoIndex}]
        /\ Held(lease') \subseteq Held(lease) \union {i}
        /\ Held(lease) \ {own} \subseteq Held(lease')
        /\ i # NoIndex => i \in Held(lease')
        /\ own \in Held(lease') => own \in shared
        /\ \A o1, o2 \in Owner :
             o1 # o2 /\ lease'[o1] = lease'[o2] /\ lease'[o1] # NoIndex
               => /\ lease'[o1] \in Held(lease')
                  /\ lease'[o1] \in shared \/ (lease'[o1] = i /\ i \in Held(lease))
    BY <1>1, <1>2, HeldAfter
  <2> QED
    BY <1>2, <2>1 DEF OthersExclusive
<1> HIDE DEF own, i, r, skip
<1>5. /\ pool' \in Pool
      /\ pool'.inUse = (pool.inUse \ {own}) \union {i}
      /\ pool'.released = (pool.released \union {own}) \ {i}
      /\ pool.next <= pool'.next
      /\ i < pool'.next
      /\ pool'.next # pool.next => pool'.next = i + 1
  <2>1. LET q == FromLive(r, {i})
        IN /\ q \in Pool
           /\ q.inUse = r.inUse \union {i}
           /\ q.released = r.released \ {i}
           /\ r.next <= q.next
           /\ \A s \in {i} : s < q.next
           /\ q.next # r.next => \E s \in {i} : q.next = s + 1
    BY <1>2, <1>3, FromLiveEffect
  <2> QED
    BY <1>2, <1>3, <2>1
<1>6. jumped' \subseteq Index /\ shared' \subseteq Index
  BY <1>1, <1>2, PoolFacts DEF Index
<1>7. TypeOK'
  BY <1>1, <1>2, <1>4, <1>5, <1>6 DEF TypeOK
<1>8. 0..(pool'.next - 1) = 0..(pool.next - 1) \union skip \union {i}
  <2>1. /\ pool.next \in Nat /\ pool'.next \in Nat /\ i \in Nat
        /\ i <= MaxIndex /\ MaxIndex \in Nat
    BY <1>1, <1>2, <1>5, PoolFacts, MaxIndexAssumption DEF Pool, Index
  <2>2. CASE pool'.next = pool.next
    <3>1. i < pool.next /\ i \in 0..(pool.next - 1)
      BY <1>5, <2>1, <2>2
    <3>2. skip = {}
      BY <1>2, <2>1, <3>1
    <3> QED
      BY <2>2, <3>1, <3>2
  <2>3. CASE pool'.next # pool.next
    BY <1>2, <1>5, <2>1, <2>3
  <2> QED
    BY <2>2, <2>3
<1>9. /\ pool.inUse \subseteq Held(lease)
      /\ Held(lease) \ pool.inUse \subseteq shared \intersect pool.released
      /\ pool.inUse \intersect pool.released = {}
      /\ jumped \intersect (pool.inUse \union pool.released) = {}
      /\ pool.inUse \union pool.released \union jumped = 0..(pool.next - 1)
  BY <1>1 DEF Partition
<1>10. skip \intersect (0..(pool.next - 1)) = {}
  BY <1>1, <1>2, PoolFacts
<1>11. Partition'
  <2>1. pool'.inUse \subseteq Held(lease')
    BY <1>4, <1>5, <1>9
  <2>2. Held(lease') \ pool'.inUse \subseteq shared' \intersect pool'.released
    BY <1>2, <1>4, <1>5, <1>9
  <2>3. pool'.inUse \intersect pool'.released = {}
    BY <1>5, <1>9, <1>2
  <2>4. own \in pool.inUse \union pool.released
    BY <1>2, <1>9
  <2> DEFINE passed == 0..(pool.next - 1)
             passes == 0..(pool'.next - 1)
  <2>5. /\ jumped' = (jumped \union skip) \ {i}
        /\ pool'.inUse = (pool.inUse \ {own}) \union {i}
        /\ pool'.released = (pool.released \union {own}) \ {i}
    BY <1>2, <1>5
  <2>6. /\ pool.inUse \union pool.released \union jumped = passed
        /\ passes = passed \union skip \union {i}
        /\ skip \intersect passed = {}
        /\ jumped \intersect (pool.inUse \union pool.released) = {}
    BY <1>8, <1>9, <1>10
  <2> HIDE DEF passed, passes
  <2>7. jumped' \intersect (pool'.inUse \union pool'.released) = {}
    <3> SUFFICES ASSUME NEW k \in jumped', k \in pool'.inUse \union pool'.released
                 PROVE  FALSE
      OBVIOUS
    <3>1. k # i /\ k \in jumped \union skip /\ k \in pool.inUse \union pool.released
      BY <2>4, <2>5
    <3> QED
      BY <3>1, <2>6
  <2>8. pool'.inUse \union pool'.released \union jumped' = passes
    BY <2>4, <2>5, <2>6
  <2> QED
    BY <2>1, <2>2, <2>3, <2>7, <2>8 DEF Partition, passes
<1> QED
  BY <1>4, <1>7, <1>11 DEF IInv

\* Networks come and go without the pool.
LEMMA NetworkStep ==
  ASSUME IInv, NEW o \in Owner, CreateNetwork(o) \/ RemoveNetwork(o)
  PROVE  IInv'
<1>1. UNCHANGED <<pool, lease, jumped, shared>>
  BY DEF CreateNetwork, RemoveNetwork
<1>2. network' \in [Owner -> Index \union {NoIndex}]
  BY DEF IInv, TypeOK, CreateNetwork, RemoveNetwork
<1> QED
  BY <1>1, <1>2 DEF IInv, TypeOK, Partition, OthersExclusive, Held

\* Every step of the pool keeps the invariant.
LEMMA StepIInv == IInv /\ [Next]_vars => IInv'
<1> SUFFICES ASSUME IInv, [Next]_vars PROVE IInv'
  OBVIOUS
<1>1. ASSUME NEW o \in Owner, Allocate(o) PROVE IInv'
  BY <1>1, AllocateStep
<1>2. ASSUME NEW o \in Owner, AllocateFails(o) PROVE IInv'
  BY <1>2, AllocateFailsStep
<1>3. ASSUME NEW o \in Owner, Release(o) PROVE IInv'
  BY <1>3, ReleaseStep
<1>4. ASSUME NEW o \in Owner, AdoptReal(o) PROVE IInv'
  BY <1>4, AdoptRealStep
<1>5. ASSUME NEW o \in Owner, CreateNetwork(o) \/ RemoveNetwork(o) PROVE IInv'
  BY <1>5, NetworkStep
<1>6. CASE UNCHANGED vars
  BY <1>6 DEF vars, IInv, TypeOK, Partition, OthersExclusive
<1> QED
  BY <1>1, <1>2, <1>3, <1>4, <1>5, <1>6 DEF Next

\* The inductive invariant holds in every reachable state (subnet_pool.py:25-85).
THEOREM InvariantHolds == Spec => []IInv
<1> QED
  BY InitIInv, StepIInv, PTL DEF Spec

\* The pool's fields and leases keep their types (subnet_pool.py:25-29).
THEOREM TypeCorrect == Spec => []TypeOK
<1>1. IInv => TypeOK
  BY DEF IInv
<1> QED
  BY <1>1, InvariantHolds, PTL

\* For every MAX_INDEX, no index is lost except those an adoption jumps over,
\* and what is owned is in use unless an adoption has shared it
\* (subnet_pool.py:37-85).
THEOREM NoIndexLost == Spec => []Partition
<1>1. IInv => Partition
  BY DEF IInv
<1> QED
  BY <1>1, InvariantHolds, PTL

\* For every MAX_INDEX, as long as every adoption took an index without an
\* owner, and again when the owners of a shared index have let go, no index has
\* two owners (docker_manager.py:425-433).
THEOREM OnlyAdoptionDuplicates == Spec => [](shared = {} => NoDuplicateAllocation)
<1>1. IInv => (shared = {} => NoDuplicateAllocation)
  BY DEF IInv, OthersExclusive, NoDuplicateAllocation, Exclusive
<1> QED
  BY <1>1, InvariantHolds, PTL

\* For every MAX_INDEX, a refused allocation means that every index is owned
\* or was jumped over (subnet_pool.py:55-58).
THEOREM RefusalJustified == Spec => []RefusedOnlyWhenNoneLeft
<1>1. IInv => RefusedOnlyWhenNoneLeft
  <2> SUFFICES ASSUME IInv, Exhausted(pool) PROVE Held(lease) \union jumped = Index
    BY DEF RefusedOnlyWhenNoneLeft
  <2>1. TypeOK /\ Partition
    BY DEF IInv
  <2>2. /\ pool.released \subseteq pool.inUse
        /\ pool.next..MaxIndex \subseteq pool.inUse
    BY <2>1, RefusedEffect DEF TypeOK
  <2>3. Index \subseteq 0..(pool.next - 1) \union pool.next..MaxIndex
    BY <2>1, PoolFacts DEF Index
  <2>4. /\ pool.inUse \subseteq Held(lease)
        /\ Held(lease) \ pool.inUse \subseteq pool.released
        /\ pool.inUse \union pool.released \union jumped = 0..(pool.next - 1)
    BY <2>1 DEF Partition
  <2>5. Held(lease) \union jumped \subseteq Index
    BY <2>1, <2>4, PoolFacts
  <2> QED
    BY <2>2, <2>3, <2>4, <2>5
<1> QED
  BY <1>1, InvariantHolds, PTL

-----------------------------------------------------------------------------
(* The pool implements the abstract allocator *)

\* The start-up pool is a start of the allocator.
LEMMA InitRefines == Init => Allocator!Init
<1> SUFFICES ASSUME Init PROVE Allocator!Init
  OBVIOUS
<1>1. lease \in [Owner -> Index \union {NoIndex}] /\ shared = {}
  BY DEF Init
<1>2. \A o1, o2 \in Owner : lease[o1] = lease[o2] /\ lease[o1] # NoIndex => o1 = o2
  BY DEF Init, Exclusive
<1> QED
  BY <1>1, <1>2 DEF Allocator!Init

\* Every step of the pool is a step of the allocator or leaves it unchanged.
LEMMA StepRefines == IInv /\ [Next]_vars => [Allocator!Next]_<<lease, shared>>
<1> SUFFICES ASSUME IInv, [Next]_vars PROVE [Allocator!Next]_<<lease, shared>>
  OBVIOUS
<1>1. TypeOK /\ Partition
  BY DEF IInv
<1>2. Held(lease) = Allocator!Held(lease) /\ Held(lease') = Allocator!Held(lease')
  BY DEF Allocator!Held, Held
<1>3. ASSUME NEW o \in Owner, Allocate(o) PROVE Allocator!Next
  <2>1. Issued(pool) \in Index \ pool.inUse
    BY <1>1, <1>3, AllocatedEffect DEF Allocate, TypeOK
  <2>2. Issued(pool) \in Index \ (Allocator!Held(lease) \intersect Allocator!Protected)
    BY <1>1, <1>2, <2>1 DEF Partition, Allocator!Protected
  <2> QED
    BY <1>3, <2>2 DEF Allocate, Allocator!Next, Allocator!Issue
<1>4. ASSUME NEW o \in Owner, AllocateFails(o) \/ CreateNetwork(o) \/ RemoveNetwork(o)
      PROVE  UNCHANGED <<lease, shared>>
  BY <1>4 DEF AllocateFails, CreateNetwork, RemoveNetwork
<1>5. ASSUME NEW o \in Owner, Release(o) PROVE Allocator!Next
  BY <1>2, <1>5 DEF Release, Allocator!Next, Allocator!Return
<1>6. ASSUME NEW o \in Owner, AdoptReal(o) PROVE Allocator!Next
  <2>1. network[o] \in Index \ {lease[o]} /\ network[o] # NoIndex
    BY <1>1, <1>6 DEF AdoptReal, TypeOK
  <2>2. {network[o]} \intersect {lease[q] : q \in Owner \ {o}} = {network[o]} \intersect Held(lease)
    BY <2>1 DEF Held
  <2>3. shared' = (shared \union ({network[o]} \intersect Allocator!Held(lease)))
                    \intersect Allocator!Held(lease')
    BY <1>2, <1>6, <2>2 DEF AdoptReal
  <2> QED
    BY <1>6, <2>1, <2>3 DEF AdoptReal, Allocator!Next, Allocator!Exchange
<1>7. CASE UNCHANGED vars
  BY <1>7 DEF vars
<1> QED
  BY <1>3, <1>4, <1>5, <1>6, <1>7 DEF Next

\* For every MAX_INDEX and set of links, allocate() issues an index that a link
\* owns only after an adoption gave that index to two owners, and nothing but
\* an adoption does (subnet_pool.py:37-85, docker_manager.py:425-433).
THEOREM PoolImplementsAllocator == Spec => ImplementsAllocator
<1> QED
  BY InvariantHolds, InitRefines, StepRefines, PTL
  DEF Spec, ImplementsAllocator, Allocator!Spec
=============================================================================

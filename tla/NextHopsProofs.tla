--------------------------- MODULE NextHopsProofs ---------------------------
(***************************************************************************)
(* What the breadth-first search of _compute_next_hops returns, for every  *)
(* graph, source and iteration order.                                      *)
(***************************************************************************)
EXTENDS NextHops, FiniteSetsExt, FiniteSetTheorems, TLAPS

-----------------------------------------------------------------------------
(* Natural numbers *)

\* A non-empty set of naturals has a least element, which Min picks.
LEMMA MinIsLeast ==
  ASSUME NEW S, S \subseteq Nat, S # {}
  PROVE  /\ Min(S) \in S
         /\ \A y \in S : Min(S) <= y
<1> DEFINE Less == {ss \in Nat \X Nat : ss[1] < ss[2]}
<1>0. IsWellFoundedOn(Less, Nat)
  BY NatLessThanWellFounded DEF OpToRel
<1>1. PICK x \in S : \A y \in S : ~ (<<y, x>> \in Less)
  <2> HIDE DEF Less
  <2> QED
    BY <1>0, WFMin
<1>2. ASSUME NEW y \in S PROVE x <= y
  <2>1. ~ (y < x)
    BY <1>1
  <2> QED
    BY <2>1
<1> QED
  BY <1>2 DEF Min

\* A set with 0 in it, and with the successor of each of its members below N,
\* has all naturals up to N.
LEMMA UpTo ==
  ASSUME NEW N \in Nat, NEW S, 0 \in S,
         \A k \in 0..N : k < N /\ k \in S => k + 1 \in S
  PROVE  0..N \subseteq S
<1> DEFINE Bad == {k \in 0..N : k \notin S}
<1>1. SUFFICES ASSUME Bad # {} PROVE FALSE
  OBVIOUS
<1>2. Bad \subseteq Nat
  OBVIOUS
<1>3. PICK m : m \in Bad /\ \A k \in Bad : m <= k
  <2> HIDE DEF Bad
  <2> QED
    BY <1>1, <1>2, MinIsLeast
<1>4. m \in 0..N /\ m # 0
  BY <1>3
<1>5. m - 1 \notin Bad
  <2> HIDE DEF Bad
  <2> QED
    BY <1>3, <1>4
<1>6. m - 1 \in S
  BY <1>4, <1>5
<1> QED
  BY <1>3, <1>4, <1>6

-----------------------------------------------------------------------------
(* A set in the order of a sequence *)

KeptStep(order, S, f, k) ==
  IF k = 0 THEN <<>> ELSE IF order[k] \in S THEN Append(f[k - 1], order[k]) ELSE f[k - 1]

IsKept(order, S, f, N) == f = [k \in 0..N |-> KeptStep(order, S, f, k)]

\* The recursion of InOrder has a solution.
LEMMA KeptExists ==
  ASSUME NEW N \in Nat, NEW S, NEW order
  PROVE  \E f : IsKept(order, S, f, N)
<1> USE DEF IsKept
<1> DEFINE Rec(f, m) == IsKept(order, S, f, m)
           T == {m \in 0..N : \E f : Rec(f, m)}
<1>1. 0 \in T
  <2> DEFINE g == [k \in 0..0 |-> <<>>]
  <2>1. Rec(g, 0)
    BY DEF KeptStep
  <2>2. 0 \in 0..N
    OBVIOUS
  <2> HIDE DEF g, Rec
  <2> QED
    BY <2>1, <2>2
<1>2. ASSUME NEW m \in 0..N, m < N, m \in T PROVE m + 1 \in T
  <2>1. PICK f : Rec(f, m)
    BY <1>2
  <2> DEFINE e == [k \in 0..m |-> KeptStep(order, S, f, k)]
             g == [k \in 0..(m + 1) |-> KeptStep(order, S, f, k)]
             h == [k \in 0..(m + 1) |-> KeptStep(order, S, g, k)]
  <2>2. f = e
    BY <2>1
  <2>3. \A k \in 0..m : g[k] = e[k]
    OBVIOUS
  <2>4. \A k \in 0..m : g[k] = f[k]
    <3> HIDE DEF g, e
    <3> QED
      BY <2>2, <2>3
  <2>5. \A k \in 0..(m + 1) : k # 0 => k - 1 \in 0..m
    OBVIOUS
  <2>6. \A k \in 0..(m + 1) : KeptStep(order, S, f, k) = KeptStep(order, S, g, k)
    <3> HIDE DEF g
    <3> QED
      BY <2>4, <2>5 DEF KeptStep
  <2>7. g = h
    BY <2>6
  <2>8. Rec(g, m + 1)
    <3> HIDE DEF g
    <3> QED
      BY <2>7
  <2>9. m + 1 \in 0..N
    BY <1>2
  <2> HIDE DEF g, Rec
  <2> QED
    BY <2>8, <2>9
<1> HIDE DEF T
<1>3. 0..N \subseteq T
  BY <1>1, <1>2, UpTo
<1>4. N \in T
  BY <1>3
<1> QED
  BY <1>4 DEF T

Members(q) == {q[i] : i \in DOMAIN q}
Once(q) == \A i, j \in DOMAIN q : q[i] = q[j] => i = j

\* InOrder(order, S) is a sequence of the members of S that `order` lists, each once if
\* `order` lists each once.
LEMMA InOrderLists ==
  ASSUME NEW Any, NEW order \in Seq(Any), NEW S
  PROVE  /\ InOrder(order, S) \in Seq(Any)
         /\ Members(InOrder(order, S)) = S \intersect Members(order)
         /\ Once(order) => Once(InOrder(order, S))
<1> DEFINE N == Len(order)
           Good(q, k) == /\ q \in Seq(Any)
                         /\ {q[i] : i \in DOMAIN q} = S \intersect {order[i] : i \in 1..k}
                         /\ Once(order) => Once(q)
<1>0. N \in Nat /\ DOMAIN order = 1..N
  OBVIOUS
<1>1. PICK f : IsKept(order, S, f, N)
  <2> HIDE DEF N
  <2> QED
    BY <1>0, KeptExists
<1> DEFINE f0 == CHOOSE kept : kept = [k \in 0..N |->
        IF k = 0 THEN <<>>
        ELSE IF order[k] \in S THEN Append(kept[k - 1], order[k]) ELSE kept[k - 1]]
<1>2. f0 = [k \in 0..N |-> KeptStep(order, S, f0, k)]
  <2> HIDE DEF N
  <2> QED
    BY <1>1 DEF KeptStep, IsKept
<1>3. InOrder(order, S) = f0[N]
  BY DEF InOrder
<1> HIDE DEF f0
<1> DEFINE e == [k \in 0..N |-> KeptStep(order, S, f0, k)]
<1>4. \A k \in 0..N : f0[k] = KeptStep(order, S, f0, k)
  <2>1. \A k \in 0..N : e[k] = KeptStep(order, S, f0, k)
    OBVIOUS
  <2>2. f0 = e
    BY <1>2
  <2> HIDE DEF e
  <2> QED
    BY <2>1, <2>2
<1> DEFINE T == {k \in 0..N : Good(f0[k], k)}
<1>5. 0 \in T
  <2>1. f0[0] = <<>>
    BY <1>0, <1>4 DEF KeptStep
  <2>2. Good(<<>>, 0)
    BY DEF Once
  <2>3. Good(f0[0], 0)
    BY <2>1, <2>2
  <2>4. 0 \in 0..N
    BY <1>0
  <2> HIDE DEF Good, N
  <2> QED
    BY <2>3, <2>4
<1>6. ASSUME NEW k \in 0..N, k < N, k \in T PROVE k + 1 \in T
  <2>1. k + 1 \in 0..N /\ k + 1 \in DOMAIN order /\ order[k + 1] \in Any
    BY <1>0, <1>6
  <2>2. f0[k + 1] = IF order[k + 1] \in S THEN Append(f0[k], order[k + 1]) ELSE f0[k]
    BY <1>4, <2>1 DEF KeptStep
  <2>3. {order[i] : i \in 1..(k + 1)} = {order[i] : i \in 1..k} \union {order[k + 1]}
    <3>1. 1..(k + 1) = (1..k) \union {k + 1}
      OBVIOUS
    <3> QED
      BY <3>1
  <2>4. Good(f0[k], k)
    BY <1>6
  <2>5. CASE order[k + 1] \in S
    <3> DEFINE q == f0[k]
               x == order[k + 1]
               r == Append(q, x)
    <3>1. q \in Seq(Any) /\ x \in Any
      BY <2>1, <2>4
    <3> HIDE DEF q, x
    <3>2. /\ r \in Seq(Any) /\ DOMAIN r = 1..(Len(q) + 1) /\ DOMAIN q = 1..Len(q) /\ Len(q) \in Nat
          /\ r[Len(q) + 1] = x /\ \A i \in DOMAIN q : r[i] = q[i]
      BY <3>1
    <3> HIDE DEF r
    <3>3. DOMAIN r = DOMAIN q \union {Len(q) + 1}
      BY <3>2
    <3>4. {r[i] : i \in DOMAIN r} = {q[i] : i \in DOMAIN q} \union {x}
      BY <3>2, <3>3
    <3>5. ASSUME Once(order) PROVE Once(r)
      <4>1. Once(q)
        BY <2>4, <3>5 DEF q
      <4>2. \A i \in DOMAIN q : q[i] # x
        <5>1. \A i \in 1..k : i \in DOMAIN order /\ order[i] # x
          BY <1>0, <1>6, <2>1, <3>5 DEF Once, x
        <5>2. \A i \in DOMAIN q : q[i] \in {order[j] : j \in 1..k}
          BY <2>4 DEF q
        <5> QED
          BY <5>1, <5>2
      <4> QED
        BY <3>2, <3>3, <4>1, <4>2 DEF Once
    <3>6. Good(r, k + 1)
      BY <2>3, <2>4, <2>5, <3>2, <3>4, <3>5 DEF q, x
    <3>7. f0[k + 1] = r
      BY <2>2, <2>5 DEF q, x, r
    <3> QED
      BY <2>1, <3>6, <3>7
  <2>6. CASE order[k + 1] \notin S
    BY <2>1, <2>2, <2>3, <2>4, <2>6
  <2> QED
    BY <2>5, <2>6
<1> HIDE DEF T
<1>7. N \in T
  <2> HIDE DEF N
  <2> QED
    BY <1>0, <1>5, <1>6, UpTo
<1>8. Good(f0[N], N)
  BY <1>7 DEF T
<1> QED
  BY <1>0, <1>3, <1>8 DEF Members
-----------------------------------------------------------------------------
(* The search *)

SearchStep(src, adj, order, f, k) ==
  IF k = 0 THEN Started(src, adj, order)
  ELSE IF f[k - 1].queue = <<>> THEN f[k - 1] ELSE Expanded(src, adj, order, f[k - 1])

IsSearch(src, adj, order, f, N) == f = [k \in 0..N |-> SearchStep(src, adj, order, f, k)]

\* The recursion of NextHop has a solution.
LEMMA SearchExists ==
  ASSUME NEW N \in Nat, NEW src, NEW adj, NEW order
  PROVE  \E f : IsSearch(src, adj, order, f, N)
<1> USE DEF IsSearch
<1> DEFINE Rec(f, m) == IsSearch(src, adj, order, f, m)
           T == {m \in 0..N : \E f : Rec(f, m)}
<1>1. 0 \in T
  <2> DEFINE g == [k \in 0..0 |-> Started(src, adj, order)]
             h == [k \in 0..0 |-> SearchStep(src, adj, order, g, k)]
  <2>0. \A k \in 0..0 : k = 0
    OBVIOUS
  <2>1. g = h
    BY <2>0 DEF SearchStep
  <2>2. 0 \in 0..N
    OBVIOUS
  <2>3. Rec(g, 0)
    <3> HIDE DEF g
    <3> QED
      BY <2>1
  <2> HIDE DEF g, Rec
  <2> QED
    BY <2>2, <2>3
<1>2. ASSUME NEW m \in 0..N, m < N, m \in T PROVE m + 1 \in T
  <2>1. PICK f : Rec(f, m)
    BY <1>2
  <2> DEFINE e == [k \in 0..m |-> SearchStep(src, adj, order, f, k)]
             g == [k \in 0..(m + 1) |-> SearchStep(src, adj, order, f, k)]
             h == [k \in 0..(m + 1) |-> SearchStep(src, adj, order, g, k)]
  <2>2. f = e
    BY <2>1
  <2>3. \A k \in 0..m : g[k] = e[k]
    OBVIOUS
  <2>4. \A k \in 0..m : g[k] = f[k]
    <3> HIDE DEF g, e
    <3> QED
      BY <2>2, <2>3
  <2>5. \A k \in 0..(m + 1) : k # 0 => k - 1 \in 0..m
    OBVIOUS
  <2>6. \A k \in 0..(m + 1) : SearchStep(src, adj, order, f, k) = SearchStep(src, adj, order, g, k)
    <3> HIDE DEF g
    <3> QED
      BY <2>4, <2>5 DEF SearchStep
  <2>7. g = h
    BY <2>6
  <2>8. Rec(g, m + 1)
    <3> HIDE DEF g
    <3> QED
      BY <2>7
  <2>9. m + 1 \in 0..N
    BY <1>2
  <2> HIDE DEF g, Rec
  <2> QED
    BY <2>8, <2>9
<1> HIDE DEF T
<1>3. 0..N \subseteq T
  BY <1>1, <1>2, UpTo
<1>4. N \in T
  BY <1>3
<1> QED
  BY <1>4 DEF T

\* The states f[0], ..., f[N] of a search in N rounds.
Rounds(src, adj, order, f, N) ==
  /\ f[0] = Started(src, adj, order)
  /\ \A k \in 1..N : f[k - 1].queue = <<>> => f[k] = f[k - 1]
  /\ \A k \in 1..N : f[k - 1].queue # <<>> => f[k] = Expanded(src, adj, order, f[k - 1])

\* NextHop is the last state of a search in as many rounds as there are nodes.
LEMMA SearchRuns ==
  ASSUME NEW src, NEW adj, NEW order, IsFiniteSet(DOMAIN adj)
  PROVE  \E f : /\ Rounds(src, adj, order, f, Cardinality(DOMAIN adj))
                /\ NextHop(src, adj, order) = f[Cardinality(DOMAIN adj)].hop
<1> DEFINE N == Cardinality(DOMAIN adj)
           f0 == CHOOSE after : after = [k \in 0..N |->
                   IF k = 0 THEN Started(src, adj, order)
                   ELSE IF after[k - 1].queue = <<>> THEN after[k - 1]
                        ELSE Expanded(src, adj, order, after[k - 1])]
<1>0. N \in Nat
  BY FS_CardinalityType
<1>1. PICK f : IsSearch(src, adj, order, f, N)
  <2> HIDE DEF N
  <2> QED
    BY <1>0, SearchExists
<1>2. f0 = [k \in 0..N |-> SearchStep(src, adj, order, f0, k)]
  <2> HIDE DEF N
  <2> QED
    BY <1>1 DEF SearchStep, IsSearch
<1>3. NextHop(src, adj, order) = f0[N].hop
  BY DEF NextHop
<1> HIDE DEF f0
<1> DEFINE e == [k \in 0..N |-> SearchStep(src, adj, order, f0, k)]
<1>4. \A k \in 0..N : f0[k] = SearchStep(src, adj, order, f0, k)
  <2>1. \A k \in 0..N : e[k] = SearchStep(src, adj, order, f0, k)
    OBVIOUS
  <2>2. f0 = e
    BY <1>2
  <2> HIDE DEF e
  <2> QED
    BY <2>1, <2>2
<1>5. 0 \in 0..N /\ \A k \in 1..N : k \in 0..N /\ k # 0
  BY <1>0
<1>6. Rounds(src, adj, order, f0, N)
  <2> HIDE DEF N
  <2> QED
    BY <1>4, <1>5 DEF SearchStep, Rounds
<1> QED
  BY <1>3, <1>6

\* Whatever the graph and the order, a first hop is a node or NoGateway.
LEMMA NextHopType ==
  ASSUME NEW V, IsFiniteSet(V), NEW adj \in [V -> SUBSET V], NEW src \in V,
         NEW order \in Seq(V)
  PROVE  NextHop(src, adj, order) \in [V -> V \union {NoGateway}]
<1> DEFINE N == Cardinality(DOMAIN adj)
           Good(s) == /\ s.queue \in Seq(V)
                      /\ s.hop \in [V -> V \union {NoGateway}]
<1>0. DOMAIN adj = V /\ N \in Nat
  BY FS_CardinalityType
<1>1. PICK f : Rounds(src, adj, order, f, N) /\ NextHop(src, adj, order) = f[N].hop
  BY <1>0, SearchRuns
<1> HIDE DEF N
<1> DEFINE T == {k \in 0..N : Good(f[k])}
<1>2. \A S : InOrder(order, S) \in Seq(V)
  BY InOrderLists
<1>3. Good(f[0])
  BY <1>0, <1>1, <1>2 DEF Started, Rounds
<1>4. ASSUME NEW k \in 0..N, k < N, k \in T PROVE k + 1 \in T
  <2>0. Good(f[k]) /\ k + 1 \in 1..N /\ k + 1 \in 0..N /\ (k + 1) - 1 = k
    BY <1>0, <1>4
  <2>1. f[k + 1] = IF f[k].queue = <<>> THEN f[k] ELSE Expanded(src, adj, order, f[k])
    BY <1>1, <2>0 DEF Rounds
  <2>2. CASE f[k].queue # <<>>
    <3> DEFINE s == f[k]
    <3>1. Good(s) /\ s.queue # <<>>
      BY <2>0, <2>2
    <3> HIDE DEF s
    <3>2. Head(s.queue) \in V /\ Tail(s.queue) \in Seq(V)
      BY <3>1
    <3>3. Good(Expanded(src, adj, order, s))
      BY <1>0, <1>2, <3>1, <3>2 DEF Expanded
    <3> HIDE DEF Good
    <3> QED
      BY <2>0, <2>1, <2>2, <3>3 DEF s
  <2>3. CASE f[k].queue = <<>>
    <3> HIDE DEF Good
    <3> QED
      BY <2>0, <2>1, <2>3
  <2> QED
    BY <2>2, <2>3
<1>5. 0 \in T
  <2> HIDE DEF Good
  <2> QED
    BY <1>0, <1>3
<1> HIDE DEF T
<1>6. 0..N \subseteq T
  BY <1>0, <1>4, <1>5, UpTo
<1>7. N \in T
  BY <1>0, <1>6
<1> QED
  BY <1>1, <1>7 DEF T

-----------------------------------------------------------------------------
(* Balls *)

BallStep(src, adj, f, i) ==
  IF i = 0 THEN {src} ELSE f[i - 1] \union UNION {adj[n] : n \in f[i - 1]}

AreBalls(src, adj, f, k) == f = [i \in 0..k |-> BallStep(src, adj, f, i)]

\* The balls around a node are determined by their recursion.
LEMMA BallsAgree ==
  ASSUME NEW src, NEW adj, NEW k \in Nat, NEW m \in Nat, k <= m, NEW f, NEW g,
         \A i \in 0..k : f[i] = BallStep(src, adj, f, i),
         \A i \in 0..m : g[i] = BallStep(src, adj, g, i)
  PROVE  \A i \in 0..k : f[i] = g[i]
<1> DEFINE T == {i \in 0..k : f[i] = g[i]}
<1>1. 0 \in T
  <2>1. 0 \in 0..k /\ 0 \in 0..m
    OBVIOUS
  <2>2. f[0] = {src} /\ g[0] = {src}
    BY <2>1 DEF BallStep
  <2> QED
    BY <2>1, <2>2
<1>2. ASSUME NEW i \in 0..k, i < k, i \in T PROVE i + 1 \in T
  <2>1. i + 1 \in 0..k /\ i + 1 \in 0..m /\ i + 1 # 0 /\ (i + 1) - 1 = i
    BY <1>2
  <2>2. f[i] = g[i]
    BY <1>2
  <2>3. f[i + 1] = f[i] \union UNION {adj[n] : n \in f[i]}
    BY <2>1 DEF BallStep
  <2>4. g[i + 1] = g[i] \union UNION {adj[n] : n \in g[i]}
    BY <2>1 DEF BallStep
  <2> QED
    BY <2>1, <2>2, <2>3, <2>4
<1> HIDE DEF T
<1>3. 0..k \subseteq T
  BY <1>1, <1>2, UpTo
<1> QED
  BY <1>3 DEF T

LEMMA BallsExist ==
  ASSUME NEW src, NEW adj, NEW N \in Nat
  PROVE  \E f : AreBalls(src, adj, f, N)
<1> USE DEF AreBalls
<1> DEFINE Rec(f, m) == AreBalls(src, adj, f, m)
           T == {m \in 0..N : \E f : Rec(f, m)}
<1>1. 0 \in T
  <2> DEFINE g == [i \in 0..0 |-> {src}]
             h == [i \in 0..0 |-> BallStep(src, adj, g, i)]
  <2>0. \A i \in 0..0 : i = 0
    OBVIOUS
  <2>1. g = h
    BY <2>0 DEF BallStep
  <2>2. Rec(g, 0)
    <3> HIDE DEF g
    <3> QED
      BY <2>1
  <2> HIDE DEF g, Rec
  <2> QED
    BY <2>2
<1>2. ASSUME NEW m \in 0..N, m < N, m \in T PROVE m + 1 \in T
  <2>1. PICK f : Rec(f, m)
    BY <1>2
  <2> DEFINE e == [i \in 0..m |-> BallStep(src, adj, f, i)]
             g == [i \in 0..(m + 1) |-> BallStep(src, adj, f, i)]
             h == [i \in 0..(m + 1) |-> BallStep(src, adj, g, i)]
  <2>2. f = e
    BY <2>1
  <2>3. \A i \in 0..m : g[i] = e[i]
    OBVIOUS
  <2>4. \A i \in 0..m : g[i] = f[i]
    <3> HIDE DEF g, e
    <3> QED
      BY <2>2, <2>3
  <2>5. \A i \in 0..(m + 1) : i # 0 => i - 1 \in 0..m
    OBVIOUS
  <2>6. \A i \in 0..(m + 1) : BallStep(src, adj, f, i) = BallStep(src, adj, g, i)
    <3> HIDE DEF g
    <3> QED
      BY <2>4, <2>5 DEF BallStep
  <2>7. g = h
    BY <2>6
  <2>8. Rec(g, m + 1)
    <3> HIDE DEF g
    <3> QED
      BY <2>7
  <2>9. m + 1 \in 0..N
    BY <1>2
  <2> HIDE DEF g, Rec
  <2> QED
    BY <2>8, <2>9
<1> HIDE DEF T
<1>3. 0..N \subseteq T
  BY <1>1, <1>2, UpTo
<1>4. N \in T
  BY <1>3
<1> QED
  BY <1>4 DEF T

\* Ball(src, adj, k) is the last of a sequence that obeys the recursion.
LEMMA BallIsLast ==
  ASSUME NEW src, NEW adj, NEW k \in Nat
  PROVE  \E f : /\ \A i \in 0..k : f[i] = BallStep(src, adj, f, i)
                /\ Ball(src, adj, k) = f[k]
<1> DEFINE f0 == CHOOSE within : within = [i \in 0..k |->
                   IF i = 0 THEN {src} ELSE within[i - 1] \union UNION {adj[n] : n \in within[i - 1]}]
<1>1. PICK f : AreBalls(src, adj, f, k)
  BY BallsExist
<1>2. f0 = [i \in 0..k |-> BallStep(src, adj, f0, i)]
  BY <1>1 DEF BallStep, AreBalls
<1>3. Ball(src, adj, k) = f0[k]
  BY DEF Ball
<1> HIDE DEF f0
<1> DEFINE e == [i \in 0..k |-> BallStep(src, adj, f0, i)]
<1>4. \A i \in 0..k : e[i] = BallStep(src, adj, f0, i)
  OBVIOUS
<1>5. f0 = e
  BY <1>2
<1> HIDE DEF e
<1> QED
  BY <1>3, <1>4, <1>5

\* The recursion that Ball is defined by.
LEMMA BallRec ==
  ASSUME NEW src, NEW adj
  PROVE  /\ Ball(src, adj, 0) = {src}
         /\ \A k \in Nat : Ball(src, adj, k + 1) =
              Ball(src, adj, k) \union UNION {adj[n] : n \in Ball(src, adj, k)}
<1>1. Ball(src, adj, 0) = {src}
  <2>1. PICK f : f[0] = BallStep(src, adj, f, 0) /\ Ball(src, adj, 0) = f[0]
    BY BallIsLast
  <2> QED
    BY <2>1 DEF BallStep
<1>2. ASSUME NEW k \in Nat
      PROVE  Ball(src, adj, k + 1) = Ball(src, adj, k) \union UNION {adj[n] : n \in Ball(src, adj, k)}
  <2>1. PICK f : /\ \A i \in 0..k : f[i] = BallStep(src, adj, f, i)
                 /\ Ball(src, adj, k) = f[k]
    BY BallIsLast
  <2>2. PICK g : /\ \A i \in 0..(k + 1) : g[i] = BallStep(src, adj, g, i)
                 /\ Ball(src, adj, k + 1) = g[k + 1]
    BY BallIsLast
  <2>3. f[k] = g[k]
    <3>1. k + 1 \in Nat /\ k <= k + 1 /\ k \in 0..k
      OBVIOUS
    <3>2. \A i \in 0..k : f[i] = g[i]
      BY <2>1, <2>2, <3>1, BallsAgree
    <3> QED
      BY <3>1, <3>2
  <2>4. k + 1 \in 0..(k + 1) /\ k + 1 # 0 /\ (k + 1) - 1 = k
    OBVIOUS
  <2>5. g[k + 1] = g[k] \union UNION {adj[n] : n \in g[k]}
    BY <2>2, <2>4 DEF BallStep
  <2> QED
    BY <2>1, <2>2, <2>3, <2>5
<1> QED
  BY <1>1, <1>2

\* Balls hold nodes only, and grow with their radius.
LEMMA BallGrows ==
  ASSUME NEW V, NEW adj \in [V -> SUBSET V], NEW src \in V
  PROVE  /\ \A k \in Nat : Ball(src, adj, k) \subseteq V
         /\ \A j, k \in Nat : j <= k => Ball(src, adj, j) \subseteq Ball(src, adj, k)
<1>1. ASSUME NEW N \in Nat PROVE Ball(src, adj, N) \subseteq V
  <2> DEFINE T == {k \in 0..N : Ball(src, adj, k) \subseteq V}
  <2>1. 0 \in T
    BY BallRec
  <2>2. ASSUME NEW k \in 0..N, k < N, k \in T PROVE k + 1 \in T
    <3>1. Ball(src, adj, k + 1) = Ball(src, adj, k) \union UNION {adj[n] : n \in Ball(src, adj, k)}
      BY BallRec
    <3> QED
      BY <2>2, <3>1
  <2> HIDE DEF T
  <2>3. 0..N \subseteq T
    BY <2>1, <2>2, UpTo
  <2> QED
    BY <2>3 DEF T
<1>2. ASSUME NEW j \in Nat, NEW N \in Nat, j <= N
      PROVE  Ball(src, adj, j) \subseteq Ball(src, adj, N)
  <2> DEFINE T == {k \in 0..N : j <= k => Ball(src, adj, j) \subseteq Ball(src, adj, k)}
  <2>1. 0 \in T
    <3>1. j <= 0 => j = 0
      OBVIOUS
    <3> QED
      BY <3>1
  <2>2. ASSUME NEW k \in 0..N, k < N, k \in T PROVE k + 1 \in T
    <3>1. Ball(src, adj, k) \subseteq Ball(src, adj, k + 1)
      BY BallRec
    <3>2. j <= k + 1 => j <= k \/ j = k + 1
      OBVIOUS
    <3>3. k + 1 \in 0..N
      BY <2>2
    <3> QED
      BY <2>2, <3>1, <3>2, <3>3
  <2> HIDE DEF T
  <2>3. 0..N \subseteq T
    BY <2>1, <2>2, UpTo
  <2>4. N \in T
    BY <2>3
  <2> QED
    BY <1>2, <2>4 DEF T
<1> QED
  BY <1>1, <1>2

-----------------------------------------------------------------------------
(* The queue *)

\* Whatever is not in B comes behind what is.
Behind(q, B) == \A i, j \in DOMAIN q : i < j /\ q[i] \notin B => q[j] \notin B

\* The queue after its head was taken, and r put behind the others.
LEMMA QueueMoves ==
  ASSUME NEW V, NEW q \in Seq(V), q # <<>>, NEW r \in Seq(V), Once(q), Once(r),
         Members(q) \intersect Members(r) = {},
         NEW B, Behind(q, B), Members(r) \intersect B = {}
  PROVE  /\ Tail(q) \o r \in Seq(V) /\ Once(Tail(q) \o r) /\ Behind(Tail(q) \o r, B)
         /\ Members(Tail(q) \o r) = (Members(q) \ {Head(q)}) \union Members(r)
         /\ Head(q) \in V /\ Head(q) \in Members(q)
<1> DEFINE t == Tail(q)
           u == t \o r
           m == Len(q) - 1
<1>1. /\ t \in Seq(V) /\ Len(t) = m /\ m \in Nat /\ DOMAIN q = 1..(m + 1)
      /\ \A i \in 1..m : t[i] = q[i + 1]
      /\ Head(q) = q[1] /\ q[1] \in V
  OBVIOUS
<1>2. /\ u \in Seq(V) /\ Len(r) \in Nat /\ DOMAIN r = 1..Len(r) /\ DOMAIN u = 1..(m + Len(r))
      /\ \A i \in 1..m : u[i] = t[i]
      /\ \A i \in 1..Len(r) : u[m + i] = r[i]
  <2> HIDE DEF t, m
  <2> QED
    BY <1>1
<1>3. \A i \in 1..m : u[i] = q[i + 1]
  BY <1>1, <1>2
<1>4. \A i \in DOMAIN u : i \in 1..m \/ (i > m /\ i - m \in DOMAIN r /\ u[i] = r[i - m])
  <2> HIDE DEF t, u, m
  <2> TAKE i \in DOMAIN u
  <2>1. CASE i > m
    <3>1. i - m \in 1..Len(r) /\ m + (i - m) = i
      BY <1>1, <1>2, <2>1
    <3> QED
      BY <1>2, <2>1, <3>1
  <2>2. CASE ~(i > m)
    BY <1>1, <1>2, <2>2
  <2> QED
    BY <2>1, <2>2
<1> HIDE DEF t, u, m
<1>0. Head(q) \in V /\ Head(q) \in Members(q) /\ 1 \in DOMAIN q
  BY <1>1 DEF Members
<1>5. ASSUME NEW i \in 1..m
      PROVE  i + 1 \in DOMAIN q /\ i + 1 # 1 /\ u[i] \in Members(q) /\ u[i] # Head(q)
  <2>1. i + 1 \in DOMAIN q /\ i + 1 # 1
    BY <1>1
  <2>2. u[i] = q[i + 1]
    BY <1>3
  <2> QED
    BY <1>0, <1>1, <2>1, <2>2 DEF Members, Once
<1>6. \A i \in DOMAIN u : i > m => u[i] \in Members(r)
  BY <1>1, <1>4 DEF Members
<1>7. Once(u)
  <2> SUFFICES ASSUME NEW i \in DOMAIN u, NEW j \in DOMAIN u, u[i] = u[j] PROVE i = j
    BY DEF Once
  <2>1. CASE i \in 1..m /\ j \in 1..m
    <3>1. q[i + 1] = q[j + 1] /\ i + 1 \in DOMAIN q /\ j + 1 \in DOMAIN q
      BY <1>3, <1>5, <2>1
    <3>2. i + 1 = j + 1
      BY <3>1 DEF Once
    <3> QED
      BY <2>1, <3>2
  <2>2. CASE i > m /\ j > m
    <3>1. r[i - m] = r[j - m] /\ i - m \in DOMAIN r /\ j - m \in DOMAIN r
      BY <1>1, <1>4, <2>2
    <3>2. i - m = j - m
      BY <3>1 DEF Once
    <3>3. i \in Nat /\ j \in Nat
      BY <1>2
    <3> QED
      BY <1>1, <3>2, <3>3
  <2>3. CASE i \in 1..m /\ j > m
    BY <1>5, <1>6, <2>3
  <2>4. CASE i > m /\ j \in 1..m
    BY <1>5, <1>6, <2>4
  <2> QED
    BY <1>4, <2>1, <2>2, <2>3, <2>4
<1>8. Behind(u, B)
  <2> SUFFICES ASSUME NEW i \in DOMAIN u, NEW j \in DOMAIN u, i < j, u[i] \notin B
               PROVE  u[j] \notin B
    BY DEF Behind
  <2>1. CASE j > m
    BY <1>6, <2>1
  <2>2. CASE j \in 1..m
    <3>1. i \in 1..m /\ i + 1 < j + 1
      BY <1>1, <1>2, <2>2
    <3> QED
      BY <1>3, <1>5, <2>2, <3>1 DEF Behind
  <2> QED
    BY <1>4, <2>1, <2>2
<1>9. Members(u) = (Members(q) \ {Head(q)}) \union Members(r)
  <2>1. ASSUME NEW x \in Members(u) PROVE x \in (Members(q) \ {Head(q)}) \union Members(r)
    BY <1>4, <1>5, <1>6 DEF Members
  <2>2. ASSUME NEW x \in Members(q), x # Head(q) PROVE x \in Members(u)
    <3>1. PICK i \in DOMAIN q : x = q[i]
      BY DEF Members
    <3>2. i # 1 /\ i - 1 \in 1..m /\ (i - 1) + 1 = i
      BY <1>1, <2>2, <3>1
    <3>3. i - 1 \in DOMAIN u
      BY <1>1, <1>2, <3>2
    <3> QED
      BY <1>3, <3>1, <3>2, <3>3 DEF Members
  <2>3. ASSUME NEW x \in Members(r) PROVE x \in Members(u)
    <3>1. PICK i \in DOMAIN r : x = r[i]
      BY DEF Members
    <3>2. m + i \in DOMAIN u
      BY <1>1, <1>2, <3>1
    <3> QED
      BY <1>2, <3>1, <3>2 DEF Members
  <2> QED
    BY <2>1, <2>2, <2>3
<1> QED
  BY <1>0, <1>2, <1>7, <1>8, <1>9 DEF t, u

-----------------------------------------------------------------------------
(* The search goes level by level *)

Visited(src, s) == {src} \union {n \in DOMAIN s.hop : s.hop[n] # NoGateway}

\* The first hops of the visited nodes begin shortest paths.
Shortest(src, adj, s) ==
  \A n \in Visited(src, s) \ {src} :
    /\ s.hop[n] \in adj[src]
    /\ \A j \in Nat \ {0} : n \in Ball(src, adj, j) => n \in Ball(s.hop[n], adj, j - 1)

\* The nodes at most L links away were visited, then some of those that are one more,
\* which wait behind the others; neighbours of what does not wait were visited.
Level(src, adj, s, L) ==
  LET seen == Visited(src, s)
  IN /\ L \in Nat
     /\ Ball(src, adj, L) \subseteq seen /\ seen \subseteq Ball(src, adj, L + 1)
     /\ Behind(s.queue, Ball(src, adj, L))
     /\ \A n \in seen \ Members(s.queue) : n \in Ball(src, adj, L) /\ adj[n] \subseteq seen

\* Nodes are taken from the queue once: P are those that were.
Queued(V, src, adj, s, P) ==
  /\ s.queue \in Seq(V) /\ s.hop \in [V -> V \union {NoGateway}]
  /\ Once(s.queue) /\ Members(s.queue) \subseteq Visited(src, s)
  /\ adj[src] \subseteq Visited(src, s)
  /\ P \subseteq Visited(src, s) \ Members(s.queue)

\* When the nodes of a level are done, the next one has been visited.
LEMMA NextLevel ==
  ASSUME NEW V, NEW adj \in [V -> SUBSET V], NEW src \in V, NEW s, NEW P, NEW L,
         Queued(V, src, adj, s, P), Level(src, adj, s, L), s.queue # <<>>
  PROVE  \E K : Level(src, adj, s, K) /\ Head(s.queue) \in Ball(src, adj, K)
<1>1. CASE Head(s.queue) \in Ball(src, adj, L)
  BY <1>1
<1>2. CASE Head(s.queue) \notin Ball(src, adj, L)
  <2>0. 1 \in DOMAIN s.queue /\ Head(s.queue) = s.queue[1] /\ \A i \in DOMAIN s.queue : i = 1 \/ 1 < i
    BY DEF Queued
  <2>1. \A n \in Members(s.queue) : n \notin Ball(src, adj, L)
    BY <1>2, <2>0 DEF Level, Behind, Members
  <2>2. \A n \in Ball(src, adj, L) : n \in Visited(src, s) /\ adj[n] \subseteq Visited(src, s)
    BY <2>1 DEF Level
  <2>3. Ball(src, adj, L + 1) \subseteq Visited(src, s)
    <3>1. Ball(src, adj, L + 1) = Ball(src, adj, L) \union UNION {adj[n] : n \in Ball(src, adj, L)}
      BY BallRec DEF Level
    <3> QED
      BY <2>2, <3>1
  <2>4. L \in Nat /\ L + 1 \in Nat /\ L + 1 <= (L + 1) + 1
    BY DEF Level
  <2>5. Visited(src, s) = Ball(src, adj, L + 1) /\ Ball(src, adj, L + 1) \subseteq Ball(src, adj, (L + 1) + 1)
    <3>1. Visited(src, s) \subseteq Ball(src, adj, L + 1)
      BY DEF Level
    <3>2. \A k \in Nat : Ball(src, adj, k) \subseteq Ball(src, adj, k + 1)
      BY BallRec
    <3> QED
      BY <2>3, <2>4, <3>1, <3>2
  <2>6. Behind(s.queue, Ball(src, adj, L + 1))
    BY <2>5 DEF Behind, Members, Queued
  <2>7. Level(src, adj, s, L + 1)
    BY <2>4, <2>5, <2>6 DEF Level
  <2>8. Head(s.queue) \in Ball(src, adj, L + 1)
    BY <2>0, <2>5 DEF Queued, Members
  <2> QED
    BY <2>7, <2>8
<1> QED
  BY <1>1, <1>2

\* One round: the head of the queue, of the level at hand, shows new nodes the first hop
\* of a shortest path.
LEMMA RoundGoes ==
  ASSUME NEW V, NEW adj \in [V -> SUBSET V], NEW src \in V, NoGateway \notin V,
         NEW order \in Seq(V), Once(order), Members(order) = V,
         NEW s, NEW P, NEW L, Queued(V, src, adj, s, P), Level(src, adj, s, L),
         Shortest(src, adj, s), s.queue # <<>>, Head(s.queue) \in Ball(src, adj, L)
  PROVE  LET t == Expanded(src, adj, order, s)
         IN /\ Queued(V, src, adj, t, P \union {Head(s.queue)}) /\ Head(s.queue) \notin P
            /\ Level(src, adj, t, L) /\ Shortest(src, adj, t)
<1> DEFINE q == s.queue
           x == Head(q)
           B == Ball(src, adj, L)
           seen == Visited(src, s)
           new == {nb \in adj[x] : nb # src /\ s.hop[nb] = NoGateway}
           r == InOrder(order, new)
           t == Expanded(src, adj, order, s)
<1>1. /\ q \in Seq(V) /\ s.hop \in [V -> V \union {NoGateway}] /\ DOMAIN s.hop = V /\ DOMAIN adj = V
      /\ Once(q) /\ Members(q) \subseteq seen /\ adj[src] \subseteq seen
      /\ P \subseteq seen \ Members(q) /\ seen \subseteq V
  BY DEF Queued, Visited
<1>2. /\ L \in Nat /\ B \subseteq seen /\ seen \subseteq Ball(src, adj, L + 1) /\ Behind(q, B)
      /\ \A n \in seen \ Members(q) : n \in B /\ adj[n] \subseteq seen
  BY DEF Level
<1>3. x \in V /\ x \in Members(q) /\ x \in B
  <2>1. 1 \in DOMAIN q /\ Head(q) = q[1] /\ q[1] \in V
    BY <1>1
  <2> QED
    BY <2>1 DEF Members
<1>4. new \subseteq V /\ new \subseteq adj[x] /\ new \intersect seen = {} /\ adj[x] \subseteq seen \union new
  BY <1>1, <1>3 DEF Visited
<1>5. r \in Seq(V) /\ Once(r) /\ Members(r) = new
  <2> HIDE DEF new
  <2>1. r \in Seq(V) /\ Once(r) /\ Members(r) = new \intersect Members(order)
    BY InOrderLists
  <2> QED
    BY <1>4, <2>1
<1> HIDE DEF r, seen, new
<1>6. /\ Tail(q) \o r \in Seq(V) /\ Once(Tail(q) \o r) /\ Behind(Tail(q) \o r, B)
      /\ Members(Tail(q) \o r) = (Members(q) \ {x}) \union new
  <2> HIDE DEF B, q
  <2>1. q # <<>> /\ Members(q) \intersect Members(r) = {} /\ Members(r) \intersect B = {}
    BY <1>1, <1>2, <1>4, <1>5 DEF q
  <2> QED
    BY <1>1, <1>2, <1>5, <2>1, QueueMoves
<1>7. t.queue = Tail(q) \o r /\ t.hop = [n \in V |-> IF n \in new THEN s.hop[x] ELSE s.hop[n]]
  BY <1>1 DEF Expanded, r, new
<1>8. new # {} => x # src
  BY <1>1, <1>4
<1>9. x # src => /\ s.hop[x] \in adj[src] /\ s.hop[x] # NoGateway /\ s.hop[x] \in V
                 /\ \A j \in Nat \ {0} : x \in Ball(src, adj, j) => x \in Ball(s.hop[x], adj, j - 1)
  <2>1. x \in seen
    BY <1>1, <1>3
  <2> QED
    BY <1>1, <2>1 DEF Shortest, seen
<1> HIDE DEF t
<1>10. /\ \A n \in new : t.hop[n] = s.hop[x] /\ t.hop[n] # NoGateway
       /\ \A n \in V \ new : t.hop[n] = s.hop[n]
       /\ DOMAIN t.hop = V
  BY <1>4, <1>7, <1>8, <1>9
<1>11. Visited(src, t) = seen \union new
  BY <1>1, <1>4, <1>10 DEF Visited, seen
<1>12. Queued(V, src, adj, t, P \union {x}) /\ x \notin P
  <2>1. t.hop \in [V -> V \union {NoGateway}]
    BY <1>1, <1>7, <1>8, <1>9
  <2>2. P \union {x} \subseteq (seen \union new) \ Members(t.queue)
    BY <1>1, <1>3, <1>4, <1>6, <1>7
  <2> QED
    BY <1>1, <1>3, <1>4, <1>6, <1>7, <1>11, <2>1, <2>2 DEF Queued
<1>13. new \subseteq Ball(src, adj, L + 1)
  <2>1. Ball(src, adj, L + 1) = B \union UNION {adj[n] : n \in B}
    BY <1>2, BallRec
  <2>2. new \subseteq adj[x]
    BY DEF new
  <2> QED
    BY <1>3, <2>1, <2>2
<1>14. Level(src, adj, t, L)
  <2>1. ASSUME NEW n \in (seen \union new) \ Members(t.queue)
        PROVE  n \in B /\ adj[n] \subseteq seen \union new
    <3>1. n \notin new /\ (n = x \/ n \notin Members(q))
      BY <1>6, <1>7, <2>1
    <3>2. CASE n = x
      BY <1>3, <1>4, <3>2
    <3>3. CASE n \notin Members(q)
      BY <1>2, <2>1, <3>1, <3>3
    <3> QED
      BY <3>1, <3>2, <3>3
  <2> QED
    BY <1>2, <1>6, <1>7, <1>11, <1>13, <2>1 DEF Level
<1>15. Shortest(src, adj, t)
  <2>1. ASSUME NEW n \in new
        PROVE  /\ s.hop[x] \in adj[src]
               /\ \A j \in Nat \ {0} : n \in Ball(src, adj, j) => n \in Ball(s.hop[x], adj, j - 1)
    <3>1. x # src
      BY <1>8, <2>1
    <3> SUFFICES ASSUME NEW j \in Nat \ {0}, n \in Ball(src, adj, j)
                 PROVE  n \in Ball(s.hop[x], adj, j - 1)
      BY <1>9, <3>1
    <3>2. j >= L + 1
      <4>1. SUFFICES ASSUME j <= L PROVE FALSE
        BY <1>2
      <4>2. n \in B
        BY <1>2, <4>1, BallGrows
      <4> QED
        BY <1>2, <1>4, <2>1, <4>2
    <3>3. L # 0
      BY <1>3, <3>1, BallRec
    <3>4. x \in Ball(s.hop[x], adj, L - 1) /\ L - 1 \in Nat /\ (L - 1) + 1 = L
      BY <1>2, <1>3, <1>9, <3>1, <3>3
    <3>5. n \in adj[x]
      BY <2>1 DEF new
    <3>6. n \in Ball(s.hop[x], adj, L)
      <4>1. PICK k \in Nat : k = L - 1 /\ k + 1 = L
        BY <3>4
      <4>2. Ball(s.hop[x], adj, k + 1) =
              Ball(s.hop[x], adj, k) \union UNION {adj[m] : m \in Ball(s.hop[x], adj, k)}
        BY BallRec
      <4> QED
        BY <3>4, <3>5, <4>1, <4>2
    <3>7. j - 1 \in Nat /\ L <= j - 1
      BY <1>2, <3>2
    <3>8. Ball(s.hop[x], adj, L) \subseteq Ball(s.hop[x], adj, j - 1)
      BY <1>2, <1>9, <3>1, <3>7, BallGrows
    <3> QED
      BY <3>6, <3>8
  <2>2. ASSUME NEW n \in Visited(src, t) \ {src}
        PROVE  /\ t.hop[n] \in adj[src]
               /\ \A j \in Nat \ {0} : n \in Ball(src, adj, j) => n \in Ball(t.hop[n], adj, j - 1)
    <3>1. CASE n \in new
      BY <1>10, <2>1, <3>1
    <3>2. CASE n \notin new
      <4>1. n \in seen \ {src} /\ t.hop[n] = s.hop[n]
        BY <1>1, <1>10, <1>11, <2>2, <3>2
      <4> QED
        BY <4>1 DEF Shortest, seen
    <3> QED
      BY <3>1, <3>2
  <2> QED
    BY <2>2 DEF Shortest
<1> QED
  BY <1>12, <1>14, <1>15 DEF t

LEMMA SearchStarts ==
  ASSUME NEW V, NEW adj \in [V -> SUBSET V], NEW src \in V, NoGateway \notin V,
         NEW order \in Seq(V), Once(order), Members(order) = V
  PROVE  LET s == Started(src, adj, order)
         IN Queued(V, src, adj, s, {}) /\ Level(src, adj, s, 1) /\ Shortest(src, adj, s)
<1> DEFINE s == Started(src, adj, order)
<1>1. s.queue \in Seq(V) /\ Once(s.queue) /\ Members(s.queue) = adj[src] \intersect V
  BY InOrderLists DEF Started
<1>2. DOMAIN adj = V /\ adj[src] \subseteq V /\ Members(s.queue) = adj[src]
  BY <1>1
<1>3. s.hop = [n \in V |-> IF n \in adj[src] THEN n ELSE NoGateway]
  BY <1>2 DEF Started
<1> HIDE DEF s
<1>4. /\ s.hop \in [V -> V \union {NoGateway}] /\ DOMAIN s.hop = V
      /\ \A n \in adj[src] : s.hop[n] = n
      /\ \A n \in V : s.hop[n] # NoGateway <=> n \in adj[src]
  BY <1>2, <1>3
<1>5. Visited(src, s) = {src} \union adj[src]
  BY <1>2, <1>4 DEF Visited
<1>6. Ball(src, adj, 1) = {src} \union adj[src]
  <2>1. Ball(src, adj, 0 + 1) = Ball(src, adj, 0) \union UNION {adj[n] : n \in Ball(src, adj, 0)}
    BY BallRec
  <2> QED
    BY <2>1, BallRec
<1>7. Ball(src, adj, 1) \subseteq Ball(src, adj, 1 + 1)
  <2>1. ASSUME NEW k \in Nat PROVE Ball(src, adj, k) \subseteq Ball(src, adj, k + 1)
    <3>1. Ball(src, adj, k + 1) = Ball(src, adj, k) \union UNION {adj[n] : n \in Ball(src, adj, k)}
      BY BallRec
    <3> QED
      BY <3>1
  <2> QED
    BY <2>1
<1>8. Queued(V, src, adj, s, {})
  BY <1>1, <1>2, <1>4, <1>5 DEF Queued
<1>9. Behind(s.queue, Ball(src, adj, 1))
  BY <1>2, <1>6 DEF Behind, Members
<1>10. Level(src, adj, s, 1)
  BY <1>2, <1>5, <1>6, <1>7, <1>9 DEF Level
<1>11. Shortest(src, adj, s)
  <2>1. ASSUME NEW n \in adj[src], NEW j \in Nat \ {0} PROVE n \in Ball(n, adj, j - 1)
    <3>1. j - 1 \in Nat /\ 0 <= j - 1
      OBVIOUS
    <3>2. Ball(n, adj, 0) = {n} /\ n \in V
      BY <1>2, BallRec
    <3>3. Ball(n, adj, 0) \subseteq Ball(n, adj, j - 1)
      BY <3>1, <3>2, BallGrows
    <3> QED
      BY <3>2, <3>3
  <2> QED
    BY <1>4, <1>5, <2>1 DEF Shortest
<1> QED
  BY <1>8, <1>10, <1>11 DEF s

\* What the search has done after k rounds: unless the queue is empty, k nodes are done.
After(V, src, adj, s, k) ==
  \E P, L : /\ Queued(V, src, adj, s, P) /\ Level(src, adj, s, L) /\ Shortest(src, adj, s)
            /\ s.queue # <<>> => Cardinality(P) = k

LEMMA SearchGoes ==
  ASSUME NEW V, IsFiniteSet(V), NEW adj \in [V -> SUBSET V], NEW src \in V, NoGateway \notin V,
         NEW order \in Seq(V), Once(order), Members(order) = V,
         NEW N \in Nat, NEW f, Rounds(src, adj, order, f, N)
  PROVE  \A k \in 0..N : After(V, src, adj, f[k], k)
<1> DEFINE T == {k \in 0..N : After(V, src, adj, f[k], k)}
<1>1. 0 \in T
  <2>1. f[0] = Started(src, adj, order)
    BY DEF Rounds
  <2>2. Queued(V, src, adj, f[0], {}) /\ Level(src, adj, f[0], 1) /\ Shortest(src, adj, f[0])
    BY <2>1, SearchStarts
  <2>3. Cardinality({}) = 0
    BY FS_EmptySet
  <2>4. After(V, src, adj, f[0], 0)
    BY <2>2, <2>3 DEF After
  <2> QED
    BY <2>4
<1>2. ASSUME NEW k \in 0..N, k < N, k \in T PROVE k + 1 \in T
  <2>0. k + 1 \in 1..N /\ k + 1 \in 0..N /\ (k + 1) - 1 = k
    BY <1>2
  <2>1. PICK P, L : /\ Queued(V, src, adj, f[k], P) /\ Level(src, adj, f[k], L)
                    /\ Shortest(src, adj, f[k])
                    /\ f[k].queue # <<>> => Cardinality(P) = k
    BY <1>2 DEF After
  <2>2. CASE f[k].queue = <<>>
    <3>1. f[k + 1] = f[k]
      BY <2>0, <2>2 DEF Rounds
    <3>2. After(V, src, adj, f[k], k + 1)
      BY <2>1, <2>2 DEF After
    <3> QED
      BY <2>0, <3>1, <3>2
  <2>3. CASE f[k].queue # <<>>
    <3>1. f[k + 1] = Expanded(src, adj, order, f[k])
      BY <2>0, <2>3 DEF Rounds
    <3>2. PICK K : Level(src, adj, f[k], K) /\ Head(f[k].queue) \in Ball(src, adj, K)
      BY <2>1, <2>3, NextLevel
    <3> DEFINE s == f[k]
               x == Head(s.queue)
               t == Expanded(src, adj, order, s)
    <3>3. /\ Queued(V, src, adj, t, P \union {x}) /\ x \notin P
          /\ Level(src, adj, t, K) /\ Shortest(src, adj, t)
      <4>1. /\ Queued(V, src, adj, s, P) /\ Level(src, adj, s, K) /\ Shortest(src, adj, s)
            /\ s.queue # <<>> /\ Head(s.queue) \in Ball(src, adj, K)
        BY <2>1, <2>3, <3>2
      <4> HIDE DEF s
      <4> QED
        BY <4>1, RoundGoes
    <3>0. f[k + 1] = t
      BY <3>1
    <3>4. IsFiniteSet(P)
      <4>1. P \subseteq V
        BY <2>1 DEF Queued, Visited
      <4> QED
        BY <4>1, FS_Subset
    <3> HIDE DEF x, t
    <3>5. Cardinality(P \union {x}) = k + 1
      BY <2>1, <2>3, <3>3, <3>4, FS_AddElement
    <3>6. After(V, src, adj, t, k + 1)
      BY <3>3, <3>5 DEF After
    <3> QED
      BY <2>0, <3>0, <3>6
  <2> QED
    BY <2>2, <2>3
<1> HIDE DEF T
<1>3. 0..N \subseteq T
  BY <1>1, <1>2, UpTo
<1> QED
  BY <1>3 DEF T

\* The search reaches every node there is a path to, and no other, and the first hop it
\* records is that of a shortest path: from there, the node is one link less away
\* (_compute_next_hops).
THEOREM NextHopsAreShortest ==
  ASSUME NEW V, IsFiniteSet(V), NEW adj \in [V -> SUBSET V], NEW src \in V, NoGateway \notin V,
         NEW order \in Seq(V), Once(order), Members(order) = V,
         NEW d \in V, d # src
  PROVE  LET m == NextHop(src, adj, order)[d]
         IN /\ m # NoGateway <=> \E k \in Nat : d \in Ball(src, adj, k)
            /\ \A k \in Nat \ {0} : d \in Ball(src, adj, k) =>
                 m \in adj[src] /\ d \in Ball(m, adj, k - 1)
<1> DEFINE N == Cardinality(V)
<1>0. DOMAIN adj = V /\ N \in Nat
  BY FS_CardinalityType
<1>1. PICK f : Rounds(src, adj, order, f, N) /\ NextHop(src, adj, order) = f[N].hop
  BY <1>0, SearchRuns
<1> DEFINE s == f[N]
           seen == Visited(src, s)
<1>2. N \in 0..N
  BY <1>0
<1>3. After(V, src, adj, s, N)
  <2> HIDE DEF N
  <2>1. \A k \in 0..N : After(V, src, adj, f[k], k)
    BY <1>0, <1>1, SearchGoes
  <2> QED
    BY <1>2, <2>1
<1>4. PICK P, L : /\ Queued(V, src, adj, s, P) /\ Level(src, adj, s, L) /\ Shortest(src, adj, s)
                  /\ s.queue # <<>> => Cardinality(P) = N
  BY <1>3 DEF After
<1> HIDE DEF s
<1>5. s.queue = <<>>
  <2>1. SUFFICES ASSUME s.queue # <<>> PROVE FALSE
    OBVIOUS
  <2>2. P \subseteq V /\ Cardinality(P) = Cardinality(V)
    BY <1>4, <2>1 DEF Queued, Visited
  <2>3. P = V
    BY <2>2, FS_Subset
  <2>4. 1 \in DOMAIN s.queue /\ s.queue[1] \in V
    BY <1>4, <2>1 DEF Queued
  <2> QED
    BY <1>4, <2>3, <2>4 DEF Queued, Members
<1>6. \A n \in seen : adj[n] \subseteq seen
  BY <1>4, <1>5 DEF Level, Members
<1> HIDE DEF seen
<1>7. ASSUME NEW M \in Nat PROVE Ball(src, adj, M) \subseteq seen
  <2> DEFINE T == {k \in 0..M : Ball(src, adj, k) \subseteq seen}
  <2>1. 0 \in T
    BY BallRec DEF seen, Visited
  <2>2. ASSUME NEW k \in 0..M, k < M, k \in T PROVE k + 1 \in T
    <3>1. k \in Nat
      OBVIOUS
    <3>2. Ball(src, adj, k + 1) = Ball(src, adj, k) \union UNION {adj[n] : n \in Ball(src, adj, k)}
      BY <3>1, BallRec
    <3> QED
      BY <1>6, <2>2, <3>2
  <2> HIDE DEF T
  <2>3. 0..M \subseteq T
    BY <2>1, <2>2, UpTo
  <2> QED
    BY <2>3 DEF T
<1>8. d \in seen <=> s.hop[d] # NoGateway
  BY <1>4 DEF seen, Visited, Queued
<1>9. d \in seen => \E k \in Nat : d \in Ball(src, adj, k)
  BY <1>4 DEF Level, seen
<1>10. NextHop(src, adj, order)[d] = s.hop[d]
  BY <1>1 DEF s
<1>11. ASSUME NEW k \in Nat \ {0}, d \in Ball(src, adj, k)
       PROVE  s.hop[d] \in adj[src] /\ d \in Ball(s.hop[d], adj, k - 1)
  BY <1>4, <1>7, <1>11 DEF Shortest, seen
<1> QED
  BY <1>7, <1>8, <1>9, <1>10, <1>11
=============================================================================

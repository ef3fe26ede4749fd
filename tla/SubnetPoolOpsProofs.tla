------------------------- MODULE SubnetPoolOpsProofs -------------------------
(***************************************************************************)
(* What each operation of a SubnetPool object returns and changes, for      *)
(* every value of the object and of MAX_INDEX.                             *)
(***************************************************************************)
EXTENDS SubnetPoolOps, WellFoundedInduction, TLAPS

-----------------------------------------------------------------------------
(* Least and greatest elements *)

\* A non-empty set of naturals has a least element, which Min picks.
LEMMA MinIsLeast ==
  ASSUME NEW S, S \subseteq Nat, S # {}
  PROVE  /\ Min(S) \in S
         /\ \A y \in S : Min(S) <= y
<1> DEFINE Less == {ss \in Nat \X Nat : ss[1] < ss[2]}
<1>0. IsWellFoundedOn(Less, Nat)
  BY NatLessThanWellFounded DEF OpToRel
<1>1. PICK x \in S : \A y \in S : ~ (<<y, x>> \in Less)
  <2> HIDE DEF Less
  <2> QED
    BY <1>0, WFMin
<1>2. \A y \in S : x <= y
  <2> SUFFICES ASSUME NEW y \in S PROVE x <= y
    OBVIOUS
  <2>1. ~ (y < x)
    BY <1>1
  <2> QED
    BY <2>1
<1> QED
  BY <1>2 DEF Min

\* A non-empty set of naturals with an upper bound has a greatest element,
\* which Max picks.
LEMMA MaxIsGreatest ==
  ASSUME NEW N \in Nat, NEW S, S \subseteq 0..N, S # {}
  PROVE  /\ Max(S) \in S
         /\ \A y \in S : y <= Max(S)
<1> DEFINE T == {N - s : s \in S}
<1>1. T \subseteq Nat /\ T # {}
  OBVIOUS
<1>2. Min(T) \in T /\ \A y \in T : Min(T) <= y
  BY <1>1, MinIsLeast
<1> HIDE DEF T
<1>3. PICK x \in S : Min(T) = N - x
  BY <1>2 DEF T
<1>4. \A y \in S : y <= x
  <2> SUFFICES ASSUME NEW y \in S PROVE y <= x
    OBVIOUS
  <2>1. N - y \in T
    BY DEF T
  <2>2. N - x <= N - y
    BY <1>2, <1>3, <2>1
  <2> QED
    BY <2>2
<1> QED
  BY <1>4 DEF Max

-----------------------------------------------------------------------------
(* What the operations of the pool do *)

\* from_live() marks its indices and moves the counter just past the greatest.
LEMMA FromLiveEffect ==
  ASSUME NEW p \in Pool, NEW S, S \subseteq Index
  PROVE  LET q == FromLive(p, S)
         IN /\ q \in Pool
            /\ q.inUse = p.inUse \union S
            /\ q.released = p.released \ S
            /\ p.next <= q.next
            /\ \A s \in S : s < q.next
            /\ q.next # p.next => \E s \in S : q.next = s + 1
<1> DEFINE T == {p.next} \union {i + 1 : i \in S}
<1>1. S \intersect Index = S
  OBVIOUS
<1>2. FromLive(p, S) = [next |-> Max(T), released |-> p.released \ S,
                        inUse |-> p.inUse \union S]
  BY <1>1 DEF FromLive
<1>3. MaxIndex + 1 \in Nat /\ T \subseteq 0..(MaxIndex + 1) /\ T # {}
  BY MaxIndexAssumption DEF Pool, Index
<1>4. Max(T) \in T /\ \A y \in T : y <= Max(T)
  <2> HIDE DEF T
  <2> QED
    BY <1>3, MaxIsGreatest
<1>5. p.next \in T /\ \A s \in S : s + 1 \in T
  OBVIOUS
<1>6. Max(T) \in 0..(MaxIndex + 1) /\ p.next <= Max(T)
  <2> HIDE DEF T
  <2> QED
    BY <1>3, <1>4, <1>5
<1>7. ASSUME NEW s \in S PROVE s < Max(T)
  <2>1. s \in Int /\ s + 1 <= Max(T)
    <3> HIDE DEF T
    <3> QED
      BY <1>4, <1>5 DEF Index
  <2> HIDE DEF T
  <2> QED
    BY <2>1, <1>6, MaxIndexAssumption
<1>8. Max(T) # p.next => \E s \in S : Max(T) = s + 1
  BY <1>4
<1> HIDE DEF T
<1> QED
  BY <1>2, <1>6, <1>7, <1>8 DEF Pool

\* allocate() issues a free index: the least released one, or else the first
\* free one at or above the counter.
LEMMA AllocatedEffect ==
  ASSUME NEW p \in Pool, ~Exhausted(p)
  PROVE  LET q == Allocated(p)
             i == Issued(p)
         IN /\ i \in Index \ p.inUse
            /\ q \in Pool
            /\ q.inUse = p.inUse \union {i}
            /\ \/ /\ i \in p.released
                  /\ q.next = p.next
                  /\ q.released = {r \in p.released : r > i}
                  /\ \A r \in p.released \ p.inUse : i <= r
               \/ /\ p.released \subseteq p.inUse
                  /\ i >= p.next
                  /\ q.next = i + 1
                  /\ q.released = {}
                  /\ \A j \in p.next..(i - 1) : j \in p.inUse
<1>1. /\ Reusable(p) \subseteq Nat /\ Fresh(p) \subseteq Nat
      /\ Reusable(p) \subseteq Index /\ Fresh(p) \subseteq Index
  BY MaxIndexAssumption DEF Reusable, Fresh, Pool, Index
<1>2. CASE Reusable(p) # {}
  <2>1. Issued(p) = Min(Reusable(p))
    BY <1>2 DEF Issued, Candidates
  <2>2. Issued(p) \in Reusable(p) /\ \A r \in Reusable(p) : Issued(p) <= r
    BY <1>1, <1>2, <2>1, MinIsLeast
  <2>3. Allocated(p) = [p EXCEPT !.released = {r \in @ : r > Issued(p)},
                                 !.inUse    = @ \union {Issued(p)}]
    BY <1>2 DEF Allocated
  <2> HIDE DEF Issued, Allocated
  <2> QED
    BY <1>1, <2>2, <2>3 DEF Reusable, Pool
<1>3. CASE Reusable(p) = {}
  <2>1. Fresh(p) # {} /\ Issued(p) = Min(Fresh(p))
    BY <1>3 DEF Exhausted, Issued, Candidates
  <2>2. Issued(p) \in Fresh(p) /\ \A j \in Fresh(p) : Issued(p) <= j
    BY <1>1, <2>1, MinIsLeast
  <2>3. Allocated(p) = [next |-> Issued(p) + 1, released |-> {},
                        inUse |-> p.inUse \union {Issued(p)}]
    BY <1>3, <2>1 DEF Allocated
  <2>4. ASSUME NEW j \in p.next..(Issued(p) - 1) PROVE j \in p.inUse
    <3>1. Issued(p) \in p.next..MaxIndex /\ p.next \in Int
      BY <2>2 DEF Fresh, Pool
    <3>2. j \in p.next..MaxIndex /\ ~ (Issued(p) <= j)
      BY <3>1, MaxIndexAssumption
    <3> QED
      BY <2>2, <3>2 DEF Fresh
  <2> HIDE DEF Issued, Allocated
  <2> QED
    BY <1>1, <1>3, <2>2, <2>3, <2>4, MaxIndexAssumption DEF Reusable, Fresh, Pool, Index
<1> QED
  BY <1>2, <1>3

\* A refused allocate() only runs the counter to its end and drops released
\* indices that were in use.
LEMMA RefusedEffect ==
  ASSUME NEW p \in Pool, Exhausted(p)
  PROVE  LET q == Allocated(p)
         IN /\ q \in Pool
            /\ q.inUse = p.inUse
            /\ q.released = {}
            /\ q.next = MaxIndex + 1
            /\ p.released \subseteq p.inUse
            /\ p.next..MaxIndex \subseteq p.inUse
<1>1. Reusable(p) = {} /\ Fresh(p) = {}
  BY DEF Exhausted, Candidates
<1>2. Allocated(p) = [next |-> MaxIndex + 1, released |-> {}, inUse |-> p.inUse]
  BY <1>1 DEF Allocated
<1> QED
  BY <1>1, <1>2, MaxIndexAssumption DEF Reusable, Fresh, Pool, Index

\* release() moves its index from one set to the other.
LEMMA ReleasedEffect ==
  ASSUME NEW p \in Pool, NEW i \in Index
  PROVE  LET q == Released(p, i)
         IN /\ q \in Pool
            /\ q.inUse = p.inUse \ {i}
            /\ q.released = p.released \union {i}
            /\ q.next = p.next
BY DEF Released, Pool
=============================================================================

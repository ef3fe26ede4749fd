---------------------------- MODULE SubnetPoolOps ----------------------------
(***************************************************************************)
(* The arithmetic of services/subnet_pool.py as pure operators on the     *)
(* value of a SubnetPool object, so that both the pool on its own          *)
(* (SubnetPool) and the manager that owns one (DockerState) use them.      *)
(*                                                                         *)
(*   next      _next_id, the counter of never-issued indices               *)
(*   released  _released: release() keeps that list sorted and free of     *)
(*             duplicates and allocate() pops its head, so it is a set     *)
(*             from which the least element is taken                       *)
(*   inUse     _in_use                                                     *)
(***************************************************************************)
EXTENDS Integers, FiniteSetsExt

CONSTANT MaxIndex       \* MAX_INDEX, 255 in the program

ASSUME MaxIndexAssumption == MaxIndex \in Nat

Index == 0..MaxIndex

Pool == [next: 0..(MaxIndex + 1), released: SUBSET Index, inUse: SUBSET Index]

EmptyPool == [next |-> 0, released |-> {}, inUse |-> {}]

-----------------------------------------------------------------------------
(* allocate() *)

\* Released indices that the first loop of allocate() can hand out.
Reusable(p) == p.released \ p.inUse

\* Mutant: the second loop compares with < and never reaches MAX_INDEX.
FreshStopsEarly(p) == (p.next..(MaxIndex - 1)) \ p.inUse

\* Mutant: the second loop runs one index too far.
FreshRunsOver(p) == (p.next..(MaxIndex + 1)) \ p.inUse

\* Indices that the second loop can reach: the counter only moves up.
Fresh(p) == (p.next..MaxIndex) \ p.inUse

Candidates(p) == IF Reusable(p) # {} THEN Reusable(p) ELSE Fresh(p)

\* allocate() raises CapacityError.
Exhausted(p) == Candidates(p) = {}

\* The index allocate() returns.
Issued(p) == Min(Candidates(p))

\* The pool after allocate(), raising included: the loops consume what they
\* skip over.
Allocated(p) ==
  IF Reusable(p) # {}
  THEN [p EXCEPT !.released = {r \in @ : r > Issued(p)},
                 !.inUse    = @ \union {Issued(p)}]
  ELSE IF Fresh(p) # {}
  THEN [next     |-> Issued(p) + 1,
        released |-> {},
        inUse    |-> p.inUse \union {Issued(p)}]
  ELSE [next |-> MaxIndex + 1, released |-> {}, inUse |-> p.inUse]

-----------------------------------------------------------------------------
(* reserve(), from_live() and release() *)

\* Mutant: reserve() leaves the index on the released list.
FromLiveKeepsReleased(p, S) ==
  [next     |-> Max({p.next} \union {i + 1 : i \in S}),
   released |-> p.released,
   inUse    |-> p.inUse \union S]

\* Mutant: the range test of reserve() is inverted, so it always returns early.
FromLiveIgnoresAll(p, S) == p

\* from_live(S): reserve() of each index of S in turn; the order is
\* immaterial. Indices outside 0..MAX_INDEX are ignored.
FromLive(p, S) ==
  LET valid == S \intersect Index
  IN [next     |-> Max({p.next} \union {i + 1 : i \in valid}),
      released |-> p.released \ valid,
      inUse    |-> p.inUse \union valid]

Reserved(p, i) == FromLive(p, {i})

Released(p, i) == [p EXCEPT !.inUse    = @ \ {i},
                            !.released = @ \union {i}]
=============================================================================

----------------------------- MODULE Containers -----------------------------
(***************************************************************************)
(* The growing vector and the hashed sets the whole program is built from  *)
(* (util.h, util.c), and the set of the ZNodes of an SNode (parse.c).      *)
(*                                                                         *)
(*   vec     the vector: its elements, and how many fit into where they    *)
(*           are: nowhere (0), into the structure itself, or on the heap   *)
(*   set     the set: its table, [n, i, v], n slots, 0 where empty; an     *)
(*           element is a number, and its hash                             *)
(*   zset    the ZNodes: a vector of up to IntegralVecSize, then a table   *)
(*   added   the elements of the set, and of the ZNode set                 *)
(*   which   the container a behaviour is about: they are independent      *)
(***************************************************************************)
EXTENDS Helpers, FiniteSets

CONSTANTS Elements,       \* numbers above 0
          VecBound        \* the vector is filled up to this length

IntegralVecSize == 3
InitialVecSize == 8
SetMaxSequential == 5
InitialSetSizeIndex == 2
Prime2 ==                 \* d_prime2, from 0
  <<1, 3, 7, 13, 31, 61, 127, 251, 509, 1021, 2039, 4093, 8191, 16381, 32749, 65521, 131071, 262139, 524287,
    1048573, 2097143, 4194301, 8388593, 16777213, 33554393, 67108859, 134217689, 268435399, 536870909>>
ASSUME ContainersAssumption == Elements \subseteq Nat \ {0} /\ VecBound \in Nat

VARIABLES vec, set, zset, added, zadded, which
containers == <<vec, set, zset, added, zadded, which>>

-----------------------------------------------------------------------------
(* vec_add                                                                 *)

NoVec == [n |-> 0, fit |-> 0]

\* No odd number divides it, but for 1.
PowerOfTwo(m) == \A d \in 2..m : m % d = 0 => d % 2 = 0

\* The vector grows at the powers of two only from the second on.
Mutant_Grown(n, fit) ==
  IF n % InitialVecSize = 0 /\ n \div InitialVecSize > 1 /\ PowerOfTwo(n \div InitialVecSize) THEN 2 * n ELSE fit

\* On the heap room is doubled when the length is a power of two.
Grown(n, fit) ==
  IF n % InitialVecSize = 0 /\ PowerOfTwo(n \div InitialVecSize) THEN 2 * n ELSE fit

\* The structure has room for three; the first five more go to the heap.
RoomFor(v) ==
  CASE v.fit = 0 -> IntegralVecSize
    [] v.fit = IntegralVecSize -> IF v.n < IntegralVecSize THEN v.fit ELSE InitialVecSize
    [] OTHER -> Grown(v.n, v.fit)

\* vec_add_internal alone, as set_to_vec calls it: the second element leaves the structure.
RoomInternal(v) ==
  CASE v.n = 0 -> IntegralVecSize
    [] v.n > 0 /\ v.fit = IntegralVecSize -> InitialVecSize
    [] OTHER -> Grown(v.n, v.fit)

-----------------------------------------------------------------------------
(* The hashed sets.                                                        *)

NoSet == [n |-> 0, i |-> 0, v |-> <<>>]
Prime(i) == Prime2[i + 1]
Slots(s, x) == [k \in 1..MinOf({SetMaxSequential, s.n}) |-> (x + k - 1) % s.n]

\* set_find: up to the first gap, and no farther than SetMaxSequential.
Found(s, x) ==
  s.n > 0 /\ \E k \in DOMAIN Slots(s, x) : /\ s.v[Slots(s, x)[k]] = x
                                          /\ \A j \in 1..(k - 1) : s.v[Slots(s, x)[j]] # 0

\* The gap that x goes to.
Gap(s, x) ==
  LET gaps == IF s.n = 0 THEN {} ELSE {k \in DOMAIN Slots(s, x) : s.v[Slots(s, x)[k]] = 0}
  IN  IF gaps = {} THEN {} ELSE {Slots(s, x)[MinOf(gaps)]}

Members(s) == {s.v[k] : k \in DOMAIN s.v} \ {0}
InOrder(s) == [k \in 1..s.n |-> s.v[k - 1]]

\* Elements are added in turn, s is the table and 0 an empty slot of the one before.  When
\* an element finds no gap it waits, and so do the others, for a table of the next size.
Empty(i) == [n |-> Prime(i), i |-> i, v |-> [k \in 0..(Prime(i) - 1) |-> 0]]
InSlot(s, k, x) == [s EXCEPT !.v[k] = x]
Added(s, x) == IF Found(s, x) THEN s ELSE InSlot(s, CHOOSE k \in Gap(s, x) : TRUE, x)
AddTo(a, x) ==
  IF x = 0 THEN a
  ELSE IF a.rest = <<>> /\ (Found(a.s, x) \/ Gap(a.s, x) # {}) THEN [s |-> Added(a.s, x), rest |-> <<>>]
  ELSE [s |-> a.s, rest |-> Append(a.rest, x)]
AddAll(s, xs) == FoldSteps(AddTo, [s |-> s, rest |-> <<>>], xs)

\* The members of the old table are added to the new one first.
Larger(s, by) == IF s.n = 0 THEN InitialSetSizeIndex ELSE s.i + by
Rebuilt(a, by) ==
  IF a.rest = <<>> \/ Larger(a.s, by) >= Len(Prime2) THEN a
  ELSE AddAll(Empty(Larger(a.s, by)), InOrder(a.s) \o a.rest)

\* As often as it takes; nothing is left to add as long as there is a larger size.
SetAddAll(s, xs, by) == FoldSteps(LAMBDA a, i : Rebuilt(a, by), AddAll(s, xs), Prime2)

\* The members of the old table are forgotten.
Mutant_SetAdd(s, x) == IF Found(s, x) \/ Gap(s, x) # {} THEN SetAddAll(s, <<x>>, 1) ELSE SetAddAll(NoSet, <<x>>, 1)

SetAdd(s, x) == SetAddAll(s, <<x>>, 1)

-----------------------------------------------------------------------------
(* The ZNodes: found by PNode, added when they are not found.              *)

Small(z) == z.n <= IntegralVecSize
FoundZ(z, x) == IF Small(z) THEN \E k \in DOMAIN z.v : z.v[k] = x ELSE Found(z, x)

\* The first three are lost when the table is made.
Mutant_AddZ(z, x) ==
  IF z.n < IntegralVecSize THEN [s |-> [z EXCEPT !.n = @ + 1, !.v = Append(@, x)], rest |-> <<>>]
  ELSE SetAddAll(IF z.n = IntegralVecSize THEN NoSet ELSE z, <<x>>, 2)

AddZ(z, x) ==
  IF z.n < IntegralVecSize THEN [s |-> [z EXCEPT !.n = @ + 1, !.v = Append(@, x)], rest |-> <<>>]
  ELSE IF z.n = IntegralVecSize THEN SetAddAll(NoSet, Append(z.v, x), 2)
  ELSE SetAddAll(z, <<x>>, 2)

-----------------------------------------------------------------------------
ContainersInit ==
  /\ vec = NoVec /\ set = NoSet /\ zset = NoSet /\ added = {} /\ zadded = {}
  /\ which \in {"vec", "set", "zset"}

VecAdd ==
  /\ which = "vec" /\ vec.n < VecBound
  /\ vec' = [n |-> vec.n + 1, fit |-> RoomFor(vec)]
  /\ UNCHANGED <<set, zset, added, zadded, which>>

\* Bounded by the largest of the sizes.
SetAddOne(x) ==
  LET a == SetAdd(set, x)
  IN  /\ which = "set" /\ a.rest = <<>>
      /\ set' = a.s /\ added' = added \cup {x}
      /\ UNCHANGED <<vec, zset, zadded, which>>

\* set_to_vec: the vector takes the members one by one; the set is no more.
TakeIn(v, x) == IF x = 0 THEN v ELSE [n |-> v.n + 1, fit |-> RoomInternal(v)]
SetToVec ==
  /\ added # {} /\ which' = "vec"
  /\ vec' = FoldSteps(TakeIn, NoVec, InOrder(set))
  /\ set' = NoSet /\ added' = {}
  /\ UNCHANGED <<zset, zadded>>

ZNodeAdd(x) ==
  LET a == AddZ(zset, x)
  IN  /\ which = "zset" /\ ~FoundZ(zset, x) /\ a.rest = <<>>
      /\ zset' = a.s /\ zadded' = zadded \cup {x}
      /\ UNCHANGED <<vec, set, added, which>>

ContainersNext == VecAdd \/ SetToVec \/ \E x \in Elements : SetAddOne(x) \/ ZNodeAdd(x)
ContainersSpec == ContainersInit /\ [][ContainersNext]_containers

-----------------------------------------------------------------------------
\* vec_add and vec_add_internal write inside the room there is, however the vector was
\* filled.
VecFits == vec.n <= vec.fit

\* set_find finds what was added and nothing else, though it looks at no more than
\* SetMaxSequential slots; and no element is in the table twice, nor lost when it grows.
SetHolds ==
  /\ \A x \in Elements : Found(set, x) <=> x \in added
  /\ Members(set) = added /\ Cardinality({k \in DOMAIN set.v : set.v[k] # 0}) = Cardinality(added)

\* The same of the ZNodes: goto_PNode finds the ZNode of a PNode whenever there is one, as
\* long as a vector and as a table, and no link is lost when the one becomes the other.
ZNodesHold ==
  /\ \A x \in Elements : FoundZ(zset, x) <=> x \in zadded
  /\ Members(zset) = zadded
=============================================================================

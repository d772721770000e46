------------------------------ MODULE Folding ------------------------------
(***************************************************************************)
(* FoldSteps(LAMBDA u, x : Step(a, b, c, u, x), base, s) is what it is     *)
(* meant to be, for any operator Step of a context, a value u and an       *)
(* element x of s: the last of the values f[0], f[1], ..., f[Len(s)],      *)
(* where f[0] is base and each one is a step from the one before.  So what *)
(* holds of base and is kept by every step holds of the fold.              *)
(***************************************************************************)
EXTENDS HelperProofs

CONSTANTS
  Step(_, _, _, _, _),   \* of the context a, b, c, the value and the element
  Holds(_, _)            \* what is to be shown of a value, with its own context

\* f is the function FoldSteps defines, as far as n.
FoldsTo(a, b, c, base, s, n, f) ==
  f = [k \in 0..n |-> IF k = 0 THEN base
                      ELSE CHOOSE v \in {Step(a, b, c, u, s[k]) : u \in {f[k - 1]}} : TRUE]

\* There is such a function for every sequence.
LEMMA FoldExists ==
  ASSUME NEW a, NEW b, NEW c, NEW base, NEW s, NEW n \in Nat
  PROVE  \E f : FoldsTo(a, b, c, base, s, n, f)
<1> DEFINE S == {m \in Nat : \E f : FoldsTo(a, b, c, base, s, m, f)}
<1>1. 0 \in S
  <2> DEFINE f == [k \in 0..0 |-> base]
  <2>1. FoldsTo(a, b, c, base, s, 0, f)
    BY DEF FoldsTo
  <2> QED
    BY <2>1
<1>2. ASSUME NEW m \in Nat, m \in S PROVE m + 1 \in S
  <2>1. PICK f : FoldsTo(a, b, c, base, s, m, f)
    BY <1>2
  <2> DEFINE Next(k, w) == CHOOSE v \in {Step(a, b, c, u, s[k]) : u \in {w}} : TRUE
             h == [k \in 0..(m + 1) |-> IF k = 0 THEN base ELSE Next(k, f[k - 1])]
  <2>2. f = [k \in 0..m |-> IF k = 0 THEN base ELSE Next(k, f[k - 1])]
    BY <2>1 DEF FoldsTo
  <2> HIDE DEF Next
  <2>3. \A k \in 0..m : h[k] = f[k]
    BY <2>2
  <2>4. ASSUME NEW k \in 0..(m + 1) PROVE h[k] = IF k = 0 THEN base ELSE Next(k, h[k - 1])
    <3>1. CASE k = 0
      BY <3>1
    <3>2. CASE k # 0
      <4>1. k - 1 \in 0..m
        BY <3>2
      <4>2. h[k] = Next(k, f[k - 1])
        BY <3>2
      <4> QED
        BY <2>3, <3>2, <4>1, <4>2
    <3> QED
      BY <3>1, <3>2
  <2>5. h = [k \in 0..(m + 1) |-> h[k]]
    OBVIOUS
  <2> HIDE DEF h
  <2>6. h = [k \in 0..(m + 1) |-> IF k = 0 THEN base ELSE Next(k, h[k - 1])]
    BY <2>4, <2>5
  <2>7. FoldsTo(a, b, c, base, s, m + 1, h)
    BY <2>6 DEF FoldsTo, Next
  <2> QED
    BY <2>7
<1> HIDE DEF S
<1>3. S \subseteq Nat
  BY DEF S
<1>4. n \in S
  BY <1>1, <1>2, <1>3, SetInduction
<1> QED
  BY <1>4 DEF S

\* The values of the fold.
Values(a, b, c, base, s) == CHOOSE f : FoldsTo(a, b, c, base, s, Len(s), f)

\* The first value is the base.
LEMMA FoldFirst ==
  ASSUME NEW a, NEW b, NEW c, NEW base, NEW s, Len(s) \in Nat
  PROVE  Values(a, b, c, base, s)[0] = base
<1> DEFINE f == Values(a, b, c, base, s)
<1>1. FoldsTo(a, b, c, base, s, Len(s), f)
  BY FoldExists DEF Values
<1> HIDE DEF f
<1> QED
  BY <1>1 DEF FoldsTo, f

\* Every further value is a step from the one before it.
LEMMA FoldNext ==
  ASSUME NEW a, NEW b, NEW c, NEW base, NEW s, Len(s) \in Nat, NEW k \in 1..Len(s)
  PROVE  Values(a, b, c, base, s)[k] = Step(a, b, c, Values(a, b, c, base, s)[k - 1], s[k])
<1> DEFINE f == Values(a, b, c, base, s)
           T == {Step(a, b, c, u, s[k]) : u \in {f[k - 1]}}
<1>1. FoldsTo(a, b, c, base, s, Len(s), f)
  BY FoldExists DEF Values
<1> HIDE DEF f
<1>2. f[k] = CHOOSE v \in T : TRUE
  BY <1>1 DEF FoldsTo
<1>3. T = {Step(a, b, c, f[k - 1], s[k])}
  OBVIOUS
<1> HIDE DEF T
<1>4. f[k] = Step(a, b, c, f[k - 1], s[k])
  BY <1>2, <1>3
<1> QED
  BY <1>4 DEF f

\* When each step takes what holds with d[k - 1] to what holds with d[k], the last value
\* holds with the last of d.
LEMMA FoldAdvances ==
  ASSUME NEW a, NEW b, NEW c, NEW base, NEW s, Len(s) \in Nat, NEW d, Holds(d[0], base),
         \A k \in 1..Len(s) : \A u : Holds(d[k - 1], u) => Holds(d[k], Step(a, b, c, u, s[k]))
  PROVE  Holds(d[Len(s)], Values(a, b, c, base, s)[Len(s)])
<1> DEFINE f == Values(a, b, c, base, s)
           S == {k \in Nat : k <= Len(s) => Holds(d[k], f[k])}
<1>1. 0 \in S
  <2>1. f[0] = base
    BY FoldFirst
  <2> HIDE DEF f
  <2> QED
    BY <2>1
<1>2. ASSUME NEW k \in Nat, k \in S PROVE k + 1 \in S
  <2>1. SUFFICES ASSUME k + 1 <= Len(s) PROVE Holds(d[k + 1], f[k + 1])
    OBVIOUS
  <2>2. k + 1 \in 1..Len(s) /\ (k + 1) - 1 = k
    BY <2>1
  <2>3. f[k + 1] = Step(a, b, c, f[k], s[k + 1])
    BY <2>2, FoldNext
  <2>4. Holds(d[k], f[k])
    BY <1>2, <2>1
  <2> HIDE DEF f
  <2> QED
    BY <2>2, <2>3, <2>4
<1> HIDE DEF S
<1>3. S \subseteq Nat
  BY DEF S
<1>4. Len(s) \in S
  BY <1>1, <1>2, <1>3, SetInduction
<1> QED
  BY <1>4 DEF S

\* What holds of the base and is kept by the steps holds of the last value.
LEMMA FoldKeeps ==
  ASSUME NEW a, NEW b, NEW c, NEW base, NEW s, Len(s) \in Nat, NEW d, Holds(d, base),
         \A k \in 1..Len(s) : \A u : Holds(d, u) => Holds(d, Step(a, b, c, u, s[k]))
  PROVE  Holds(d, Values(a, b, c, base, s)[Len(s)])
<1> DEFINE f == Values(a, b, c, base, s)
           S == {k \in Nat : k <= Len(s) => Holds(d, f[k])}
<1>1. 0 \in S
  <2>1. f[0] = base
    BY FoldFirst
  <2> HIDE DEF f
  <2> QED
    BY <2>1
<1>2. ASSUME NEW k \in Nat, k \in S PROVE k + 1 \in S
  <2>1. SUFFICES ASSUME k + 1 <= Len(s) PROVE Holds(d, f[k + 1])
    OBVIOUS
  <2>2. k + 1 \in 1..Len(s) /\ (k + 1) - 1 = k
    BY <2>1
  <2>3. f[k + 1] = Step(a, b, c, f[k], s[k + 1])
    BY <2>2, FoldNext
  <2>4. Holds(d, f[k])
    BY <1>2, <2>1
  <2> HIDE DEF f
  <2> QED
    BY <2>2, <2>3, <2>4
<1> HIDE DEF S
<1>3. S \subseteq Nat
  BY DEF S
<1>4. Len(s) \in S
  BY <1>1, <1>2, <1>3, SetInduction
<1> QED
  BY <1>4 DEF S
=============================================================================

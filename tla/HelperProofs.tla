---------------------------- MODULE HelperProofs ----------------------------
(***************************************************************************)
(* What the proofs need of natural numbers, sequences and the operators of *)
(* Helpers and SequencesExt.  A sequence is one of its own elements:       *)
(* IsSeq(s); no larger set of values is ever named.                        *)
(***************************************************************************)
EXTENDS Helpers, FiniteSets, TLAPS, NaturalsInduction, WellFoundedInduction,
        SequenceTheorems, FiniteSetTheorems

\* Induction over Nat for a set: the least number outside it would contradict it.
LEMMA SetInduction ==
  ASSUME NEW S, S \subseteq Nat, 0 \in S, \A n \in Nat : n \in S => n + 1 \in S
  PROVE  Nat \subseteq S
<1> DEFINE X == Nat \ S
<1>1. SUFFICES ASSUME X # {} PROVE FALSE
  OBVIOUS
<1>2. PICK m \in X : \A n \in X : ~(<<n, m>> \in OpToRel(<, Nat))
  BY <1>1, NatLessThanWellFounded, WFMin, X \subseteq Nat
<1>3. m \in Nat /\ m # 0 /\ m - 1 \in Nat /\ m - 1 + 1 = m
  BY SMT
<1>4. m - 1 \in X
  BY <1>3, SMT
<1>5. <<m - 1, m>> \in OpToRel(<, Nat)
  BY <1>3, SMT DEF OpToRel
<1> QED
  BY <1>2, <1>4, <1>5

\* Induction over 1..n: what a number has when all smaller ones have it, all have.
LEMMA CountingInduction ==
  ASSUME NEW n \in Nat, NEW B, \A s \in 1..n : 1..(s - 1) \subseteq B => s \in B
  PROVE  1..n \subseteq B
<1> DEFINE S == {m \in Nat : m <= n => 1..m \subseteq B}
<1>1. 0 \in S
  BY 1..0 = {}
<1>2. ASSUME NEW m \in Nat, m \in S PROVE m + 1 \in S
  <2>1. SUFFICES ASSUME m + 1 <= n PROVE 1..(m + 1) \subseteq B
    OBVIOUS
  <2>2. 1..m \subseteq B
    BY <1>2, <2>1
  <2>3. m + 1 \in 1..n /\ m + 1 - 1 = m
    BY <2>1
  <2>4. m + 1 \in B
    BY <2>2, <2>3
  <2> QED
    BY <2>2, <2>4
<1> HIDE DEF S
<1>3. S \subseteq Nat
  BY DEF S
<1>4. n \in S
  BY <1>1, <1>2, <1>3, SetInduction
<1> QED
  BY <1>4 DEF S

\* A set of numbers that is not empty has a least one.
LEMMA MinExists ==
  ASSUME NEW X, X \subseteq Nat, X # {}
  PROVE  MinOf(X) \in X /\ \A y \in X : MinOf(X) <= y
<1>1. PICK m \in X : \A n \in X : ~(<<n, m>> \in OpToRel(<, Nat))
  BY NatLessThanWellFounded, WFMin
<1>2. \A n \in X : m <= n
  <2>1. SUFFICES ASSUME NEW n \in X, ~(m <= n) PROVE FALSE
    OBVIOUS
  <2>2. <<n, m>> \in OpToRel(<, Nat)
    BY <2>1, SMT DEF OpToRel
  <2> QED
    BY <1>1, <2>2
<1> QED
  BY <1>2 DEF MinOf

\* ... and a greatest one, if it is bounded.
LEMMA MaxExists ==
  ASSUME NEW X, NEW n \in Nat, X \subseteq 0..n, X # {}
  PROVE  MaxOf(X) \in X /\ \A y \in X : y <= MaxOf(X)
<1> DEFINE Y == {n - x : x \in X}
<1>1. Y \subseteq Nat /\ Y # {}
  <2>1. \A x \in X : n - x \in Nat
    OBVIOUS
  <2> QED
    BY <2>1
<1>2. MinOf(Y) \in Y /\ \A y \in Y : MinOf(Y) <= y
  BY <1>1, MinExists
<1>3. PICK m \in X : MinOf(Y) = n - m
  BY <1>2
<1>4. \A y \in X : y <= m
  <2>1. SUFFICES ASSUME NEW y \in X PROVE y <= m
    OBVIOUS
  <2>2. n - y \in Y
    OBVIOUS
  <2>3. n - m <= n - y
    BY <1>2, <1>3, <2>2
  <2>4. y \in Int /\ m \in Int
    OBVIOUS
  <2> HIDE DEF Y
  <2> QED
    BY <2>3, <2>4
<1> QED
  BY <1>4 DEF MaxOf

-----------------------------------------------------------------------------
(* Sequences.                                                              *)

\* The indices of a sequence, and a sequence over any set is one.
LEMMA SeqFacts ==
  ASSUME NEW s, IsSeq(s)
  PROVE  Len(s) \in Nat /\ DOMAIN s = 1..Len(s)
BY LenProperties DEF IsSeq

\* A sequence over some set is a sequence.
LEMMA SeqIntro ==
  ASSUME NEW S, NEW s \in Seq(S)
  PROVE  IsSeq(s)
<1>1. Len(s) \in Nat /\ DOMAIN s = 1..Len(s) /\ s \in [1..Len(s) -> S]
  BY LenProperties
<1>2. s \in [1..Len(s) -> ToSet(s)]
  BY <1>1 DEF ToSet
<1> QED
  BY <1>1, <1>2, SeqDef DEF IsSeq

\* A function on 1..n is a sequence of length n.
LEMMA FunctionIsSeq ==
  ASSUME NEW n \in Nat, NEW s, s = [i \in 1..n |-> s[i]]
  PROVE  IsSeq(s) /\ Len(s) = n
<1>1. DOMAIN s = 1..n
  OBVIOUS
<1>2. s \in [1..n -> ToSet(s)]
  BY <1>1 DEF ToSet
<1>3. s \in Seq(ToSet(s))
  BY <1>2, SeqDef
<1>4. Len(s) \in Nat /\ 1..Len(s) = 1..n
  BY <1>1, <1>3, LenProperties
<1>5. Len(s) = n
  <2>1. CASE n = 0
    <3>1. ~(1 \in 1..Len(s))
      BY <1>4, <2>1
    <3> QED
      BY <1>4, <2>1, <3>1
  <2>2. CASE n # 0
    <3>1. n \in 1..Len(s) /\ n + 1 \notin 1..Len(s)
      BY <1>4, <2>2
    <3> QED
      BY <1>4, <3>1
  <2> QED
    BY <2>1, <2>2
<1> QED
  BY <1>3, <1>5 DEF IsSeq

\* Sequences with the same elements are the same.
LEMMA SameSeq ==
  ASSUME NEW s, IsSeq(s), NEW r, IsSeq(r), Len(s) = Len(r), \A i \in 1..Len(s) : s[i] = r[i]
  PROVE  s = r
<1>1. s = [i \in 1..Len(s) |-> s[i]] /\ r = [i \in 1..Len(r) |-> r[i]]
  BY LenProperties DEF IsSeq
<1> QED
  BY <1>1

\* The empty sequence.
LEMMA EmptyFacts == IsSeq(<<>>) /\ Len(<<>>) = 0 /\ ToSet(<<>>) = {}
BY EmptySeq DEF IsSeq, ToSet

\* A sequence of one element.
LEMMA SingleFacts ==
  ASSUME NEW e
  PROVE  IsSeq(<<e>>) /\ Len(<<e>>) = 1 /\ <<e>>[1] = e /\ ToSet(<<e>>) = {e}
<1>1. <<e>> \in Seq({e}) /\ Len(<<e>>) = 1 /\ <<e>>[1] = e /\ DOMAIN <<e>> = {1}
  OBVIOUS
<1>2. ToSet(<<e>>) = {e}
  BY <1>1 DEF ToSet
<1> QED
  BY <1>1, <1>2, SeqIntro

\* A sequence with an element more.
LEMMA AppendFacts ==
  ASSUME NEW s, IsSeq(s), NEW e
  PROVE  /\ IsSeq(Append(s, e)) /\ Len(Append(s, e)) = Len(s) + 1
         /\ DOMAIN Append(s, e) = 1..(Len(s) + 1)
         /\ \A i \in 1..Len(s) : Append(s, e)[i] = s[i]
         /\ Append(s, e)[Len(s) + 1] = e
         /\ ToSet(Append(s, e)) = ToSet(s) \cup {e}
<1> DEFINE S == ToSet(s) \cup {e}
           u == Append(s, e)
<1>1. s \in Seq(S) /\ Len(s) \in Nat /\ DOMAIN s = 1..Len(s)
  BY SeqMonotonic, SeqFacts DEF IsSeq
<1>2. /\ u \in Seq(S) /\ Len(u) = Len(s) + 1
      /\ \A i \in 1..Len(s) : u[i] = s[i] 
      /\ u[Len(s) + 1] = e
  BY <1>1, AppendProperties
<1>3. IsSeq(u) /\ DOMAIN u = 1..(Len(s) + 1)
  BY <1>2, SeqIntro, SeqFacts
<1> HIDE DEF u
<1>4. ToSet(u) = ToSet(s) \cup {e}
  BY <1>1, <1>2, <1>3 DEF ToSet
<1> QED
  BY <1>2, <1>3, <1>4 DEF u

\* A sequence with one element replaced.
LEMMA ExceptFacts ==
  ASSUME NEW s, IsSeq(s), NEW k \in 1..Len(s), NEW e
  PROVE  /\ IsSeq([s EXCEPT ![k] = e]) /\ Len([s EXCEPT ![k] = e]) = Len(s)
         /\ [s EXCEPT ![k] = e][k] = e
         /\ \A i \in 1..Len(s) : i # k => [s EXCEPT ![k] = e][i] = s[i]
<1> DEFINE n == Len(s)
           u == [s EXCEPT ![k] = e]
<1>1. n \in Nat /\ DOMAIN s = 1..n
  BY SeqFacts
<1>2. u = [i \in 1..n |-> u[i]] /\ u[k] = e /\ \A i \in 1..n : i # k => u[i] = s[i]
  BY <1>1
<1> HIDE DEF u, n
<1>3. IsSeq(u) /\ Len(u) = n
  BY <1>1, <1>2, FunctionIsSeq
<1> QED
  BY <1>2, <1>3 DEF u, n

\* Contains asks for an element.
LEMMA ContainsFacts ==
  ASSUME NEW s, IsSeq(s), NEW e
  PROVE  Contains(s, e) <=> e \in ToSet(s)
<1>1. DOMAIN s = 1..Len(s)
  BY SeqFacts
<1> QED
  BY <1>1 DEF Contains, ToSet

\* Two sequences, one after the other.
LEMMA ConcatFacts ==
  ASSUME NEW s, IsSeq(s), NEW t, IsSeq(t)
  PROVE  /\ IsSeq(s \o t) /\ Len(s \o t) = Len(s) + Len(t)
         /\ \A i \in 1..(Len(s) + Len(t)) : (s \o t)[i] = IF i <= Len(s) THEN s[i] ELSE t[i - Len(s)]
         /\ ToSet(s \o t) = ToSet(s) \cup ToSet(t)
<1> DEFINE S == ToSet(s) \cup ToSet(t)
           u == s \o t
<1>1. /\ s \in Seq(S) /\ Len(s) \in Nat /\ DOMAIN s = 1..Len(s)
      /\ t \in Seq(S) /\ Len(t) \in Nat /\ DOMAIN t = 1..Len(t)
  BY SeqMonotonic, SeqFacts DEF IsSeq
<1>2. /\ u \in Seq(S) /\ Len(u) = Len(s) + Len(t)
      /\ \A i \in 1..(Len(s) + Len(t)) : u[i] = IF i <= Len(s) THEN s[i] ELSE t[i - Len(s)]
  BY <1>1, ConcatProperties
<1>3. IsSeq(u) /\ DOMAIN u = 1..(Len(s) + Len(t))
  BY <1>2, SeqIntro, SeqFacts
<1> HIDE DEF u
<1>4. ToSet(u) = ToSet(s) \cup ToSet(t)
  <2>1. ASSUME NEW i \in 1..Len(u) PROVE u[i] \in ToSet(s) \cup ToSet(t)
    BY <1>1, <1>2, <2>1 DEF ToSet
  <2>2. ASSUME NEW i \in 1..Len(s) PROVE s[i] \in ToSet(u)
    BY <1>1, <1>2, <1>3 DEF ToSet
  <2>3. ASSUME NEW i \in 1..Len(t) PROVE t[i] \in ToSet(u)
    <3>1. Len(s) + i \in 1..(Len(s) + Len(t)) /\ u[Len(s) + i] = t[i]
      BY <1>1, <1>2
    <3> QED
      BY <1>3, <3>1 DEF ToSet
  <2> QED
    BY <1>1, <1>2, <1>3, <2>1, <2>2, <2>3 DEF ToSet
<1> QED
  BY <1>2, <1>3, <1>4 DEF u

\* A part of a sequence.
LEMMA SubSeqFacts ==
  ASSUME NEW s, IsSeq(s), NEW m \in 1..(Len(s) + 1), NEW n \in 0..Len(s)
  PROVE  /\ IsSeq(SubSeq(s, m, n)) /\ Len(SubSeq(s, m, n)) = IF m <= n THEN n - m + 1 ELSE 0
         /\ \A i \in 1..(n - m + 1) : SubSeq(s, m, n)[i] = s[m + i - 1]
<1>0. Len(s) \in Nat /\ DOMAIN s = 1..Len(s)
  BY SeqFacts
<1>1. \A i \in m..n : s[i] \in ToSet(s)
  BY <1>0 DEF ToSet
<1>2. /\ SubSeq(s, m, n) \in Seq(ToSet(s)) /\ Len(SubSeq(s, m, n)) = IF m <= n THEN n - m + 1 ELSE 0
      /\ \A i \in 1..(n - m + 1) : SubSeq(s, m, n)[i] = s[m + i - 1]
  BY <1>0, <1>1, SubSeqProperties
<1> QED
  BY <1>2, SeqIntro

\* A sequence without its first element.
LEMMA TailFacts ==
  ASSUME NEW s, IsSeq(s), s # <<>>
  PROVE  /\ Len(s) > 0 /\ Head(s) = s[1]
         /\ IsSeq(Tail(s)) /\ Len(Tail(s)) = Len(s) - 1
         /\ \A i \in 1..(Len(s) - 1) : Tail(s)[i] = s[i + 1]
<1>1. s \in Seq(ToSet(s))
  BY DEF IsSeq
<1>2. /\ Tail(s) \in Seq(ToSet(s)) /\ Len(Tail(s)) = Len(s) - 1
      /\ \A i \in 1..Len(Tail(s)) : Tail(s)[i] = s[i + 1]
  BY <1>1, HeadTailProperties
<1>3. Len(s) > 0 /\ Head(s) = s[1]
  BY <1>1, EmptySeq
<1> QED
  BY <1>2, <1>3, SeqIntro

\* A sequence with an element put in at a place.
LEMMA InsertAtFacts ==
  ASSUME NEW s, IsSeq(s), NEW k \in 1..(Len(s) + 1), NEW e
  PROVE  /\ IsSeq(InsertAt(s, k, e)) /\ Len(InsertAt(s, k, e)) = Len(s) + 1
         /\ \A i \in 1..(k - 1) : InsertAt(s, k, e)[i] = s[i]
         /\ InsertAt(s, k, e)[k] = e
         /\ \A i \in (k + 1)..(Len(s) + 1) : InsertAt(s, k, e)[i] = s[i - 1]
<1> DEFINE a == SubSeq(s, 1, k - 1)
           b == SubSeq(s, k, Len(s))
           t == a \o <<e>>
<1>0. Len(s) \in Nat
  BY SeqFacts
<1>1. IsSeq(a) /\ Len(a) = k - 1 /\ \A i \in 1..(k - 1) : a[i] = s[i]
  <2>1. 1 \in 1..(Len(s) + 1) /\ k - 1 \in 0..Len(s)
    BY <1>0
  <2>2. /\ IsSeq(a) /\ Len(a) = IF 1 <= k - 1 THEN (k - 1) - 1 + 1 ELSE 0
        /\ \A i \in 1..((k - 1) - 1 + 1) : a[i] = s[1 + i - 1]
    BY <2>1, SubSeqFacts
  <2> HIDE DEF a
  <2> QED
    BY <1>0, <2>2
<1>2. IsSeq(b) /\ Len(b) = Len(s) - k + 1 /\ \A i \in 1..(Len(s) - k + 1) : b[i] = s[k + i - 1]
  <2>1. Len(s) \in 0..Len(s)
    BY <1>0
  <2>2. /\ IsSeq(b) /\ Len(b) = IF k <= Len(s) THEN Len(s) - k + 1 ELSE 0
        /\ \A i \in 1..(Len(s) - k + 1) : b[i] = s[k + i - 1]
    BY <2>1, SubSeqFacts
  <2> HIDE DEF b
  <2> QED
    BY <1>0, <2>2
<1> HIDE DEF a, b
<1>3. /\ IsSeq(t) /\ Len(t) = k
      /\ \A i \in 1..k : t[i] = IF i <= k - 1 THEN s[i] ELSE e
  <2>1. /\ IsSeq(t) /\ Len(t) = k - 1 + 1
        /\ \A i \in 1..(k - 1 + 1) : t[i] = IF i <= k - 1 THEN a[i] ELSE <<e>>[i - (k - 1)]
    BY <1>1, ConcatFacts, SingleFacts
  <2> HIDE DEF t
  <2>2. ASSUME NEW i \in 1..k PROVE t[i] = IF i <= k - 1 THEN s[i] ELSE e
    BY <1>1, <2>1, SingleFacts
  <2> QED
    BY <1>0, <2>1, <2>2
<1> HIDE DEF t
<1> DEFINE u == t \o b
<1>4. /\ IsSeq(u) /\ Len(u) = k + (Len(s) - k + 1)
      /\ \A i \in 1..(k + (Len(s) - k + 1)) : u[i] = IF i <= k THEN t[i] ELSE b[i - k]
  BY <1>2, <1>3, ConcatFacts
<1>5. InsertAt(s, k, e) = u
  BY DEF InsertAt, a, b, t
<1> HIDE DEF u
<1>6. Len(u) = Len(s) + 1
  BY <1>0, <1>4
<1>7. \A i \in 1..(k - 1) : u[i] = s[i]
  BY <1>0, <1>3, <1>4
<1>8. u[k] = e
  BY <1>0, <1>3, <1>4
<1>9. ASSUME NEW i \in (k + 1)..(Len(s) + 1) PROVE u[i] = s[i - 1]
  <2>1. i - k \in 1..(Len(s) - k + 1) /\ k + (i - k) - 1 = i - 1 /\ ~(i <= k) /\ i \in 1..(k + (Len(s) - k + 1))
    BY <1>0
  <2> QED
    BY <1>2, <1>4, <2>1
<1> QED
  BY <1>4, <1>5, <1>6, <1>7, <1>8, <1>9

\* A sequence with one element taken out.
LEMMA RemoveAtFacts ==
  ASSUME NEW s, IsSeq(s), NEW k \in 1..Len(s)
  PROVE  /\ IsSeq(RemoveAt(s, k)) /\ Len(RemoveAt(s, k)) = Len(s) - 1
         /\ \A i \in 1..(k - 1) : RemoveAt(s, k)[i] = s[i]
         /\ \A i \in k..(Len(s) - 1) : RemoveAt(s, k)[i] = s[i + 1]
<1> DEFINE a == SubSeq(s, 1, k - 1)
           b == SubSeq(s, k + 1, Len(s))
           u == a \o b
<1>0. Len(s) \in Nat
  BY SeqFacts
<1>1. IsSeq(a) /\ Len(a) = k - 1 /\ \A i \in 1..(k - 1) : a[i] = s[i]
  <2>1. 1 \in 1..(Len(s) + 1) /\ k - 1 \in 0..Len(s)
    BY <1>0
  <2>2. /\ IsSeq(a) /\ Len(a) = IF 1 <= k - 1 THEN (k - 1) - 1 + 1 ELSE 0
        /\ \A i \in 1..((k - 1) - 1 + 1) : a[i] = s[1 + i - 1]
    BY <2>1, SubSeqFacts
  <2> HIDE DEF a
  <2> QED
    BY <1>0, <2>2
<1>2. IsSeq(b) /\ Len(b) = Len(s) - k /\ \A i \in 1..(Len(s) - k) : b[i] = s[k + i]
  <2>1. k + 1 \in 1..(Len(s) + 1) /\ Len(s) \in 0..Len(s)
    BY <1>0
  <2>2. /\ IsSeq(b) /\ Len(b) = IF k + 1 <= Len(s) THEN Len(s) - (k + 1) + 1 ELSE 0
        /\ \A i \in 1..(Len(s) - (k + 1) + 1) : b[i] = s[(k + 1) + i - 1]
    BY <2>1, SubSeqFacts
  <2> HIDE DEF b
  <2> QED
    BY <1>0, <2>2
<1>3. /\ IsSeq(u) /\ Len(u) = (k - 1) + (Len(s) - k)
      /\ \A i \in 1..((k - 1) + (Len(s) - k)) : u[i] = IF i <= k - 1 THEN a[i] ELSE b[i - (k - 1)]
  <2> HIDE DEF a, b
  <2>1. /\ IsSeq(u) /\ Len(u) = Len(a) + Len(b)
        /\ \A i \in 1..(Len(a) + Len(b)) : u[i] = IF i <= Len(a) THEN a[i] ELSE b[i - Len(a)]
    BY <1>1, <1>2, ConcatFacts
  <2> HIDE DEF u
  <2> QED
    BY <1>1, <1>2, <2>1
<1>4. RemoveAt(s, k) = u
  BY DEF RemoveAt
<1> HIDE DEF a, b, u
<1>5. Len(u) = Len(s) - 1
  BY <1>0, <1>3
<1>6. \A i \in 1..(k - 1) : u[i] = s[i]
  BY <1>0, <1>1, <1>3
<1>7. ASSUME NEW i \in k..(Len(s) - 1) PROVE u[i] = s[i + 1]
  <2>1. i - (k - 1) \in 1..(Len(s) - k) /\ k + (i - (k - 1)) = i + 1 /\ ~(i <= k - 1)
        /\ i \in 1..((k - 1) + (Len(s) - k))
    BY <1>0
  <2> QED
    BY <1>2, <1>3, <2>1
<1> QED
  BY <1>3, <1>4, <1>5, <1>6, <1>7

\* f is the function that FlattenSeq defines, as far as m.
FlattensTo(ss, m, f) == f = [i \in 1..m |-> IF i = 1 THEN ss[i] ELSE f[i-1] \o ss[i]]

\* It begins with the first sequence.
LEMMA FlattensFirst ==
  ASSUME NEW ss, NEW m \in Nat, m > 0, NEW f, FlattensTo(ss, m, f)
  PROVE  f[1] = ss[1]
BY DEF FlattensTo

\* Each value is the one before it and one more sequence.
LEMMA FlattensNext ==
  ASSUME NEW ss, NEW m \in Nat, NEW f, FlattensTo(ss, m, f), NEW i \in 1..(m - 1)
  PROVE  f[i + 1] = f[i] \o ss[i + 1]
<1>1. \A k \in 1..m : f[k] = IF k = 1 THEN ss[k] ELSE f[k-1] \o ss[k]
  BY DEF FlattensTo
<1>2. i + 1 \in 1..m /\ i + 1 # 1 /\ (i + 1) - 1 = i
  OBVIOUS
<1> QED
  BY <1>1, <1>2

\* There is such a function for any number of sequences.
LEMMA FlattenExists ==
  ASSUME NEW ss, NEW n \in Nat
  PROVE  \E f : FlattensTo(ss, n, f)
<1> DEFINE S == {m \in Nat : \E f : FlattensTo(ss, m, f)}
<1>1. 0 \in S
  <2>1. FlattensTo(ss, 0, [i \in 1..0 |-> 0])
    BY DEF FlattensTo
  <2> QED
    BY <2>1
<1>2. ASSUME NEW m \in Nat, m \in S PROVE m + 1 \in S
  <2>1. PICK f : FlattensTo(ss, m, f)
    BY <1>2
  <2> DEFINE h == [i \in 1..(m + 1) |-> IF i = 1 THEN ss[i] ELSE f[i-1] \o ss[i]]
  <2>2. \A i \in 1..m : f[i] = IF i = 1 THEN ss[i] ELSE f[i-1] \o ss[i]
    BY <2>1 DEF FlattensTo
  <2>3. \A i \in 1..m : h[i] = f[i]
    BY <2>2
  <2>4. ASSUME NEW i \in 1..(m + 1) PROVE h[i] = IF i = 1 THEN ss[i] ELSE h[i-1] \o ss[i]
    <3>1. CASE i = 1
      BY <3>1
    <3>2. CASE i # 1
      <4>1. i - 1 \in 1..m
        BY <3>2
      <4>2. h[i] = f[i-1] \o ss[i]
        BY <3>2
      <4> QED
        BY <2>3, <3>2, <4>1, <4>2
    <3> QED
      BY <3>1, <3>2
  <2>5. h = [i \in 1..(m + 1) |-> h[i]]
    OBVIOUS
  <2> HIDE DEF h
  <2>6. h = [i \in 1..(m + 1) |-> IF i = 1 THEN ss[i] ELSE h[i-1] \o ss[i]]
    BY <2>4, <2>5
  <2>7. FlattensTo(ss, m + 1, h)
    BY <2>6 DEF FlattensTo
  <2> QED
    BY <2>7
<1> HIDE DEF S
<1>3. S \subseteq Nat
  BY DEF S
<1>4. n \in S
  BY <1>1, <1>2, <1>3, SetInduction
<1> QED
  BY <1>4 DEF S

\* The elements of the sequences up to the last one.
LEMMA FlattenedUpTo ==
  ASSUME NEW ss, NEW n \in Nat, n > 0, \A k \in 1..n : IsSeq(ss[k]), NEW f, FlattensTo(ss, n, f)
  PROVE  IsSeq(f[n]) /\ ToSet(f[n]) = UNION {ToSet(ss[k]) : k \in 1..n}
<1> DEFINE T == {m \in Nat : m + 1 <= n => /\ IsSeq(f[m + 1])
                                          /\ ToSet(f[m + 1]) = UNION {ToSet(ss[k]) : k \in 1..(m + 1)}}
<1>1. f[1] = ss[1] /\ \A m \in 1..(n - 1) : f[m + 1] = f[m] \o ss[m + 1]
  BY FlattensFirst, FlattensNext
<1>2. 0 \in T
  <2>1. f[0 + 1] = ss[1] /\ IsSeq(ss[1]) /\ 1..(0 + 1) = {1}
    BY <1>1
  <2> QED
    BY <2>1
<1>3. ASSUME NEW m \in Nat, m \in T PROVE m + 1 \in T
  <2>1. SUFFICES ASSUME (m + 1) + 1 <= n
                 PROVE  /\ IsSeq(f[(m + 1) + 1])
                        /\ ToSet(f[(m + 1) + 1]) = UNION {ToSet(ss[k]) : k \in 1..((m + 1) + 1)}
    OBVIOUS
  <2>2. m + 1 \in 1..(n - 1) /\ (m + 1) + 1 \in 1..n /\ m + 1 <= n
    BY <2>1
  <2>3. f[(m + 1) + 1] = f[m + 1] \o ss[(m + 1) + 1] /\ IsSeq(ss[(m + 1) + 1])
    BY <1>1, <2>2
  <2>4. IsSeq(f[m + 1]) /\ ToSet(f[m + 1]) = UNION {ToSet(ss[k]) : k \in 1..(m + 1)}
    BY <1>3, <2>2
  <2>5. IsSeq(f[(m + 1) + 1]) /\ ToSet(f[(m + 1) + 1]) = ToSet(f[m + 1]) \cup ToSet(ss[(m + 1) + 1])
    BY <2>3, <2>4, ConcatFacts
  <2>6. 1..((m + 1) + 1) = (1..(m + 1)) \cup {(m + 1) + 1}
    OBVIOUS
  <2> QED
    BY <2>4, <2>5, <2>6
<1>4. n - 1 \in T
  <2> HIDE DEF T
  <2>1. T \subseteq Nat /\ n - 1 \in Nat
    BY DEF T
  <2> QED
    BY <1>2, <1>3, <2>1, SetInduction
<1>5. (n - 1) + 1 = n
  OBVIOUS
<1> QED
  BY <1>4, <1>5

\* The elements of a sequence of sequences, one after the other.
LEMMA FlattenFacts ==
  ASSUME NEW ss, IsSeq(ss), \A k \in 1..Len(ss) : IsSeq(ss[k])
  PROVE  IsSeq(FlattenSeq(ss)) /\ ToSet(FlattenSeq(ss)) = UNION {ToSet(ss[k]) : k \in 1..Len(ss)}
<1> DEFINE f == CHOOSE f : FlattensTo(ss, Len(ss), f)
<1>0. Len(ss) \in Nat
  BY SeqFacts
<1>1. CASE Len(ss) = 0
  <2>1. ss = <<>>
    BY <1>1, EmptySeq DEF IsSeq
  <2> QED
    BY <1>1, <2>1, EmptyFacts DEF FlattenSeq
<1>2. CASE Len(ss) # 0
  <2>1. FlattensTo(ss, Len(ss), f)
    BY <1>0, FlattenExists
  <2>2. FlattenSeq(ss) = f[Len(ss)]
    BY <1>2 DEF FlattenSeq, FlattensTo
  <2> HIDE DEF f
  <2>3. Len(ss) > 0
    BY <1>0, <1>2
  <2>4. IsSeq(f[Len(ss)]) /\ ToSet(f[Len(ss)]) = UNION {ToSet(ss[k]) : k \in 1..Len(ss)}
    BY <1>0, <2>1, <2>3, FlattenedUpTo
  <2> QED
    BY <2>2, <2>4
<1> QED
  BY <1>1, <1>2

\* A finite set in some order.
LEMMA SetToSeqFacts ==
  ASSUME NEW S, IsFiniteSet(S)
  PROVE  IsSeq(SetToSeq(S)) /\ ToSet(SetToSeq(S)) \subseteq S
<1>2. Cardinality(S) \in Nat /\ ExistsBijection(1..Cardinality(S), S)
  BY FS_CardinalityType
<1>3. PICK f : f \in Bijection(1..Cardinality(S), S)
  BY <1>2 DEF ExistsBijection
<1>4. f \in [1..Cardinality(S) -> S] /\ IsInjective(f)
  BY <1>3 DEF Bijection, Injection
<1>5. SetToSeq(S) \in [1..Cardinality(S) -> S]
  BY <1>4 DEF SetToSeq
<1> QED
  BY <1>2, <1>5, SeqDef, SeqIntro DEF ToSet
=============================================================================

--------------------------- MODULE LanguageProofs ---------------------------
(***************************************************************************)
(* From the engine to the language: an input that GLR accepts is one that  *)
(* the grammar derives.                                                    *)
(*                                                                         *)
(* First, Derived, the reference language of Grammar, is what it is meant  *)
(* to be: a set of spans of the text that holds the tokens and is closed   *)
(* under the rules.  It is computed as a fixpoint; that the computation is *)
(* defined and ends at a fixpoint is shown by induction on the number of   *)
(* spans that are missing.  Then the links of the engine, which implements *)
(* GSS by GLRProofs, are put through the soundness of GSSProofs, with what *)
(* the grammar derives as the meaning of a link.                           *)
(***************************************************************************)
EXTENDS GLRProofs, Grammar

\* A grammar is finite: a sequence of rules, each a sequence, and words for its terminals.
FiniteGrammar(gr) ==
  /\ IsSeq(gr.rules) /\ \A r \in DOMAIN gr.rules : IsSeq(gr.rules[r].rhs)
  /\ IsFiniteSet(Terminals(gr)) /\ \A t \in Terminals(gr) : IsSeq(gr.spell[t])

-----------------------------------------------------------------------------
(* The tokens.                                                             *)

\* Blanks are skipped up to a location, behind blanks only, and no farther than the last.
LEMMA SkipBlanksOK ==
  ASSUME NEW text, IsSeq(text), NEW blank, NEW i \in 0..Len(text)
  PROVE  LET j == SkipBlanks(text, blank, i)
         IN  /\ j \in i..Len(text) /\ \A k \in (i + 1)..j : text[k] = blank
             /\ j < Len(text) => text[j + 1] # blank
<1> DEFINE n == Len(text)
           Run(j) == \A k \in (i + 1)..j : text[k] = blank
           js == {j \in i..n : Run(j)}
           m == MaxOf(js)
           Ends(j) == Run(j) /\ (j < n => text[j + 1] # blank)
<1>1. n \in Nat
  BY SeqFacts
<1>2. js \subseteq 0..n
  BY <1>1
<1>3. i \in js
  BY <1>1
<1> HIDE DEF n
<1>4. m \in js /\ \A y \in js : y <= m
  <2> HIDE DEF js
  <2>1. js # {}
    BY <1>3
  <2> QED
    BY <1>1, <1>2, <2>1, MaxExists
<1> HIDE DEF m
<1>5. m \in i..n /\ Run(m)
  BY <1>4
<1>6. Ends(m)
  <2>1. SUFFICES ASSUME m < n, text[m + 1] = blank PROVE FALSE
    BY <1>5
  <2>2. m + 1 \in i..n
    BY <1>1, <1>5, <2>1
  <2>3. Run(m + 1)
    <3>1. SUFFICES ASSUME NEW k \in (i + 1)..(m + 1) PROVE text[k] = blank
      OBVIOUS
    <3>2. k \in (i + 1)..m \/ k = m + 1
      BY <1>5
    <3> QED
      BY <1>5, <2>1, <3>2
  <2>4. m + 1 <= m
    BY <1>4, <2>2, <2>3
  <2> QED
    BY <1>5, <2>4
<1>7. SkipBlanks(text, blank, i) = CHOOSE j \in i..n : Ends(j)
  BY DEF SkipBlanks, n
<1> HIDE DEF Ends
<1>8. SkipBlanks(text, blank, i) \in i..n /\ Ends(SkipBlanks(text, blank, i))
  BY <1>5, <1>6, <1>7
<1> QED
  BY <1>8 DEF Ends, n

\* A token is a span of the text.
LEMMA TokensWithin ==
  ASSUME NEW gr, FiniteGrammar(gr), NEW text, IsSeq(text), NEW blank
  PROVE  TokenSpans(gr, text, blank) \subseteq Triples(gr, text)
<1>1. SUFFICES ASSUME NEW t \in Terminals(gr), NEW i \in 0..Len(text), MatchesAt(gr, text, t, i)
               PROVE  <<t, i, SkipBlanks(text, blank, i + Len(gr.spell[t]))>> \in Triples(gr, text)
  BY DEF TokenSpans
<1>2. Len(text) \in Nat /\ Len(gr.spell[t]) \in Nat
  BY SeqFacts DEF FiniteGrammar
<1>3. i + Len(gr.spell[t]) \in 0..Len(text)
  BY <1>1, <1>2 DEF MatchesAt
<1>4. SkipBlanks(text, blank, i + Len(gr.spell[t])) \in (i + Len(gr.spell[t]))..Len(text)
  BY <1>3, SkipBlanksOK
<1>5. SkipBlanks(text, blank, i + Len(gr.spell[t])) \in 0..Len(text)
  BY <1>2, <1>3, <1>4
<1> QED
  BY <1>5 DEF Triples

-----------------------------------------------------------------------------
(* One rule.                                                               *)

EndStep(X, b, c, P, s) == {x[3] : x \in {y \in X : y[1] = s /\ y[2] \in P}}
EndHolds(d, P) == P \subseteq d
EndFold == INSTANCE Folding WITH Step <- EndStep, Holds <- EndHolds

\* The elements of a rule end at locations of the text.
LEMMA EndsWithin ==
  ASSUME NEW gr, NEW text, NEW X, X \subseteq Triples(gr, text),
         NEW rhs, IsSeq(rhs), NEW i \in 0..Len(text)
  PROVE  EndsOf(X, rhs, i) \subseteq 0..Len(text)
<1> DEFINE d == 0..Len(text)
<1>1. EndsOf(X, rhs, i) = EndFold!Values(X, 0, 0, {i}, rhs)[Len(rhs)]
  BY DEF EndsOf, EndStep, EndFold!Values, EndFold!FoldsTo, FoldSteps
<1>2. Len(rhs) \in Nat
  BY SeqFacts
<1>3. EndHolds(d, {i})
  BY DEF EndHolds
<1>4. \A k \in 1..Len(rhs) : \A P : EndHolds(d, P) => EndHolds(d, EndStep(X, 0, 0, P, rhs[k]))
  BY DEF EndHolds, EndStep, Triples
<1> HIDE DEF d
<1>5. EndHolds(d, EndFold!Values(X, 0, 0, {i}, rhs)[Len(rhs)])
  BY <1>2, <1>3, <1>4, EndFold!FoldKeeps
<1> QED
  BY <1>1, <1>5 DEF EndHolds, d

\* Spans of the elements that follow one another end where the last one does.
LEMMA SplitEnds ==
  ASSUME NEW X, NEW rhs, IsSeq(rhs), NEW at,
         \A k \in 1..Len(rhs) : <<rhs[k], at[k - 1], at[k]>> \in X
  PROVE  at[Len(rhs)] \in EndsOf(X, rhs, at[0])
<1> DEFINE f == EndFold!Values(X, 0, 0, {at[0]}, rhs)
           S == {k \in Nat : k <= Len(rhs) => at[k] \in f[k]}
<1>1. EndsOf(X, rhs, at[0]) = f[Len(rhs)]
  BY DEF EndsOf, EndStep, EndFold!Values, EndFold!FoldsTo, FoldSteps
<1>2. Len(rhs) \in Nat
  BY SeqFacts
<1>3. 0 \in S
  <2>1. f[0] = {at[0]}
    BY <1>2, EndFold!FoldFirst
  <2> HIDE DEF f
  <2> QED
    BY <2>1
<1>4. ASSUME NEW k \in Nat, k \in S PROVE k + 1 \in S
  <2>1. SUFFICES ASSUME k + 1 <= Len(rhs) PROVE at[k + 1] \in f[k + 1]
    OBVIOUS
  <2>2. k + 1 \in 1..Len(rhs) /\ (k + 1) - 1 = k
    BY <1>2, <2>1
  <2>3. f[k + 1] = EndStep(X, 0, 0, f[k], rhs[k + 1])
    BY <1>2, <2>2, EndFold!FoldNext
  <2>4. at[k] \in f[k]
    BY <1>2, <1>4, <2>1
  <2>5. <<rhs[k + 1], at[k], at[k + 1]>> \in X
    BY <2>2
  <2> HIDE DEF f
  <2> QED
    BY <2>3, <2>4, <2>5 DEF EndStep
<1> HIDE DEF S
<1>5. S \subseteq Nat
  BY DEF S
<1>6. Len(rhs) \in S
  BY <1>2, <1>3, <1>4, <1>5, SetInduction
<1> HIDE DEF f
<1> QED
  BY <1>1, <1>2, <1>6 DEF S

\* A rule makes spans of the text of spans of the text.
LEMMA DeriveWithin ==
  ASSUME NEW gr, FiniteGrammar(gr), NEW text, NEW X, X \subseteq Triples(gr, text)
  PROVE  Derive(gr, text, X) \subseteq Triples(gr, text)
<1>1. SUFFICES ASSUME NEW r \in DOMAIN gr.rules, NEW i \in 0..Len(text),
                      NEW j \in EndsOf(X, gr.rules[r].rhs, i)
               PROVE  <<gr.rules[r].lhs, i, j>> \in Triples(gr, text)
  BY DEF Derive
<1>2. IsSeq(gr.rules[r].rhs)
  BY DEF FiniteGrammar
<1>3. j \in 0..Len(text)
  BY <1>2, EndsWithin
<1> QED
  BY <1>3 DEF Triples, NonTerms

-----------------------------------------------------------------------------
(* The fixpoint.                                                           *)

\* Every set of spans is finite.
LEMMA TriplesFinite ==
  ASSUME NEW gr, FiniteGrammar(gr), NEW text, IsSeq(text)
  PROVE  IsFiniteSet(Triples(gr, text))
<1> DEFINE At == 0..Len(text)
           Symbols == NonTerms(gr) \cup Terminals(gr)
<1>1. Len(text) \in Nat /\ Len(gr.rules) \in Nat /\ DOMAIN gr.rules = 1..Len(gr.rules)
  BY SeqFacts DEF FiniteGrammar
<1>2. IsFiniteSet(At)
  BY <1>1, FS_Interval
<1>3. IsFiniteSet(NonTerms(gr))
  <2> DEFINE lhs == [r \in DOMAIN gr.rules |-> gr.rules[r].lhs]
  <2>1. lhs \in Surjection(DOMAIN gr.rules, NonTerms(gr))
    BY DEF Surjection, NonTerms
  <2>2. IsFiniteSet(DOMAIN gr.rules)
    <3>1. IsFiniteSet(1..Len(gr.rules))
      BY <1>1, FS_Interval
    <3> QED
      BY <1>1, <3>1
  <2> HIDE DEF lhs
  <2> QED
    BY <2>1, <2>2, FS_Surjection
<1>4. IsFiniteSet(Symbols)
  BY <1>3, FS_Union DEF FiniteGrammar
<1> HIDE DEF At, Symbols
<1>5. IsFiniteSet(Symbols \X At)
  BY <1>2, <1>4, FS_Product
<1>6. IsFiniteSet((Symbols \X At) \X At)
  BY <1>2, <1>5, FS_Product
<1> DEFINE flat == [x \in (Symbols \X At) \X At |-> <<x[1][1], x[1][2], x[2]>>]
<1>7. flat \in Surjection((Symbols \X At) \X At, Symbols \X At \X At)
  <2>1. flat \in [(Symbols \X At) \X At -> Symbols \X At \X At]
    OBVIOUS
  <2>2. ASSUME NEW y \in Symbols \X At \X At PROVE \E x \in (Symbols \X At) \X At : flat[x] = y
    <3>1. <<<<y[1], y[2]>>, y[3]>> \in (Symbols \X At) \X At /\ y = <<y[1], y[2], y[3]>>
      OBVIOUS
    <3>2. flat[<<<<y[1], y[2]>>, y[3]>>] = y
      BY <3>1
    <3> HIDE DEF flat
    <3> QED
      BY <3>1, <3>2
  <2> HIDE DEF flat
  <2> QED
    BY <2>1, <2>2 DEF Surjection
<1> HIDE DEF flat
<1>8. IsFiniteSet(Symbols \X At \X At)
  BY <1>6, <1>7, FS_Surjection
<1> QED
  BY <1>8 DEF Triples, Symbols, At

\* The sets of spans that at most m spans are missing from, and the function that
\* LeastFixpoint defines, on them.
Near(gr, text, m) == {X \in SUBSET Triples(gr, text) : Cardinality(Triples(gr, text) \ X) <= m}
IsFix(gr, text, m, f) ==
  f = [X \in Near(gr, text, m) |->
         IF Derive(gr, text, X) \subseteq X THEN X ELSE f[X \cup Derive(gr, text, X)]]

\* A set that is not closed grows.
LEMMA Nearer ==
  ASSUME NEW gr, FiniteGrammar(gr), NEW text, IsSeq(text), NEW m \in Nat, NEW X \in Near(gr, text, m),
         ~(Derive(gr, text, X) \subseteq X)
  PROVE  m > 0 /\ X \cup Derive(gr, text, X) \in Near(gr, text, m - 1)
<1> DEFINE U == Triples(gr, text)
           Y == X \cup Derive(gr, text, X)
<1>1. X \subseteq U /\ Cardinality(U \ X) <= m
  BY DEF Near
<1>2. Y \subseteq U
  BY <1>1, DeriveWithin
<1>3. IsFiniteSet(U)
  BY TriplesFinite
<1>4. Y # X /\ X \subseteq Y
  OBVIOUS
<1> HIDE DEF U, Y
<1>5. IsFiniteSet(U \ X)
  BY <1>3, FS_Subset
<1>6. U \ Y \subseteq U \ X /\ U \ X # U \ Y
  BY <1>1, <1>2, <1>4
<1>7. /\ IsFiniteSet(U \ Y) /\ Cardinality(U \ Y) <= Cardinality(U \ X)
      /\ Cardinality(U \ X) # Cardinality(U \ Y)
  BY <1>5, <1>6, FS_Subset
<1>8. Cardinality(U \ X) \in Nat /\ Cardinality(U \ Y) \in Nat
  BY <1>5, <1>7, FS_CardinalityType
<1>9. m > 0 /\ Cardinality(U \ Y) <= m - 1
  BY <1>1, <1>7, <1>8
<1> QED
  BY <1>2, <1>9 DEF Near, U, Y

\* So the function is defined.
LEMMA FixExists ==
  ASSUME NEW gr, FiniteGrammar(gr), NEW text, IsSeq(text), NEW n \in Nat
  PROVE  \E f : IsFix(gr, text, n, f)
<1> DEFINE N(m) == Near(gr, text, m)
           D(X) == Derive(gr, text, X)
           S == {m \in Nat : \E f : IsFix(gr, text, m, f)}
<1>1. 0 \in S
  <2> DEFINE f == [X \in N(0) |-> X]
  <2>1. ASSUME NEW X \in N(0) PROVE D(X) \subseteq X
    <3>1. 0 \in Nat /\ ~(0 > 0)
      OBVIOUS
    <3> QED
      BY <3>1, Nearer
  <2> HIDE DEF D, N
  <2>2. f = [X \in N(0) |-> IF D(X) \subseteq X THEN X ELSE f[X \cup D(X)]]
    BY <2>1
  <2>3. IsFix(gr, text, 0, f)
    BY <2>2 DEF IsFix, D, N
  <2> QED
    BY <2>3
<1>2. ASSUME NEW m \in Nat, m \in S PROVE m + 1 \in S
  <2>1. PICK f : IsFix(gr, text, m, f)
    BY <1>2
  <2> DEFINE h == [X \in N(m + 1) |-> IF D(X) \subseteq X THEN X ELSE f[X \cup D(X)]]
  <2>2. \A X \in N(m) : f[X] = IF D(X) \subseteq X THEN X ELSE f[X \cup D(X)]
    BY <2>1 DEF IsFix
  <2>3. N(m) \subseteq N(m + 1)
    <3>1. SUFFICES ASSUME NEW X \in N(m) PROVE X \in N(m + 1)
      OBVIOUS
    <3>2. IsFiniteSet(Triples(gr, text) \ X)
      BY TriplesFinite, FS_Subset
    <3>3. Cardinality(Triples(gr, text) \ X) \in Nat
      BY <3>2, FS_CardinalityType
    <3> QED
      BY <3>3 DEF Near
  <2>4. ASSUME NEW X \in N(m + 1), ~(D(X) \subseteq X) PROVE X \cup D(X) \in N(m)
    <3>1. X \cup Derive(gr, text, X) \in Near(gr, text, (m + 1) - 1) /\ m + 1 \in Nat
      BY <2>4, Nearer
    <3> QED
      BY <3>1
  <2> HIDE DEF D, N
  <2>5. \A X \in N(m) : h[X] = f[X]
    BY <2>2, <2>3
  <2>6. \A X \in N(m + 1) : h[X] = IF D(X) \subseteq X THEN X ELSE h[X \cup D(X)]
    BY <2>4, <2>5
  <2>7. h = [X \in N(m + 1) |-> h[X]]
    OBVIOUS
  <2> HIDE DEF h
  <2>8. h = [X \in N(m + 1) |-> IF D(X) \subseteq X THEN X ELSE h[X \cup D(X)]]
    BY <2>6, <2>7
  <2>9. IsFix(gr, text, m + 1, h)
    BY <2>8 DEF IsFix, D, N
  <2> QED
    BY <2>9
<1> HIDE DEF S
<1>3. S \subseteq Nat
  BY DEF S
<1>4. n \in S
  BY <1>1, <1>2, <1>3, SetInduction
<1> QED
  BY <1>4 DEF S

\* Y is a closed set of spans with all of X.
ClosedAbove(gr, text, X, Y) == X \subseteq Y /\ Derive(gr, text, Y) \subseteq Y

\* ... and leads every set to a closed one.
LEMMA FixCloses ==
  ASSUME NEW gr, FiniteGrammar(gr), NEW text, IsSeq(text), NEW n \in Nat, NEW f, IsFix(gr, text, n, f)
  PROVE  \A X \in Near(gr, text, n) : ClosedAbove(gr, text, X, f[X])
<1> DEFINE N(m) == Near(gr, text, m)
           D(X) == Derive(gr, text, X)
           S == {m \in Nat : m <= n => \A X \in N(m) : ClosedAbove(gr, text, X, f[X])}
<1>1. \A X \in N(n) : f[X] = IF D(X) \subseteq X THEN X ELSE f[X \cup D(X)]
  BY DEF IsFix
<1>2. ASSUME NEW X, D(X) \subseteq X PROVE ClosedAbove(gr, text, X, X)
  BY <1>2 DEF ClosedAbove
<1>3. ASSUME NEW m \in Nat, m <= n PROVE N(m) \subseteq N(n)
  <2>1. SUFFICES ASSUME NEW X \in N(m) PROVE X \in N(n)
    OBVIOUS
  <2>2. IsFiniteSet(Triples(gr, text) \ X)
    BY TriplesFinite, FS_Subset
  <2>3. Cardinality(Triples(gr, text) \ X) \in Nat
    BY <2>2, FS_CardinalityType
  <2> QED
    BY <1>3, <2>3 DEF Near
<1>4. 0 \in S
  <2>1. ASSUME NEW X \in N(0) PROVE D(X) \subseteq X
    <3>1. 0 \in Nat /\ ~(0 > 0)
      OBVIOUS
    <3> QED
      BY <3>1, Nearer
  <2> HIDE DEF D, N
  <2> QED
    BY <1>1, <1>2, <1>3, <2>1
<1>5. ASSUME NEW m \in Nat, m \in S PROVE m + 1 \in S
  <2>1. SUFFICES ASSUME m + 1 <= n, NEW X \in N(m + 1) PROVE ClosedAbove(gr, text, X, f[X])
    OBVIOUS
  <2>2. X \in N(n)
    BY <1>3, <2>1
  <2>3. CASE D(X) \subseteq X
    <3> HIDE DEF D, N
    <3> QED
      BY <1>1, <1>2, <2>2, <2>3
  <2>4. CASE ~(D(X) \subseteq X)
    <3>1. X \cup Derive(gr, text, X) \in Near(gr, text, (m + 1) - 1) /\ m + 1 \in Nat
      BY <2>4, Nearer
    <3>2. X \cup D(X) \in N(m)
      BY <3>1
    <3> HIDE DEF D, N
    <3>3. f[X] = f[X \cup D(X)]
      BY <1>1, <2>2, <2>4
    <3>4. ClosedAbove(gr, text, X \cup D(X), f[X \cup D(X)])
      BY <1>5, <2>1, <3>2
    <3> QED
      BY <3>3, <3>4 DEF ClosedAbove
  <2> QED
    BY <2>3, <2>4
<1> HIDE DEF S, N, D
<1>6. S \subseteq Nat
  BY DEF S
<1>7. n \in S
  BY <1>4, <1>5, <1>6, SetInduction
<1> QED
  BY <1>7 DEF S, N

\* Derived holds the tokens and is closed under the rules.
LEMMA DerivedCloses ==
  ASSUME NEW gr, FiniteGrammar(gr), NEW text, IsSeq(text), NEW blank
  PROVE  ClosedAbove(gr, text, TokenSpans(gr, text, blank), Derived(gr, text, blank))
<1> DEFINE U == Triples(gr, text)
           n == Cardinality(U)
           fix == CHOOSE f : IsFix(gr, text, n, f)
           Fixed == [X \in SUBSET U |-> IF Derive(gr, text, X) \subseteq X THEN X ELSE fix[X \cup Derive(gr, text, X)]]
<1>1. IsFiniteSet(U)
  BY TriplesFinite
<1>2. n \in Nat
  BY <1>1, FS_CardinalityType
<1>3. Near(gr, text, n) = SUBSET U
  <2>1. \A X \in SUBSET U : Cardinality(U \ X) <= Cardinality(U)
    BY <1>1, FS_Subset
  <2> QED
    BY <2>1 DEF Near
<1>4. IsFix(gr, text, n, fix)
  <2> HIDE DEF n
  <2> QED
    BY <1>2, FixExists
<1>5. Derived(gr, text, blank) = fix[TokenSpans(gr, text, blank)]
  BY <1>3 DEF Derived, LeastFixpoint, IsFix
<1> HIDE DEF fix, n
<1>6. TokenSpans(gr, text, blank) \in Near(gr, text, n)
  BY <1>3, TokensWithin
<1>7. ClosedAbove(gr, text, TokenSpans(gr, text, blank), fix[TokenSpans(gr, text, blank)])
  BY <1>2, <1>4, <1>6, FixCloses
<1> QED
  BY <1>5, <1>7

\* A rule whose elements derive the parts of a span derives the span.
LEMMA RuleDerives ==
  ASSUME NEW gr, FiniteGrammar(gr), NEW text, IsSeq(text), NEW blank,
         NEW r \in DOMAIN gr.rules, NEW at, at[0] \in 0..Len(text),
         \A k \in 1..Len(gr.rules[r].rhs) : <<gr.rules[r].rhs[k], at[k - 1], at[k]>> \in Derived(gr, text, blank)
  PROVE  <<gr.rules[r].lhs, at[0], at[Len(gr.rules[r].rhs)]>> \in Derived(gr, text, blank)
<1> DEFINE X == Derived(gr, text, blank)
           rhs == gr.rules[r].rhs
<1>1. Derive(gr, text, X) \subseteq X
  BY DerivedCloses DEF ClosedAbove
<1>2. IsSeq(rhs)
  BY DEF FiniteGrammar
<1>3. \A k \in 1..Len(rhs) : <<rhs[k], at[k - 1], at[k]>> \in X
  OBVIOUS
<1> HIDE DEF X, rhs
<1>4. at[Len(rhs)] \in EndsOf(X, rhs, at[0])
  BY <1>2, <1>3, SplitEnds
<1>5. <<gr.rules[r].lhs, at[0], at[Len(rhs)]>> \in Derive(gr, text, X)
  <2>1. <<gr.rules[r].lhs, at[0], at[Len(rhs)]>>
          \in {<<gr.rules[r].lhs, at[0], j>> : j \in EndsOf(X, gr.rules[r].rhs, at[0])}
    BY <1>4 DEF rhs
  <2> DEFINE From(i) == {<<gr.rules[r].lhs, i, j>> : j \in EndsOf(X, gr.rules[r].rhs, i)}
             Of(k) == UNION {{<<gr.rules[k].lhs, i, j>> : j \in EndsOf(X, gr.rules[k].rhs, i)} : i \in 0..Len(text)}
  <2>2. From(at[0]) \subseteq Of(r)
    OBVIOUS
  <2>3. Of(r) \subseteq Derive(gr, text, X)
    BY DEF Derive
  <2> HIDE DEF Of
  <2> QED
    BY <2>1, <2>2, <2>3
<1> QED
  BY <1>1, <1>5 DEF X, rhs
-----------------------------------------------------------------------------
(* Soundness.                                                              *)

\* The spans the grammar derives from the input, and the problem of GSS with them.
Reference == Derived(Table[g].grammar, input, Blank)
Judged == Problem(Table[g], Reference)

Sound == INSTANCE GSSProofs WITH Problems <- {}, prob <- Judged, links <- Links, verdict <- result

\* The input is a sentence of the grammar.
Sentence == InLanguage(Table[g].grammar, input, Blank)

\* White space and tokens are the same in the engine and in the definition.
LEMMA SameTokens ==
  ASSUME g \in Grammars, input \in Inputs[g]
  PROVE  /\ FiniteGrammar(Table[g].grammar) /\ White(0) = SkipBlanks(input, Blank, 0)
         /\ Tokens(Table[g]) = TokenSpans(Table[g].grammar, input, Blank)
<1> DEFINE T == Table[g]
<1>1. TableOK(T) /\ RulesOK(T) /\ SpellingOK(T) /\ IsSeq(input)
  BY TableAssumption, GrammarAssumption, InputAssumption
<1>2. T.grammar.spell = T.spell /\ IsFiniteSet(DOMAIN T.spell) /\ \A t \in DOMAIN T.spell : IsSeq(T.spell[t])
  BY <1>1 DEF SpellingOK, TableOK
<1>3. FiniteGrammar(T.grammar)
  BY <1>1, <1>2 DEF FiniteGrammar, RulesOK, Terminals
<1>4. \A i : White(i) = SkipBlanks(input, Blank, i)
  BY DEF White, SkipBlanks
<1>5. ASSUME NEW t \in DOMAIN T.spell, NEW i \in 0..Len(input)
      PROVE  Spelled(T, t, i) <=> MatchesAt(T.grammar, input, t, i)
  <2>1. DOMAIN T.spell[t] = 1..Len(T.spell[t])
    BY <1>2, SeqFacts
  <2> QED
    BY <1>2, <2>1 DEF Spelled, MatchesAt, Agrees
<1> HIDE DEF T
<1>6. Tokens(T) = TokenSpans(T.grammar, input, Blank)
  BY <1>2, <1>4, <1>5 DEF Tokens, TokenSpans, Terminals
<1> QED
  BY <1>3, <1>4, <1>6 DEF T

\* The problem is one that GSSProofs speaks about.
LEMMA JudgedConsistent ==
  ASSUME g \in Grammars, input \in Inputs[g]
  PROVE  Sound!Consistent(Judged)
<1> DEFINE T == Table[g]
           gr == T.grammar
           len == Len(input)
<1>1. TableOK(T) /\ GotoOK(T) /\ RulesOK(T) /\ IsSeq(input) /\ len \in Nat
  BY TableAssumption, InputAssumption, SeqFacts
<1>2. /\ FiniteGrammar(gr) /\ White(0) = SkipBlanks(input, Blank, 0)
      /\ Tokens(T) = TokenSpans(gr, input, Blank)
  BY SameTokens
<1>3. /\ Judged.rules = gr.rules /\ Judged.items = T.items /\ Judged.goto = T.goto /\ Judged.tokens = Tokens(T)
      /\ Judged.start = White(0) /\ Judged.end = len /\ Judged.derived = Derived(gr, input, Blank)
  BY DEF Judged, Problem, Reference
<1>4. Tokens(T) \subseteq Triples(gr, input) /\ Tokens(T) \subseteq Derived(gr, input, Blank)
  BY <1>1, <1>2, TokensWithin, DerivedCloses DEF ClosedAbove
<1>5. White(0) \in 0..len
  <2>1. 0 \in 0..len
    BY <1>1
  <2> QED
    BY <1>1, <2>1, WhiteOK
<1>6. DOMAIN gr.rules = 1..Len(gr.rules) /\ Len(gr.rules) \in Nat /\ gr.rules # <<>>
  BY <1>1, SeqFacts DEF RulesOK
<1>7. \A r \in DOMAIN gr.rules : IsSeq(gr.rules[r].rhs) /\ Len(gr.rules[r].rhs) \in Nat
  BY <1>1, SeqFacts DEF RulesOK
<1> HIDE DEF T, gr, len
<1>8. Sound!WellFormed(Judged)
  <2>1. Judged.start \in 0..Judged.end
    BY <1>3, <1>5
  <2>2. 1 \in DOMAIN gr.rules
    BY <1>6, <1>1, TailFacts DEF RulesOK, gr
  <2>3. \A t \in Judged.tokens : t = <<t[1], t[2], t[3]>> /\ t[2] \in 0..len /\ t[3] \in 0..len
    BY <1>3, <1>4 DEF Triples, len
  <2>4. /\ 1 \in DOMAIN T.items /\ 0 \notin DOMAIN T.items /\ DOMAIN T.goto = DOMAIN T.items
        /\ \A s \in DOMAIN T.items : \A X \in DOMAIN T.goto[s] : T.goto[s][X] \in DOMAIN T.items \cup {0}
    BY <1>1 DEF TableOK, GotoOK, Moved
  <2>5. /\ \A s \in DOMAIN T.items : \A it \in T.items[s] : it[1] \in DOMAIN gr.rules /\ it[2] \in Nat
        /\ Len(gr.rules[1].rhs) = 1
    BY <1>1 DEF RulesOK, gr
  <2>6. DOMAIN gr.rules \subseteq Nat \ {0}
    BY <1>6
  <2> QED
    BY <1>3, <1>7, <2>1, <2>2, <2>3, <2>4, <2>5, <2>6
       DEF Sound!WellFormed, Sound!States, Sound!Body, Sound!Start
<1>9. Sound!GotoMovesDot(Judged)
  BY <1>1, <1>3 DEF Sound!GotoMovesDot, Sound!States, Sound!Body, GotoOK, Moved, gr
<1>10. Sound!StartIsInitial(Judged)
  BY <1>1, <1>3 DEF Sound!StartIsInitial, Sound!States, Sound!Start, RulesOK, GotoOK, Moved
<1>11. Sound!DerivedIsClosed(Judged)
  <2>1. ASSUME NEW r \in DOMAIN gr.rules, NEW at \in [0..Len(gr.rules[r].rhs) -> 0..len],
               {<<gr.rules[r].rhs[k], at[k-1], at[k]>> : k \in 1..Len(gr.rules[r].rhs)} \subseteq Derived(gr, input, Blank)
        PROVE  <<gr.rules[r].lhs, at[0], at[Len(gr.rules[r].rhs)]>> \in Derived(gr, input, Blank)
    <3>1. at[0] \in 0..Len(input)
      BY <1>7 DEF len
    <3>2. \A k \in 1..Len(gr.rules[r].rhs) : <<gr.rules[r].rhs[k], at[k-1], at[k]>> \in Derived(gr, input, Blank)
      BY <2>1
    <3> QED
      BY <1>1, <1>2, <3>1, <3>2, RuleDerives
  <2> QED
    BY <1>3, <1>4, <2>1 DEF Sound!DerivedIsClosed, Sound!Splits, Sound!Split, Sound!Body
<1> QED
  BY <1>8, <1>9, <1>10, <1>11 DEF Sound!Consistent

\* What is derived does not matter to the links that are justified.
Alike(q, u) ==
  /\ u.rules = q.rules /\ u.items = q.items /\ u.goto = q.goto
  /\ u.tokens = q.tokens /\ u.start = q.start /\ u.end = q.end

\* The nodes of a stack, and the two ways to justify a link, with all names expanded.
NodesBy(q, L) == {<<1, q.start>>} \cup {e[3] : e \in L}
ShiftBy(q, nodes, e) ==
  \E t \in q.tokens : \E v \in nodes :
    /\ v[2] = t[2] /\ t[1] \in DOMAIN q.goto[v[1]] /\ q.goto[v[1]][t[1]] # 0
    /\ e = <<v, t[1], <<q.goto[v[1]][t[1]], t[3]>>>>
PathOf(n, e, top, inner) == [k \in 0..n |-> IF k = n THEN top ELSE IF k = 0 THEN e[1] ELSE inner[k]]
ReductionBy(q, nodes, L, top, r, e) ==
  LET n == Len(q.rules[r].rhs)
      X == q.rules[r].lhs
  IN  /\ r # 1 /\ \E it \in q.items[top[1]] : it[1] = r /\ it[2] = n
      /\ e[1] \in nodes /\ X \in DOMAIN q.goto[e[1][1]] /\ q.goto[e[1][1]][X] # 0
      /\ e = <<e[1], X, <<q.goto[e[1][1]][X], top[2]>>>>
      /\ \E inner \in [1..(n-1) -> nodes] :
           /\ n = 0 => e[1] = top
           /\ \A k \in 1..n : \E f \in L : f[1] = PathOf(n, e, top, inner)[k-1] /\ f[3] = PathOf(n, e, top, inner)[k]

\* What is derived does not matter to the nodes.
LEMMA AlikeNodes ==
  ASSUME NEW q, NEW u, Alike(q, u), NEW L
  PROVE  Stack!NodesOf(q, L) = NodesBy(q, L) /\ Sound!NodesOf(u, L) = NodesBy(q, L)
<1>1. Stack!NodesOf(q, L) = NodesBy(q, L)
  BY DEF Stack!NodesOf, Stack!Root, Stack!Start, NodesBy
<1>2. Sound!NodesOf(u, L) = NodesBy(u, L)
  BY DEF Sound!NodesOf, Sound!Root, Sound!Start, NodesBy
<1>3. NodesBy(q, L) = NodesBy(u, L)
  BY DEF Alike, NodesBy
<1> QED
  BY <1>1, <1>2, <1>3

\* A link made by a shift is one for both.
LEMMA AlikeShifts ==
  ASSUME NEW q, NEW u, Alike(q, u), NEW L, NEW e, Stack!Shifted(q, L, e)
  PROVE  Sound!Shifted(u, L, e)
<1> DEFINE nodes == NodesBy(q, L)
<1>1. Stack!NodesOf(q, L) = nodes /\ Sound!NodesOf(u, L) = nodes
  BY AlikeNodes
<1> HIDE DEF nodes
<1>2. ShiftBy(q, nodes, e)
  BY <1>1 DEF Stack!Shifted, Stack!HasGoto, Stack!LinkTo, ShiftBy
<1>3. ShiftBy(u, nodes, e)
  BY <1>2 DEF Alike, ShiftBy
<1> QED
  BY <1>1, <1>3 DEF Sound!Shifted, Sound!HasGoto, Sound!LinkTo, ShiftBy

\* So is a link made by a reduction.
LEMMA AlikeReductions ==
  ASSUME NEW q, NEW u, Alike(q, u), NEW L, NEW e, Stack!Reduced(q, L, e)
  PROVE  Sound!Reduced(u, L, e)
<1> DEFINE nodes == NodesBy(q, L)
<1>1. Stack!NodesOf(q, L) = nodes /\ Sound!NodesOf(u, L) = nodes
  BY AlikeNodes
<1> HIDE DEF nodes
<1>2. PICK top \in nodes : \E r \in DOMAIN q.rules : Stack!ReducedBy(q, L, top, r, e)
  BY <1>1 DEF Stack!Reduced
<1>3. PICK r \in DOMAIN q.rules : Stack!ReducedBy(q, L, top, r, e)
  BY SMTT(30), <1>2
<1>4. ReductionBy(q, nodes, L, top, r, e)
  BY <1>1, <1>3 DEF Stack!ReducedBy, Stack!Body, Stack!HasGoto, Stack!LinkTo, Stack!IsPath, ReductionBy, PathOf
<1>5. ReductionBy(u, nodes, L, top, r, e) /\ r \in DOMAIN u.rules
  BY SMTT(90), <1>4 DEF Alike, ReductionBy
<1>6. Sound!ReducedBy(u, L, top, r, e)
  BY <1>1, <1>5 DEF Sound!ReducedBy, Sound!Body, Sound!HasGoto, Sound!LinkTo, Sound!IsPath, ReductionBy, PathOf
<1> QED
  BY <1>1, <1>5, <1>6 DEF Sound!Reduced

\* And both accept the same links.
LEMMA AlikeAcceptance ==
  ASSUME NEW q, NEW u, Alike(q, u), NEW L, Stack!Accepting(q, L)
  PROVE  Sound!Accepting(u, L)
<1> DEFINE nodes == NodesBy(q, L)
<1>1. Stack!NodesOf(q, L) = nodes /\ Sound!NodesOf(u, L) = nodes
  BY AlikeNodes
<1> HIDE DEF nodes
<1>2. PICK v \in nodes : v[2] = q.end /\ <<1, 1>> \in q.items[v[1]]
  BY <1>1 DEF Stack!Accepting
<1>3. v[2] = u.end /\ <<1, 1>> \in u.items[v[1]]
  BY <1>2 DEF Alike
<1> QED
  BY <1>1, <1>3 DEF Sound!Accepting

-----------------------------------------------------------------------------
(* The invariant.                                                          *)

\* Every link spans what its symbol derives, and an accepting parse is at an accepting node.
LanguageInv ==
  /\ GLRInv /\ \A e \in Links : Sound!LinkOK(Judged, Links, e)
  /\ result = "accept" => Stack!Accepting(Posed, Links)

\* The problem of the engine and the judged one differ in what is derived only.
LEMMA JudgedAlike == Alike(Posed, Judged)
BY DEF Alike, Posed, Judged, Problem

\* A step does not change what the grammar derives.
LEMMA JudgedKept ==
  ASSUME UNCHANGED <<g, input>>
  PROVE  UNCHANGED Judged
BY DEF Judged, Reference, Problem, Tokens, Spelled, White, Agrees

\* A step that grows the stack keeps the links in the language.
LEMMA GrowthStays ==
  ASSUME LanguageInv, Steps
  PROVE  LanguageInv'
<1>1. GLRInv /\ \A e \in Links : Sound!LinkOK(Judged, Links, e)
  BY DEF LanguageInv
<1>2. GLRInv' /\ Stack!Grow
  BY <1>1, GrowsOK
<1>3. UNCHANGED <<g, input, result>> /\ result = "running"
  BY DEF Steps
<1>4. UNCHANGED Judged
  BY <1>3, JudgedKept
<1>5. Sound!Consistent(Judged)
  BY <1>1, JudgedConsistent DEF GLRInv
<1>6. Links \subseteq Links' /\ \A e \in Links' \ Links : Stack!Shifted(Posed, Links, e) \/ Stack!Reduced(Posed, Links, e)
  BY <1>2 DEF Stack!Grow, Posed
<1> DEFINE u == Judged
           L == Links
           M == Links'
<1>7. \A e \in L : Sound!LinkOK(u, L, e)
  BY <1>1
<1>8. L \subseteq M
  BY <1>6
<1>9. Sound!Consistent(u)
  BY <1>5
<1>10. ASSUME NEW e \in M \ L PROVE Sound!Shifted(u, L, e) \/ Sound!Reduced(u, L, e)
  <2>1. Stack!Shifted(Posed, L, e) \/ Stack!Reduced(Posed, L, e)
    BY <1>6, <1>10
  <2>2. Alike(Posed, u)
    BY JudgedAlike
  <2> HIDE DEF u, L, M
  <2> QED
    BY <2>1, <2>2, AlikeShifts, AlikeReductions
<1> HIDE DEF u, L, M
<1>11. \A e \in M : Sound!LinkOK(u, M, e)
  BY <1>7, <1>8, <1>9, <1>10, Sound!GrowKeeps
<1> QED
  BY <1>2, <1>3, <1>4, <1>11 DEF LanguageInv, u, M

\* So does the answer.
LEMMA AnswerStays ==
  ASSUME LanguageInv, Finish
  PROVE  LanguageInv'
<1>1. GLRInv /\ \A e \in Links : Sound!LinkOK(Judged, Links, e)
  BY DEF LanguageInv
<1>2. GLRInv' /\ Stack!Answer
  BY <1>1, FinishAnswers
<1>3. UNCHANGED <<g, input, p>>
  BY DEF Finish, Running
<1>4. UNCHANGED Judged /\ UNCHANGED Posed /\ UNCHANGED Links
  BY <1>3, JudgedKept, PosedKept DEF Links
<1>5. result' = "accept" => Stack!Accepting(Posed, Links)
  BY <1>2 DEF Stack!Answer, Posed
<1> QED
  BY <1>1, <1>2, <1>4, <1>5 DEF LanguageInv

\* The invariant holds of every parse.
LEMMA LanguageInvariant ==
  Spec => []LanguageInv
<1>1. Init => LanguageInv
  BY InitInv DEF LanguageInv
<1>2. ASSUME LanguageInv, [Next]_vars PROVE LanguageInv'
  <2>1. GLRInv
    BY <1>2 DEF LanguageInv
  <2>2. CASE Reduce
    BY <1>2, <2>1, <2>2, ReduceGrows, GrowthStays
  <2>3. CASE Shift
    BY <1>2, <2>1, <2>3, ShiftGrows, GrowthStays
  <2>4. CASE Finish
    BY <1>2, <2>4, AnswerStays
  <2>5. CASE UNCHANGED vars
    <3>1. UNCHANGED <<g, input, p, result>>
      BY <2>5 DEF vars
    <3>2. UNCHANGED Judged /\ UNCHANGED Posed /\ UNCHANGED Links
      BY <3>1, JudgedKept, PosedKept DEF Links
    <3>3. GLRInv'
      BY <2>1, <2>5, StepInv
    <3> QED
      BY <1>2, <3>1, <3>2, <3>3 DEF LanguageInv
  <2> QED
    BY <1>2, <2>2, <2>3, <2>4, <2>5 DEF Next
<1> QED
  BY <1>1, <1>2, PTL DEF Spec

\* A sentence is what the start symbol derives from the whole input.
LEMMA InvImpliesSentence ==
  ASSUME LanguageInv, result = "accept"
  PROVE  Sentence
<1>1. /\ GLRInv /\ \A e \in Links : Sound!LinkOK(Judged, Links, e)
      /\ Stack!Accepting(Posed, Links)
  BY DEF LanguageInv
<1>2. Sound!Consistent(Judged) /\ White(0) = SkipBlanks(input, Blank, 0)
  BY <1>1, JudgedConsistent, SameTokens DEF GLRInv
<1>3. Alike(Posed, Judged)
  BY JudgedAlike
<1> DEFINE q == Posed
           u == Judged
           L == Links
<1>4. Sound!Consistent(u) /\ (\A e \in L : Sound!LinkOK(u, L, e)) /\ Stack!Accepting(q, L) /\ Alike(q, u)
  BY <1>1, <1>2, <1>3
<1>5. /\ Sound!Body(u, 1) = Table[g].grammar.rules[1].rhs /\ u.start = White(0) /\ u.end = Len(input)
      /\ u.derived = Derived(Table[g].grammar, input, Blank)
  BY DEF Sound!Body, Judged, Problem, Reference
<1> HIDE DEF q, u, L
<1>6. Sound!Accepting(u, L)
  BY <1>4, AlikeAcceptance
<1>7. <<Sound!Body(u, 1)[1], u.start, u.end>> \in u.derived
  BY <1>4, <1>6, Sound!AcceptingDerives
<1> QED
  BY <1>2, <1>5, <1>7 DEF Sentence, InLanguage, StartSymbol

\* The engine accepts only inputs that the grammar derives, whatever the tables resolved,
\* whatever was merged or disambiguated, for all grammars and all inputs.
THEOREM AcceptsOnlySentences ==
  Spec => [](result = "accept" => Sentence)
<1>1. LanguageInv => (result = "accept" => Sentence)
  BY InvImpliesSentence
<1> QED
  BY <1>1, LanguageInvariant, PTL
=============================================================================

----------------------------- MODULE GSSProofs -----------------------------
(***************************************************************************)
(* Every link of the graph-structured stack covers a span that its symbol  *)
(* derives, and only inputs of the language are accepted: for every        *)
(* grammar with consistent tables, every input, and every order in which   *)
(* reductions and shifts are made.                                         *)
(*                                                                         *)
(* The argument is about the paths a reduction pops.  reduce_one counts n  *)
(* links and does not look at their symbols.  A state that holds the item  *)
(* <<r, k>> is entered only by the k-th symbol of rule r, from a state     *)
(* that holds <<r, k - 1>> (GotoMovesDot), so by induction down the path   *)
(* the n links spell the rule, their spans are contiguous, and the span of *)
(* the new link is derived (DerivedIsClosed).                              *)
(*                                                                         *)
(* Conversely, a stack to which nothing can be added holds a link for      *)
(* every derived span that a node expects (GotoComplete), by induction on  *)
(* the rank of the derivation: an engine that misses no link rejects no    *)
(* sentence.                                                               *)
(***************************************************************************)
EXTENDS GSS, TLAPS, NaturalsInduction, WellFoundedInduction

\* Induction over Nat for a set: the least number outside it would contradict it.
LEMMA SetInduction ==
  ASSUME NEW S, S \subseteq Nat, 0 \in S, \A n \in Nat : n \in S => n + 1 \in S
  PROVE  Nat \subseteq S
<1> DEFINE X == Nat \ S
<1>1. SUFFICES ASSUME X # {} PROVE FALSE
  OBVIOUS
<1>2. PICK m \in X : \A n \in X : ~(<<n, m>> \in OpToRel(<, Nat))
  BY <1>1, NatLessThanWellFounded, WFMin, X \subseteq Nat
<1>3. m \in Nat /\ m # 0 /\ m - 1 \in Nat /\ m - 1 + 1 = m
  BY SMT
<1>4. m - 1 \in X
  BY <1>3, SMT
<1>5. <<m - 1, m>> \in OpToRel(<, Nat)
  BY <1>3, SMT DEF OpToRel
<1> QED
  BY <1>2, <1>4, <1>5

-----------------------------------------------------------------------------
(* The inductive invariant: a link follows a goto from a node of the stack *)
(* and covers a derived span.                                              *)

LinkOK(q, L, e) ==
  /\ e[1] \in NodesOf(q, L)
  /\ e[1][1] \in States(q) /\ e[1][2] \in 0..q.end
  /\ HasGoto(q, e[1], e[2]) /\ e[3][1] = q.goto[e[1][1]][e[2]]
  /\ e[3][1] \in States(q) /\ e[3][2] \in 0..q.end
  /\ <<e[2], e[1][2], e[3][2]>> \in q.derived

\* What the proofs of soundness assume of a problem.
Consistent(q) == WellFormed(q) /\ GotoMovesDot(q) /\ StartIsInitial(q) /\ DerivedIsClosed(q)

IInv ==
  /\ prob \in Problems /\ verdict \in {"running", "accept", "error"}
  /\ \A e \in links : LinkOK(prob, links, e)
  /\ verdict = "accept" => Accepting(prob, links)

\* The assumption on the problems is that.
LEMMA ProblemFacts ==
  ASSUME NEW q \in Problems
  PROVE  Consistent(q)
BY ProblemAssumption DEF Consistent

\* A node of the stack is at a state, at a location of the input.
LEMMA NodeFacts ==
  ASSUME NEW q, Consistent(q), NEW L, \A e \in L : LinkOK(q, L, e), NEW v \in NodesOf(q, L)
  PROVE  v[1] \in States(q) /\ v[2] \in 0..q.end
<1>1. CASE v = Root(q)
  BY <1>1 DEF Consistent, WellFormed, Root
<1>2. CASE \E e \in L : v = e[3]
  BY <1>2 DEF LinkOK
<1> QED
  BY <1>1, <1>2 DEF NodesOf

\* What a goto leads to.
LEMMA GotoFacts ==
  ASSUME NEW q, Consistent(q), NEW u, u[1] \in States(q), NEW X, HasGoto(q, u, X)
  PROVE  q.goto[u[1]][X] \in States(q)
BY DEF Consistent, WellFormed, HasGoto

\* A link that enters an item after its first element is labelled with the element
\* before the dot and comes from the item before it.
LEMMA LinkEntersItem ==
  ASSUME NEW q, Consistent(q), NEW L, NEW e, LinkOK(q, L, e),
         NEW x \in q.items[e[3][1]], x[2] > 0
  PROVE  Body(q, x[1])[x[2]] = e[2] /\ <<x[1], x[2] - 1>> \in q.items[e[1][1]]
BY DEF Consistent, LinkOK, HasGoto, GotoMovesDot

\* Node v holds the item <<r, k>>.
HoldsItem(q, v, r, k) == \E x \in q.items[v[1]] : x[1] = r /\ x[2] = k

\* The links popped by a reduction of an item with the dot at the end spell its
\* rule: every node on the path holds the item with the dot where the path is.
LEMMA PathHoldsItems ==
  ASSUME NEW q, Consistent(q), NEW L, \A e \in L : LinkOK(q, L, e),
         NEW n \in Nat, NEW path, IsPath(L, n, path), NEW r, HoldsItem(q, path[n], r, n)
  PROVE  \A k \in 0..n : HoldsItem(q, path[k], r, k)
<1> DEFINE S == {m \in Nat : m <= n => HoldsItem(q, path[n - m], r, n - m)}
<1>1. 0 \in S
  <2>1. n - 0 = n
    OBVIOUS
  <2> QED
    BY <2>1
<1>2. ASSUME NEW m \in Nat, m \in S PROVE m + 1 \in S
  <2>1. SUFFICES ASSUME m + 1 <= n PROVE HoldsItem(q, path[n - (m + 1)], r, n - (m + 1))
    OBVIOUS
  <2> DEFINE k == n - m
  <2>2. k \in 1..n /\ n - (m + 1) = k - 1
    BY <2>1
  <2>3. PICK x \in q.items[path[k][1]] : x[1] = r /\ x[2] = k
    BY <1>2, <2>1 DEF HoldsItem
  <2>4. PICK e \in L : e[1] = path[k-1] /\ e[3] = path[k]
    BY <2>2 DEF IsPath
  <2>5. <<x[1], x[2] - 1>> \in q.items[e[1][1]]
    BY <2>2, <2>3, <2>4, LinkEntersItem
  <2>6. HoldsItem(q, path[k - 1], r, k - 1)
    BY <2>3, <2>4, <2>5 DEF HoldsItem
  <2> QED
    BY <2>2, <2>6
<1>3. Nat \subseteq S
  <2> HIDE DEF S
  <2>1. S \subseteq Nat
    BY DEF S
  <2> QED
    BY <1>1, <1>2, <2>1, SetInduction
<1>4. ASSUME NEW k \in 0..n PROVE HoldsItem(q, path[k], r, k)
  <2>1. n - k \in Nat /\ n - k <= n /\ n - (n - k) = k
    OBVIOUS
  <2>2. n - k \in S
    BY <1>3, <2>1
  <2> QED
    BY <2>1, <2>2
<1> QED
  BY <1>4

\* So the span from the bottom of the path to its top is derived from the rule's
\* left-hand side.
LEMMA PathDerives ==
  ASSUME NEW q, Consistent(q), NEW L, \A e \in L : LinkOK(q, L, e),
         NEW n \in Nat, NEW path, IsPath(L, n, path), \A k \in 0..n : path[k] \in NodesOf(q, L),
         NEW r \in DOMAIN q.rules, HoldsItem(q, path[n], r, n), Len(Body(q, r)) = n
  PROVE  <<q.rules[r].lhs, path[0][2], path[n][2]>> \in q.derived
<1> DEFINE at == [k \in 0..n |-> path[k][2]]
<1>1. at \in Splits(q, r)
  BY NodeFacts DEF Splits
<1>2. \A k \in 0..n : HoldsItem(q, path[k], r, k)
  BY PathHoldsItems
<1>3. ASSUME NEW k \in 1..n PROVE <<Body(q, r)[k], at[k-1], at[k]>> \in q.derived
  <2>1. k \in 0..n /\ k - 1 \in 0..n /\ k > 0
    OBVIOUS
  <2>2. PICK x \in q.items[path[k][1]] : x[1] = r /\ x[2] = k
    BY <1>2, <2>1 DEF HoldsItem
  <2>3. PICK e \in L : e[1] = path[k-1] /\ e[3] = path[k]
    BY DEF IsPath
  <2>4. Body(q, x[1])[x[2]] = e[2]
    BY <2>1, <2>2, <2>3, LinkEntersItem
  <2>5. <<e[2], e[1][2], e[3][2]>> \in q.derived
    BY <2>3 DEF LinkOK
  <2> QED
    BY <2>1, <2>2, <2>3, <2>4, <2>5
<1>4. at[0] = path[0][2] /\ at[n] = path[n][2]
  OBVIOUS
<1> HIDE DEF at
<1>5. Split(q, r, at) \subseteq q.derived
  BY <1>3 DEF Split
<1> QED
  BY <1>1, <1>4, <1>5 DEF Consistent, DerivedIsClosed

-----------------------------------------------------------------------------
(* Preservation.                                                           *)

\* A link that a token justifies satisfies the invariant.
LEMMA ShiftedOK ==
  ASSUME NEW q, Consistent(q), NEW L, \A e \in L : LinkOK(q, L, e), NEW e, Shifted(q, L, e)
  PROVE  LinkOK(q, L, e)
<1>1. PICK t \in q.tokens, u \in NodesOf(q, L) :
        u[2] = t[2] /\ HasGoto(q, u, t[1]) /\ e = LinkTo(q, u, t[1], t[3])
  BY DEF Shifted
<1>2. e[1] = u /\ e[2] = t[1] /\ e[3] = <<q.goto[u[1]][t[1]], t[3]>>
  BY <1>1 DEF LinkTo
<1>3. u[1] \in States(q) /\ u[2] \in 0..q.end
  BY NodeFacts
<1>4. t = <<t[1], t[2], t[3]>> /\ t[3] \in 0..q.end /\ t \in q.derived
  BY DEF Consistent, WellFormed, DerivedIsClosed
<1>5. q.goto[u[1]][t[1]] \in States(q)
  BY <1>1, <1>3, GotoFacts
<1> QED
  BY <1>1, <1>2, <1>3, <1>4, <1>5 DEF LinkOK

\* A link that a reduction justifies satisfies the invariant: the popped path spells
\* the rule, so the new link's symbol derives its span.
LEMMA ReducedOK ==
  ASSUME NEW q, Consistent(q), NEW L, \A e \in L : LinkOK(q, L, e), NEW e, Reduced(q, L, e)
  PROVE  LinkOK(q, L, e)
<1>1. PICK top \in NodesOf(q, L) : \E r \in DOMAIN q.rules : ReducedBy(q, L, top, r, e)
  BY DEF Reduced
<1>2. PICK r \in DOMAIN q.rules : ReducedBy(q, L, top, r, e)
  BY <1>1
<1> DEFINE n == Len(Body(q, r))
           X == q.rules[r].lhs
<1>3. /\ \E it \in q.items[top[1]] : it[1] = r /\ it[2] = n
      /\ HasGoto(q, e[1], X) /\ e = LinkTo(q, e[1], X, top[2]) /\ e[1] \in NodesOf(q, L)
  BY <1>2 DEF ReducedBy
<1>5. PICK inner \in [1..(n-1) -> NodesOf(q, L)] :
        /\ n = 0 => e[1] = top
        /\ IsPath(L, n, [k \in 0..n |-> IF k = n THEN top ELSE IF k = 0 THEN e[1] ELSE inner[k]])
  BY <1>2 DEF ReducedBy
<1> DEFINE path == [k \in 0..n |-> IF k = n THEN top ELSE IF k = 0 THEN e[1] ELSE inner[k]]
<1>4. top[1] \in States(q) /\ top[2] \in 0..q.end /\ e[1][1] \in States(q) /\ e[1][2] \in 0..q.end
  BY <1>3, NodeFacts
<1>6. n \in Nat
  BY DEF Consistent, WellFormed
<1>7. path[n] = top /\ path[0] = e[1] /\ \A k \in 0..n : path[k] \in NodesOf(q, L)
  <2>1. path[n] = top
    BY <1>6
  <2>2. path[0] = e[1]
    BY <1>5, <1>6
  <2>3. ASSUME NEW k \in 0..n PROVE path[k] \in NodesOf(q, L)
    <3>1. CASE k = n
      BY <2>1, <3>1
    <3>2. CASE k = 0
      BY <1>3, <2>2, <3>2
    <3>3. CASE k # n /\ k # 0
      <4>1. k \in 1..(n-1)
        BY <1>6, <3>3
      <4> QED
        BY <3>3, <4>1
    <3> QED
      BY <3>1, <3>2, <3>3
  <2> QED
    BY <2>1, <2>2, <2>3
<1>8. HoldsItem(q, path[n], r, n)
  BY <1>3, <1>7 DEF HoldsItem
<1>9. IsPath(L, n, path)
  BY <1>5
<1>10. <<X, path[0][2], path[n][2]>> \in q.derived
  <2> HIDE DEF path, n
  <2>1. Len(Body(q, r)) = n
    BY DEF n
  <2> QED
    BY <1>6, <1>7, <1>8, <1>9, <2>1, PathDerives
<1>11. e[2] = X /\ e[3] = <<q.goto[e[1][1]][X], top[2]>>
  <2>1. e = <<e[1], X, <<q.goto[e[1][1]][X], top[2]>>>>
    BY <1>3 DEF LinkTo
  <2> QED
    BY <2>1
<1>12. q.goto[e[1][1]][X] \in States(q)
  BY <1>3, <1>4, GotoFacts
<1>13. e[3][1] = q.goto[e[1][1]][e[2]] /\ e[3][2] = top[2] /\ HasGoto(q, e[1], e[2])
  BY <1>3, <1>11
<1>14. <<e[2], e[1][2], e[3][2]>> \in q.derived
  BY <1>7, <1>10, <1>11, <1>13
<1> QED
  BY <1>3, <1>4, <1>11, <1>12, <1>13, <1>14 DEF LinkOK

\* So every link of a stack that has grown satisfies it.
LEMMA GrowKeeps ==
  ASSUME NEW q, Consistent(q), NEW L, \A e \in L : LinkOK(q, L, e), NEW M, L \subseteq M,
         \A e \in M \ L : Shifted(q, L, e) \/ Reduced(q, L, e)
  PROVE  \A e \in M : LinkOK(q, M, e)
<1>1. NodesOf(q, L) \subseteq NodesOf(q, M)
  BY DEF NodesOf
<1>2. ASSUME NEW e \in M PROVE LinkOK(q, M, e)
  <2>1. LinkOK(q, L, e)
    BY ShiftedOK, ReducedOK
  <2> QED
    BY <1>1, <2>1 DEF LinkOK
<1> QED
  BY <1>2

\* A link to the end of the augmented rule comes from the root: an accepting stack is
\* one of an input of the language.
LEMMA AcceptingDerives ==
  ASSUME NEW q, Consistent(q), NEW L, \A e \in L : LinkOK(q, L, e), Accepting(q, L)
  PROVE  <<Body(q, 1)[1], q.start, q.end>> \in q.derived
<1>1. WellFormed(q) /\ GotoMovesDot(q) /\ StartIsInitial(q)
  BY DEF Consistent
<1>2. PICK v \in NodesOf(q, L) : v[2] = q.end /\ <<1, 1>> \in q.items[v[1]]
  BY DEF Accepting
<1>3. v # Root(q)
  BY <1>1, <1>2 DEF StartIsInitial, Root
<1>4. PICK e \in L : v = e[3]
  BY <1>2, <1>3 DEF NodesOf
<1>5. /\ e[1][1] \in States(q) /\ e[2] \in DOMAIN q.goto[e[1][1]]
      /\ q.goto[e[1][1]][e[2]] # 0 /\ v[1] = q.goto[e[1][1]][e[2]]
      /\ e[1] \in NodesOf(q, L) /\ <<e[2], e[1][2], e[3][2]>> \in q.derived
  BY <1>4 DEF LinkOK, HasGoto
<1>6. Body(q, 1)[1] = e[2] /\ <<1, 0>> \in q.items[e[1][1]]
  BY <1>1, <1>2, <1>5 DEF GotoMovesDot
<1>7. e[1][1] = Start
  BY <1>1, <1>5, <1>6 DEF StartIsInitial
<1>8. e[1] = Root(q)
  <2>1. SUFFICES ASSUME NEW f \in L, e[1] = f[3] PROVE FALSE
    BY <1>5 DEF NodesOf
  <2>2. /\ f[1][1] \in States(q) /\ f[2] \in DOMAIN q.goto[f[1][1]]
        /\ e[1][1] = q.goto[f[1][1]][f[2]] /\ q.goto[f[1][1]][f[2]] # 0
    BY <2>1 DEF LinkOK, HasGoto
  <2> QED
    BY <1>1, <1>7, <2>2 DEF StartIsInitial
<1>9. e[1][2] = q.start
  BY <1>8 DEF Root
<1> QED
  BY <1>2, <1>4, <1>5, <1>6, <1>9

\* The invariant holds of the bare root, and every step keeps it.
LEMMA InitOK == Init => IInv
BY DEF Init, IInv

\* Every step keeps the invariant.
LEMMA NextOK == IInv /\ [Next]_vars => IInv'
<1> SUFFICES ASSUME IInv, [Next]_vars PROVE IInv'
  OBVIOUS
<1>1. CASE Grow
  <2>1. /\ prob' = prob /\ verdict' = verdict /\ verdict = "running" /\ links \subseteq links'
        /\ prob \in Problems /\ \A e \in links : LinkOK(prob, links, e)
        /\ \A e \in links' \ links : Shifted(prob, links, e) \/ Reduced(prob, links, e)
    BY <1>1 DEF Grow, IInv
  <2>2. Consistent(prob)
    BY <2>1, ProblemFacts
  <2>3. \A e \in links' : LinkOK(prob, links', e)
    BY <2>1, <2>2, GrowKeeps
  <2> QED
    BY <2>1, <2>3 DEF IInv
<1>2. CASE Answer
  BY <1>2 DEF Answer, IInv
<1>3. CASE UNCHANGED vars
  BY <1>3 DEF vars, IInv
<1> QED
  BY <1>1, <1>2, <1>3 DEF Next

\* The invariant gives the three properties.
LEMMA InvariantMeans == IInv => TypeOK /\ LinksDerive /\ AcceptedIsDerived
<1> SUFFICES ASSUME IInv PROVE TypeOK /\ LinksDerive /\ AcceptedIsDerived
  OBVIOUS
<1>1. TypeOK
  BY DEF IInv, LinkOK, TypeOK
<1>2. LinksDerive
  BY DEF IInv, LinkOK, LinksDerive
<1>3. ASSUME verdict = "accept"
      PROVE  <<Body(prob, 1)[1], prob.start, prob.end>> \in prob.derived
  <2>1. prob \in Problems /\ Accepting(prob, links) /\ \A e \in links : LinkOK(prob, links, e)
    BY <1>3 DEF IInv
  <2>2. Consistent(prob)
    BY <2>1, ProblemFacts
  <2> QED
    BY <2>1, <2>2, AcceptingDerives
<1> QED
  BY <1>1, <1>2, <1>3 DEF AcceptedIsDerived

\* The stack stays a graph of states and locations, rooted at the initial node.
THEOREM TypeAlwaysOK == Spec => []TypeOK
<1>1. Spec => []IInv
  BY InitOK, NextOK, PTL DEF Spec
<1> QED
  BY <1>1, InvariantMeans, PTL

\* Every link covers a span its symbol derives, whatever was popped to make it.
THEOREM LinksAlwaysDerive == Spec => []LinksDerive
<1>1. Spec => []IInv
  BY InitOK, NextOK, PTL DEF Spec
<1> QED
  BY <1>1, InvariantMeans, PTL

\* Soundness: what is accepted is in the language, for every grammar and input.
THEOREM AcceptsOnlyTheLanguage == Spec => []AcceptedIsDerived
<1>1. Spec => []IInv
  BY InitOK, NextOK, PTL DEF Spec
<1> QED
  BY <1>1, InvariantMeans, PTL
-----------------------------------------------------------------------------
(* Completeness: a stack to which nothing can be added has a link for every *)
(* derived span that an item of the stack waits for.  By induction on the   *)
(* rank of the span: a token is shifted; a span with a rule and a split has *)
(* the path of its parts, which have lower ranks, and is reduced.           *)

\* Node u holds an item before symbol X.
Expects(q, u, X) ==
  \E it \in q.items[u[1]] : it[2] < Len(Body(q, it[1])) /\ Body(q, it[1])[it[2] + 1] = X

\* Nothing can be added.
Saturated(q, L) == Justified(q, L) \subseteq L

\* The links for the derived spans of rank below m are there.
LinksBelow(q, L, m) ==
  \A d \in q.derived : q.rank[d] < m =>
    \A u \in NodesOf(q, L) : u[2] = d[2] /\ Expects(q, u, d[1]) => LinkTo(q, u, d[1], d[3]) \in L

\* The goto of an expected symbol: the item advances, and the rules of the symbol begin.
LEMMA ExpectsFacts ==
  ASSUME NEW q \in Problems, NEW u, u[1] \in States(q), NEW it \in q.items[u[1]],
         it[2] < Len(Body(q, it[1]))
  PROVE  LET X == Body(q, it[1])[it[2] + 1]
         IN  /\ HasGoto(q, u, X) /\ <<it[1], it[2] + 1>> \in q.items[q.goto[u[1]][X]]
             /\ \A r \in DOMAIN q.rules : q.rules[r].lhs = X => r # 1 /\ <<r, 0>> \in q.items[u[1]]
BY CompletenessAssumption DEF GotoComplete, HasGoto

\* A justified link of a saturated stack is there.
LEMMA JustifiedIn ==
  ASSUME NEW q \in Problems, NEW L, Saturated(q, L), NEW u \in NodesOf(q, L), NEW X, NEW loc \in 0..q.end,
         HasGoto(q, u, X), Shifted(q, L, LinkTo(q, u, X, loc)) \/ Reduced(q, L, LinkTo(q, u, X, loc))
  PROVE  LinkTo(q, u, X, loc) \in L
BY DEF Saturated, Justified, HasGoto

\* The path f of the parts of rule r up to element k, split at the locations at, above u.
PathOf(q, L, u, r, at, k, f) ==
  /\ f \in [0..k -> NodesOf(q, L)] /\ f[0] = u
  /\ \A j \in 0..k : f[j][2] = at[j] /\ <<r, j>> \in q.items[f[j][1]]
  /\ IsPath(L, k, f)

\* If the parts have rank below m, the path is there.
LEMMA PathExists ==
  ASSUME NEW q \in Problems, NEW L, \A e \in L : LinkOK(q, L, e),
         NEW m, LinksBelow(q, L, m),
         NEW u \in NodesOf(q, L), NEW r \in DOMAIN q.rules, <<r, 0>> \in q.items[u[1]],
         NEW at \in Splits(q, r), u[2] = at[0],
         \A c \in Split(q, r, at) : c \in q.derived /\ q.rank[c] < m
  PROVE  \E f : PathOf(q, L, u, r, at, Len(Body(q, r)), f)
<1> DEFINE n == Len(Body(q, r))
           S == {k \in Nat : k <= n => \E f : PathOf(q, L, u, r, at, k, f)}
<1>0. n \in Nat
  BY ProblemFacts DEF Consistent, WellFormed
<1>1. 0 \in S
  <2> DEFINE f == [j \in 0..0 |-> u]
  <2>1. PathOf(q, L, u, r, at, 0, f)
    BY DEF PathOf, IsPath
  <2> QED
    BY <2>1
<1>2. ASSUME NEW k \in Nat, k \in S PROVE k + 1 \in S
  <2>1. SUFFICES ASSUME k + 1 <= n PROVE \E f : PathOf(q, L, u, r, at, k + 1, f)
    OBVIOUS
  <2>2. PICK f : PathOf(q, L, u, r, at, k, f)
    BY <1>0, <1>2, <2>1
  <2> DEFINE v == f[k]
             X == Body(q, r)[k + 1]
             e == LinkTo(q, v, X, at[k + 1])
             h == [j \in 0..(k + 1) |-> IF j = k + 1 THEN e[3] ELSE f[j]]
  <2>3. v \in NodesOf(q, L) /\ v[1] \in States(q) /\ v[2] = at[k] /\ <<r, k>> \in q.items[v[1]]
    <3>1. v \in NodesOf(q, L) /\ v[2] = at[k] /\ <<r, k>> \in q.items[v[1]]
      BY <2>2 DEF PathOf
    <3> HIDE DEF v
    <3> QED
      BY <3>1, NodeFacts, ProblemFacts
  <2>4. HasGoto(q, v, X) /\ <<r, k + 1>> \in q.items[q.goto[v[1]][X]] /\ Expects(q, v, X)
    <3> DEFINE it == <<r, k>>
    <3>1. it \in q.items[v[1]] /\ it[1] = r /\ it[2] = k /\ k < Len(Body(q, r))
      BY <1>0, <2>1, <2>3
    <3> HIDE DEF it
    <3>2. HasGoto(q, v, X) /\ <<r, k + 1>> \in q.items[q.goto[v[1]][X]]
      BY <2>3, <3>1, ExpectsFacts
    <3> QED
      BY <3>1, <3>2 DEF Expects
  <2>5. <<X, at[k], at[k + 1]>> \in Split(q, r, at)
    BY <1>0, <2>1 DEF Split
  <2>6. e \in L
    <3> DEFINE d == <<X, at[k], at[k + 1]>>
    <3>1. d \in q.derived /\ q.rank[d] < m /\ d[1] = X /\ d[2] = at[k] /\ d[3] = at[k + 1]
      BY <2>5
    <3> HIDE DEF d
    <3> QED
      BY <2>3, <2>4, <3>1 DEF LinksBelow
  <2>7. e[1] = v /\ e[3] = <<q.goto[v[1]][X], at[k + 1]>> /\ e[3] \in NodesOf(q, L)
    BY <2>6 DEF LinkTo, NodesOf
  <2>8. PathOf(q, L, u, r, at, k + 1, h)
    <3> HIDE DEF e
    <3>1. h \in [0..(k + 1) -> NodesOf(q, L)] /\ h[0] = u
      BY <2>2, <2>7 DEF PathOf
    <3>2. ASSUME NEW j \in 0..(k + 1) PROVE h[j][2] = at[j] /\ <<r, j>> \in q.items[h[j][1]]
      <4>1. CASE j = k + 1
        <5>1. h[j] = <<q.goto[v[1]][X], at[k + 1]>>
          BY <2>7, <4>1
        <5> QED
          BY <2>4, <4>1, <5>1
      <4>2. CASE j # k + 1
        <5>1. j \in 0..k /\ h[j] = f[j]
          BY <4>2
        <5> QED
          BY <2>2, <5>1 DEF PathOf
      <4> QED
        BY <4>1, <4>2
    <3>3. ASSUME NEW j \in 1..(k + 1) PROVE \E l \in L : l[1] = h[j - 1] /\ l[3] = h[j]
      <4>1. CASE j = k + 1
        <5>1. h[j] = e[3] /\ h[j - 1] = v
          BY <4>1
        <5> QED
          BY <2>6, <2>7, <5>1
      <4>2. CASE j # k + 1
        <5>1. j \in 1..k /\ h[j] = f[j] /\ h[j - 1] = f[j - 1]
          BY <4>2
        <5> QED
          BY <2>2, <5>1 DEF PathOf, IsPath
      <4> QED
        BY <4>1, <4>2
    <3> HIDE DEF h
    <3> QED
      BY <3>1, <3>2, <3>3 DEF PathOf, IsPath
  <2> QED
    BY <2>8
<1>3. n \in S
  <2> HIDE DEF S
  <2>1. S \subseteq Nat
    BY DEF S
  <2> QED
    BY <1>0, <1>1, <1>2, <2>1, SetInduction
<1> QED
  BY <1>3

\* ... and so is the reduction of the whole span.
LEMMA ReductionThere ==
  ASSUME NEW q \in Problems, NEW L, \A e \in L : LinkOK(q, L, e), Saturated(q, L),
         NEW u \in NodesOf(q, L), NEW r \in DOMAIN q.rules, r # 1,
         NEW at \in Splits(q, r), u[2] = at[0], Expects(q, u, q.rules[r].lhs),
         NEW f, PathOf(q, L, u, r, at, Len(Body(q, r)), f)
  PROVE  LinkTo(q, u, q.rules[r].lhs, at[Len(Body(q, r))]) \in L
<1> DEFINE n == Len(Body(q, r))
           X == q.rules[r].lhs
           e == LinkTo(q, u, X, at[n])
           inner == [k \in 1..(n - 1) |-> f[k]]
<1>0. n \in Nat /\ at[n] \in 0..q.end
  BY ProblemFacts DEF Consistent, WellFormed, Splits
<1>1. /\ f \in [0..n -> NodesOf(q, L)] /\ f[0] = u /\ IsPath(L, n, f)
      /\ f[n][2] = at[n] /\ <<r, n>> \in q.items[f[n][1]] /\ f[n] \in NodesOf(q, L)
  BY <1>0 DEF PathOf
<1>2. u[1] \in States(q)
  BY NodeFacts, ProblemFacts
<1>3. HasGoto(q, u, X)
  BY <1>2, ExpectsFacts DEF Expects
<1>4. e[1] = u
  BY DEF LinkTo
<1>5. ReducedBy(q, L, f[n], r, e)
  <2> DEFINE path == [k \in 0..n |-> IF k = n THEN f[n] ELSE IF k = 0 THEN e[1] ELSE inner[k]]
  <2>1. path = f
    <3>1. ASSUME NEW k \in 0..n PROVE path[k] = f[k]
      BY <1>0, <1>1, <1>4
    <3> QED
      BY <1>1, <3>1
  <2>2. inner \in [1..(n - 1) -> NodesOf(q, L)]
    BY <1>0, <1>1
  <2>3. n = 0 => e[1] = f[n]
    BY <1>1, <1>4
  <2>4. e = LinkTo(q, e[1], X, f[n][2]) /\ HasGoto(q, e[1], X) /\ e[1] \in NodesOf(q, L)
    BY <1>1, <1>3, <1>4
  <2>5. \E it \in q.items[f[n][1]] : it[1] = r /\ it[2] = n
    BY <1>1
  <2> HIDE DEF inner, e, n, X
  <2>6. IsPath(L, n, [k \in 0..n |-> IF k = n THEN f[n] ELSE IF k = 0 THEN e[1] ELSE inner[k]])
    BY <1>1, <2>1
  <2> QED
    BY <2>2, <2>3, <2>4, <2>5, <2>6 DEF ReducedBy, n, X
<1>6. Reduced(q, L, e)
  BY <1>1, <1>5 DEF Reduced
<1> QED
  BY <1>0, <1>3, <1>6, JustifiedIn

\* The induction on the rank.
LEMMA AllLinksThere ==
  ASSUME NEW q \in Problems, NEW L, \A e \in L : LinkOK(q, L, e), Saturated(q, L)
  PROVE  \A m \in Nat : LinksBelow(q, L, m)
<1> DEFINE S == {m \in Nat : LinksBelow(q, L, m)}
<1>0. \A d \in q.derived : q.rank[d] \in Nat
  BY CompletenessAssumption DEF DerivedIsGrounded
<1>1. 0 \in S
  BY <1>0 DEF LinksBelow
<1>2. ASSUME NEW m \in Nat, m \in S PROVE m + 1 \in S
  <2>1. SUFFICES ASSUME NEW d \in q.derived, q.rank[d] < m + 1,
                        NEW u \in NodesOf(q, L), u[2] = d[2], Expects(q, u, d[1])
                 PROVE  LinkTo(q, u, d[1], d[3]) \in L
    BY DEF LinksBelow
  <2>2. u[1] \in States(q) /\ HasGoto(q, u, d[1])
    BY <2>1, NodeFacts, ProblemFacts, ExpectsFacts DEF Expects
  <2>3. CASE d \in q.tokens
    <3>1. Shifted(q, L, LinkTo(q, u, d[1], d[3])) /\ d[3] \in 0..q.end
      BY <2>1, <2>2, <2>3, ProblemFacts DEF Consistent, Shifted, WellFormed
    <3> QED
      BY <2>2, <3>1, JustifiedIn
  <2>4. CASE d \notin q.tokens
    <3>1. PICK r \in DOMAIN q.rules : \E at \in Splits(q, r) :
            /\ d = <<q.rules[r].lhs, at[0], at[Len(Body(q, r))]>>
            /\ \A c \in Split(q, r, at) : c \in q.derived /\ q.rank[c] < q.rank[d]
      BY <2>4, CompletenessAssumption DEF DerivedIsGrounded
    <3>2. PICK at \in Splits(q, r) :
            /\ d = <<q.rules[r].lhs, at[0], at[Len(Body(q, r))]>>
            /\ \A c \in Split(q, r, at) : c \in q.derived /\ q.rank[c] < q.rank[d]
      BY <3>1
    <3>3. d[1] = q.rules[r].lhs /\ d[2] = at[0] /\ d[3] = at[Len(Body(q, r))]
      BY <3>2
    <3>4. r # 1 /\ <<r, 0>> \in q.items[u[1]]
      BY <2>1, <2>2, <3>3, ExpectsFacts DEF Expects
    <3>5. LinksBelow(q, L, m)
      BY <1>2
    <3>6. \A c \in Split(q, r, at) : c \in q.derived /\ q.rank[c] < m
      BY <1>0, <2>1, <3>2
    <3>7. PICK f : PathOf(q, L, u, r, at, Len(Body(q, r)), f)
      BY <2>1, <3>3, <3>4, <3>5, <3>6, PathExists
    <3> QED
      BY <2>1, <3>3, <3>4, <3>7, ReductionThere
  <2> QED
    BY <2>3, <2>4
<1> HIDE DEF S
<1>3. S \subseteq Nat
  BY DEF S
<1>4. Nat \subseteq S
  BY <1>1, <1>2, <1>3, SetInduction
<1> QED
  BY <1>4 DEF S

\* So a saturated stack of an input of the language is accepting.
LEMMA SaturatedAccepts ==
  ASSUME NEW q \in Problems, NEW L, \A e \in L : LinkOK(q, L, e), Saturated(q, L),
         <<Body(q, 1)[1], q.start, q.end>> \in q.derived
  PROVE  Accepting(q, L)
<1> DEFINE d == <<Body(q, 1)[1], q.start, q.end>>
           it == <<1, 0>>
<1>1. Root(q) \in NodesOf(q, L) /\ Root(q)[1] = Start /\ Root(q)[2] = q.start
  BY DEF NodesOf, Root
<1>2. it \in q.items[Root(q)[1]] /\ it[1] = 1 /\ it[2] = 0 /\ Len(Body(q, 1)) = 1 /\ Start \in States(q)
  BY <1>1, ProblemFacts, CompletenessAssumption DEF Consistent, GotoComplete, WellFormed
<1>3. d[1] = Body(q, 1)[1] /\ d[2] = q.start /\ d[3] = q.end /\ d \in q.derived
  OBVIOUS
<1> HIDE DEF d, it
<1>4. Expects(q, Root(q), d[1])
  BY <1>2, <1>3 DEF Expects
<1>5. <<1, 1>> \in q.items[q.goto[Start][d[1]]]
  BY <1>1, <1>2, <1>3, ExpectsFacts
<1>6. q.rank[d] \in Nat
  BY <1>3, CompletenessAssumption DEF DerivedIsGrounded
<1>7. LinksBelow(q, L, q.rank[d] + 1) /\ q.rank[d] < q.rank[d] + 1
  BY <1>6, AllLinksThere
<1>8. LinkTo(q, Root(q), d[1], d[3]) \in L
  BY <1>1, <1>3, <1>4, <1>7 DEF LinksBelow
<1> DEFINE v == <<q.goto[Start][d[1]], q.end>>
<1>9. v \in NodesOf(q, L)
  BY <1>1, <1>3, <1>8 DEF LinkTo, NodesOf
<1> QED
  BY <1>5, <1>9 DEF Accepting

\* The invariant of an engine that misses nothing.
SInv == IInv /\ (verdict = "error" => Saturated(prob, links) /\ ~Accepting(prob, links))

\* Nothing has been answered at the start.
LEMMA SaturatedInit == Init => SInv
BY InitOK DEF Init, SInv

\* The stack grows, or all its links are there when the answer is given.
LEMMA SaturatedNext == SInv /\ [Grow \/ SaturatedAnswer]_vars => SInv'
<1> SUFFICES ASSUME SInv, [Grow \/ SaturatedAnswer]_vars PROVE SInv'
  OBVIOUS
<1>1. IInv'
  BY NextOK DEF SInv, Next, SaturatedAnswer
<1>2. CASE Grow
  BY <1>1, <1>2 DEF SInv, Grow
<1>3. CASE SaturatedAnswer
  <2>1. verdict' = (IF Accepting(prob, links) THEN "accept" ELSE "error") /\ prob' = prob /\ links' = links
    BY <1>3 DEF SaturatedAnswer, Answer
  <2>2. Saturated(prob, links)
    BY <1>3 DEF SaturatedAnswer, Saturated
  <2> QED
    BY <1>1, <2>1, <2>2 DEF SInv
<1>4. CASE UNCHANGED vars
  BY <1>1, <1>4 DEF SInv, vars
<1> QED
  BY <1>2, <1>3, <1>4

\* Completeness: an engine that answers only when the tables justify no more links
\* accepts the whole language, whatever order it made them in.
THEOREM MissesNothing == SaturatedSpec => []SaturatedAcceptsAll
<1>1. SaturatedSpec => []SInv
  BY SaturatedInit, SaturatedNext, PTL DEF SaturatedSpec
<1>2. SInv => SaturatedAcceptsAll
  BY SaturatedAccepts DEF SInv, IInv, SaturatedAcceptsAll
<1> QED
  BY <1>1, <1>2, PTL
=============================================================================

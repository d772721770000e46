---------------------------- MODULE StructureProofs ----------------------------
(***************************************************************************)
(* Theorems about the structures beside the parser: the vectors and sets   *)
(* of util.c, the hash table of a symbol table and the pools of its scopes.*)
(*                                                                         *)
(* The pools.  Under the rules of use, that is for no member of Usage,     *)
(* nothing is read or freed after it was freed, and a top scope takes      *)
(* everything below it along, for any number of scopes and parses.         *)
(* get_scope_pool, and whatever reads a scope, walks over other scopes;    *)
(* all of them have the same top scope (TopIn), which is what the          *)
(* invariant is about: the pools of the live top scopes are the scopes     *)
(* with that top scope, and what is freed is freed by whole pools.         *)
(*                                                                         *)
(* The containers.  A set is a table that holds what was added, each       *)
(* element once and with no gap between its slot and the one it hashes to; *)
(* the invariant is about any table, and growing one is a fold over its    *)
(* elements.                                                               *)
(*                                                                         *)
(* The hash table.  The buckets hold some of the symbols, the lists of the *)
(* copies the others, which are newer; adding a symbol, whether the table  *)
(* grows or not, and adding whole lists are folds that keep this.          *)
(***************************************************************************)
EXTENDS ScopePool, SymHash, Containers, HelperProofs, FunctionTheorems

\* TopOf, of any scopes.
TopIn(all, st) == LET walk[s \in DOMAIN all] == IF all[s].top THEN s ELSE walk[all[s].search] IN walk[st]

\* A scope that is not a top scope was made from an earlier one; its enclosing scope is
\* earlier, too.
Links(all) ==
  /\ IsSeq(all)
  /\ \A s \in 1..Len(all) : /\ all[s].up \in 0..(s - 1)
                            /\ all[s].top => all[s].up = 0 /\ all[s].search = 0
                            /\ ~all[s].top => all[s].search \in 1..(s - 1)

-----------------------------------------------------------------------------
(* Walks.                                                                  *)

\* A walk from one of n scopes to the next one, until it stops.
Earlier(n, stops, next) == \A s \in 1..n : s \notin stops => next[s] \in 1..(s - 1)
Walks(n, stops, next) == \E f : f = [s \in 1..n |-> IF s \in stops THEN s ELSE f[next[s]]]

\* A walk to earlier scopes ends.
LEMMA WalkExists ==
  ASSUME NEW n \in Nat, NEW stops, NEW next, Earlier(n, stops, next)
  PROVE  Walks(n, stops, next)
<1> DEFINE S == {m \in Nat : m <= n => \E f : f = [s \in 1..m |-> IF s \in stops THEN s ELSE f[next[s]]]}
<1>1. 0 \in S
  <2> DEFINE f == [s \in 1..0 |-> s]
  <2>1. f = [s \in 1..0 |-> IF s \in stops THEN s ELSE f[next[s]]]
    BY 1..0 = {}
  <2> QED
    BY <2>1
<1>2. ASSUME NEW m \in Nat, m \in S PROVE m + 1 \in S
  <2>1. SUFFICES ASSUME m + 1 <= n
                 PROVE  \E f : f = [s \in 1..(m + 1) |-> IF s \in stops THEN s ELSE f[next[s]]]
    OBVIOUS
  <2>2. PICK f : f = [s \in 1..m |-> IF s \in stops THEN s ELSE f[next[s]]]
    BY <1>2, <2>1
  <2> DEFINE h == [s \in 1..(m + 1) |-> IF s \in stops THEN s ELSE f[next[s]]]
  <2>3. \A s \in 1..m : h[s] = f[s]
    BY <2>2
  <2>4. ASSUME NEW s \in 1..(m + 1) PROVE h[s] = IF s \in stops THEN s ELSE h[next[s]]
    <3>1. CASE s \in stops
      BY <3>1
    <3>2. CASE s \notin stops
      <4>1. s \in 1..n
        BY <2>1
      <4>2. next[s] \in 1..(s - 1)
        BY <3>2, <4>1 DEF Earlier
      <4>3. next[s] \in 1..m
        BY <4>2
      <4>4. h[s] = f[next[s]]
        BY <3>2
      <4> QED
        BY <2>3, <3>2, <4>3, <4>4
    <3> QED
      BY <3>1, <3>2
  <2>5. h = [s \in 1..(m + 1) |-> h[s]]
    OBVIOUS
  <2> HIDE DEF h
  <2>6. h = [s \in 1..(m + 1) |-> IF s \in stops THEN s ELSE h[next[s]]]
    BY <2>4, <2>5
  <2> QED
    BY <2>6
<1> HIDE DEF S
<1>3. S \subseteq Nat
  BY DEF S
<1>4. n \in S
  BY <1>1, <1>2, <1>3, SetInduction
<1> QED
  BY <1>4 DEF S, Walks

\* TopOf follows search up to a top scope.
LEMMA TopUnfold ==
  ASSUME NEW all, Links(all), NEW s \in 1..Len(all)
  PROVE  TopIn(all, s) = IF all[s].top THEN s ELSE TopIn(all, all[s].search)
<1> DEFINE n == Len(all)
           stops == {x \in 1..n : all[x].top}
           next == [x \in 1..n |-> all[x].search]
           IsWalk(f) == f = [x \in 1..n |-> IF all[x].top THEN x ELSE f[all[x].search]]
           walk == CHOOSE f : IsWalk(f)
<1>1. n \in Nat /\ DOMAIN all = 1..n
  BY SeqFacts DEF Links
<1>2. \A x \in 1..n : ~all[x].top => all[x].search \in 1..(x - 1)
  BY DEF Links
<1>3. \E f : IsWalk(f)
  <2>1. Earlier(n, stops, next)
    BY <1>2 DEF Earlier
  <2> HIDE DEF stops, next, n
  <2>2. Walks(n, stops, next)
    BY <1>1, <2>1, WalkExists
  <2>3. PICK f : f = [x \in 1..n |-> IF x \in stops THEN x ELSE f[next[x]]]
    BY <2>2 DEF Walks
  <2>4. f = [x \in 1..n |-> IF all[x].top THEN x ELSE f[all[x].search]]
    BY <2>3 DEF stops, next
  <2> QED
    BY <2>4
<1>4. IsWalk(walk)
  BY <1>3
<1>5. \A x : TopIn(all, x) = walk[x]
  BY <1>1 DEF TopIn
<1> HIDE DEF walk, n
<1>6. walk[s] = IF all[s].top THEN s ELSE walk[all[s].search]
  BY <1>4 DEF n
<1> QED
  BY <1>5, <1>6

\* Every scope has a top scope.
LEMMA TopReaches ==
  ASSUME NEW all, Links(all), NEW s \in 1..Len(all)
  PROVE  TopIn(all, s) \in 1..s /\ all[TopIn(all, s)].top
<1> DEFINE n == Len(all)
           B == {x \in 1..n : TopIn(all, x) \in 1..x /\ all[TopIn(all, x)].top}
<1>1. n \in Nat
  BY SeqFacts DEF Links
<1>2. ASSUME NEW x \in 1..n, 1..(x - 1) \subseteq B PROVE x \in B
  <2>1. TopIn(all, x) = IF all[x].top THEN x ELSE TopIn(all, all[x].search)
    BY TopUnfold
  <2>2. CASE all[x].top
    BY <1>1, <2>1, <2>2
  <2>3. CASE ~all[x].top
    <3>1. all[x].search \in 1..(x - 1)
      BY <2>3 DEF Links
    <3>2. TopIn(all, all[x].search) \in 1..all[x].search /\ all[TopIn(all, all[x].search)].top
      BY <1>2, <3>1
    <3>3. TopIn(all, x) = TopIn(all, all[x].search)
      BY <2>1, <2>3
    <3> HIDE DEF n
    <3> QED
      BY <1>1, <3>1, <3>2, <3>3
  <2> QED
    BY <2>2, <2>3
<1> HIDE DEF B
<1>3. 1..n \subseteq B
  BY <1>1, <1>2, CountingInduction
<1> QED
  BY <1>3 DEF B

\* The top scopes of the scopes that were there do not change when more are made, or
\* when other fields change.
Extends(all, more) ==
  /\ Links(all) /\ Links(more) /\ Len(all) <= Len(more)
  /\ \A s \in 1..Len(all) : (more[s].top <=> all[s].top) /\ more[s].search = all[s].search

\* Such a change keeps the top scopes.
LEMMA TopStays ==
  ASSUME NEW all, NEW more, Extends(all, more), NEW s \in 1..Len(all)
  PROVE  TopIn(more, s) = TopIn(all, s)
<1> DEFINE n == Len(all)
           B == {x \in 1..n : TopIn(more, x) = TopIn(all, x)}
<1>1. n \in Nat /\ Len(more) \in Nat /\ n <= Len(more)
  BY SeqFacts DEF Links, Extends
<1>2. ASSUME NEW x \in 1..n, 1..(x - 1) \subseteq B PROVE x \in B
  <2>1. x \in 1..Len(more)
    BY <1>1
  <2>2. /\ TopIn(all, x) = IF all[x].top THEN x ELSE TopIn(all, all[x].search)
        /\ TopIn(more, x) = IF more[x].top THEN x ELSE TopIn(more, more[x].search)
    BY <2>1, TopUnfold DEF Extends
  <2>3. (more[x].top <=> all[x].top) /\ more[x].search = all[x].search
    BY DEF Extends
  <2>4. CASE all[x].top
    BY <2>2, <2>3, <2>4
  <2>5. CASE ~all[x].top
    <3>1. all[x].search \in B
      BY <1>2, <2>5 DEF Links, Extends
    <3> QED
      BY <2>2, <2>3, <2>5, <3>1
  <2> QED
    BY <2>4, <2>5
<1> HIDE DEF B
<1>3. 1..n \subseteq B
  BY <1>1, <1>2, CountingInduction
<1> QED
  BY <1>3 DEF B

-----------------------------------------------------------------------------
(* get_scope_pool finds the top scope.                                     *)

\* The scopes around a scope have its top scope.
SameTop(all) == \A s \in 1..Len(all) : all[s].up # 0 => TopIn(all, all[s].up) = TopIn(all, s)

\* UpMost follows up to a scope without an enclosing one.
LEMMA UpUnfold ==
  ASSUME NEW all, Links(all), NEW s \in 1..Len(all)
  PROVE  UpMost(all, s) = IF all[s].up = 0 THEN s ELSE UpMost(all, all[s].up)
<1> DEFINE n == Len(all)
           stops == {x \in 1..n : all[x].up = 0}
           next == [x \in 1..n |-> all[x].up]
           IsWalk(f) == f = [x \in 1..n |-> IF all[x].up = 0 THEN x ELSE f[all[x].up]]
           walk == CHOOSE f : IsWalk(f)
<1>1. n \in Nat /\ DOMAIN all = 1..n
  BY SeqFacts DEF Links
<1>2. \A x \in 1..n : all[x].up # 0 => all[x].up \in 1..(x - 1)
  BY DEF Links
<1>3. \E f : IsWalk(f)
  <2>1. Earlier(n, stops, next)
    BY <1>2 DEF Earlier
  <2> HIDE DEF stops, next, n
  <2>2. Walks(n, stops, next)
    BY <1>1, <2>1, WalkExists
  <2>3. PICK f : f = [x \in 1..n |-> IF x \in stops THEN x ELSE f[next[x]]]
    BY <2>2 DEF Walks
  <2>4. f = [x \in 1..n |-> IF all[x].up = 0 THEN x ELSE f[all[x].up]]
    BY <2>3 DEF stops, next
  <2> QED
    BY <2>4
<1>4. IsWalk(walk)
  BY <1>3
<1>5. \A x : UpMost(all, x) = walk[x]
  BY <1>1 DEF UpMost
<1> HIDE DEF walk, n
<1>6. walk[s] = IF all[s].up = 0 THEN s ELSE walk[all[s].up]
  BY <1>4 DEF n
<1> QED
  BY <1>5, <1>6

\* That scope has the same top scope.
LEMMA UpKeepsTop ==
  ASSUME NEW all, Links(all), SameTop(all), NEW s \in 1..Len(all)
  PROVE  UpMost(all, s) \in 1..Len(all) /\ TopIn(all, UpMost(all, s)) = TopIn(all, s)
<1> DEFINE n == Len(all)
           B == {x \in 1..n : UpMost(all, x) \in 1..n /\ TopIn(all, UpMost(all, x)) = TopIn(all, x)}
<1>1. n \in Nat
  BY SeqFacts DEF Links
<1>2. ASSUME NEW x \in 1..n, 1..(x - 1) \subseteq B PROVE x \in B
  <2>1. UpMost(all, x) = IF all[x].up = 0 THEN x ELSE UpMost(all, all[x].up)
    BY UpUnfold
  <2>2. CASE all[x].up = 0
    BY <2>1, <2>2
  <2>3. CASE all[x].up # 0
    <3>1. all[x].up \in 1..(x - 1)
      BY <2>3 DEF Links
    <3>2. all[x].up \in B /\ TopIn(all, all[x].up) = TopIn(all, x)
      BY <1>2, <2>3, <3>1 DEF SameTop
    <3> QED
      BY <2>1, <2>3, <3>2
  <2> QED
    BY <2>2, <2>3
<1> HIDE DEF B
<1>3. 1..n \subseteq B
  BY <1>1, <1>2, CountingInduction
<1> QED
  BY <1>3 DEF B

\* So the pool that a scope is registered with is its top scope's.
LEMMA PoolIsTop ==
  ASSUME NEW all, Links(all), SameTop(all), NEW s \in 1..Len(all)
  PROVE  PoolOf(all, s) = TopIn(all, s)
<1> DEFINE n == Len(all)
           V == CHOOSE f : f = [x \in 1..n |-> IF all[x].top \/ all[x].search = 0 THEN x ELSE f[all[x].search]]
           stops == {x \in 1..n : all[x].top \/ all[x].search = 0}
           next == [x \in 1..n |-> all[x].search]
<1>1. n \in Nat /\ DOMAIN all = 1..n
  BY SeqFacts DEF Links
<1>2. PoolOf(all, s) = V[UpMost(all, s)]
  BY <1>1 DEF PoolOf
<1>3. V = [x \in 1..n |-> IF all[x].top \/ all[x].search = 0 THEN x ELSE V[all[x].search]]
  <2>1. Earlier(n, stops, next)
    BY DEF Earlier, Links
  <2> HIDE DEF stops, next, n
  <2>2. Walks(n, stops, next)
    BY <1>1, <2>1, WalkExists
  <2>3. PICK f : f = [x \in 1..n |-> IF x \in stops THEN x ELSE f[next[x]]]
    BY <2>2 DEF Walks
  <2>4. f = [x \in 1..n |-> IF all[x].top \/ all[x].search = 0 THEN x ELSE f[all[x].search]]
    BY <2>3 DEF stops, next
  <2> QED
    BY <2>4
<1> HIDE DEF V
<1> DEFINE B == {x \in 1..n : V[x] = TopIn(all, x)}
<1>4. ASSUME NEW x \in 1..n, 1..(x - 1) \subseteq B PROVE x \in B
  <2>1. V[x] = IF all[x].top \/ all[x].search = 0 THEN x ELSE V[all[x].search]
    BY <1>3
  <2>2. TopIn(all, x) = IF all[x].top THEN x ELSE TopIn(all, all[x].search)
    BY TopUnfold
  <2>3. CASE all[x].top
    BY <2>1, <2>2, <2>3
  <2>4. CASE ~all[x].top
    <3>1. all[x].search \in 1..(x - 1) /\ all[x].search # 0
      BY <2>4 DEF Links
    <3> QED
      BY <1>4, <2>1, <2>2, <2>4, <3>1
  <2> QED
    BY <2>3, <2>4
<1> HIDE DEF B, n
<1>5. 1..n \subseteq B
  BY <1>1, <1>4, CountingInduction
<1>6. UpMost(all, s) \in 1..n /\ TopIn(all, UpMost(all, s)) = TopIn(all, s)
  BY UpKeepsTop DEF n
<1> QED
  BY <1>2, <1>5, <1>6 DEF B

-----------------------------------------------------------------------------
(* What is read.                                                           *)

\* ReadBy, of any scopes.
ReadIn(all, st) ==
  LET walk[s \in DOMAIN all] ==
        {s} \cup (IF all[s].up # 0 THEN walk[all[s].up]
                  ELSE IF all[s].top \/ all[s].search = 0 THEN {} ELSE walk[all[s].search])
  IN  walk[st]

\* What is gathered on a walk.
Gathers(n, stops, next) == \E f : f = [s \in 1..n |-> {s} \cup (IF s \in stops THEN {} ELSE f[next[s]])]

\* There is such a function.
LEMMA GatherExists ==
  ASSUME NEW n \in Nat, NEW stops, NEW next, Earlier(n, stops, next)
  PROVE  Gathers(n, stops, next)
<1> DEFINE Got(f, s) == {s} \cup (IF s \in stops THEN {} ELSE f[next[s]])
           S == {m \in Nat : m <= n => \E f : f = [s \in 1..m |-> Got(f, s)]}
<1>1. 0 \in S
  <2> DEFINE f == [s \in 1..0 |-> s]
  <2>1. f = [s \in 1..0 |-> Got(f, s)]
    BY 1..0 = {}
  <2> QED
    BY <2>1
<1>2. ASSUME NEW m \in Nat, m \in S PROVE m + 1 \in S
  <2>1. SUFFICES ASSUME m + 1 <= n
                 PROVE  \E f : f = [s \in 1..(m + 1) |-> Got(f, s)]
    OBVIOUS
  <2>2. PICK f : f = [s \in 1..m |-> Got(f, s)]
    BY <1>2, <2>1
  <2> DEFINE h == [s \in 1..(m + 1) |-> Got(f, s)]
  <2>3. \A s \in 1..m : h[s] = f[s]
    <3> HIDE DEF Got
    <3> QED
      BY <2>2
  <2>4. ASSUME NEW s \in 1..(m + 1) PROVE h[s] = Got(h, s)
    <3>1. CASE s \in stops
      BY <3>1
    <3>2. CASE s \notin stops
      <4>1. s \in 1..n
        BY <2>1
      <4>2. next[s] \in 1..(s - 1)
        BY <3>2, <4>1 DEF Earlier
      <4>3. next[s] \in 1..m
        BY <4>2
      <4>4. h[next[s]] = f[next[s]]
        BY <2>3, <4>3
      <4>5. h[s] = {s} \cup f[next[s]]
        BY <3>2
      <4> HIDE DEF h
      <4> QED
        BY <3>2, <4>4, <4>5
    <3> QED
      BY <3>1, <3>2
  <2>5. h = [s \in 1..(m + 1) |-> h[s]]
    OBVIOUS
  <2> HIDE DEF h, Got
  <2>6. h = [s \in 1..(m + 1) |-> Got(h, s)]
    BY <2>4, <2>5
  <2> QED
    BY <2>6
<1> HIDE DEF S
<1>3. S \subseteq Nat
  BY DEF S
<1>4. n \in S
  BY <1>1, <1>2, <1>3, SetInduction
<1> QED
  BY <1>4 DEF S, Gathers

\* A scope, and what is read from the next one on.
LEMMA ReadUnfold ==
  ASSUME NEW all, Links(all), NEW s \in 1..Len(all)
  PROVE  ReadIn(all, s) = {s} \cup (IF all[s].up # 0 THEN ReadIn(all, all[s].up)
                                    ELSE IF all[s].top \/ all[s].search = 0 THEN {} ELSE ReadIn(all, all[s].search))
<1> DEFINE n == Len(all)
           stops == {x \in 1..n : all[x].up = 0 /\ (all[x].top \/ all[x].search = 0)}
           next == [x \in 1..n |-> IF all[x].up # 0 THEN all[x].up ELSE all[x].search]
           Got(f, x) == {x} \cup (IF all[x].up # 0 THEN f[all[x].up]
                                  ELSE IF all[x].top \/ all[x].search = 0 THEN {} ELSE f[all[x].search])
           IsWalk(f) == f = [x \in 1..n |-> Got(f, x)]
           walk == CHOOSE f : IsWalk(f)
<1>1. n \in Nat /\ DOMAIN all = 1..n
  BY SeqFacts DEF Links
<1>2. \A x \in 1..n : /\ all[x].up # 0 => all[x].up \in 1..(x - 1)
                      /\ ~all[x].top => all[x].search \in 1..(x - 1)
  BY DEF Links
<1>3. \E f : IsWalk(f)
  <2>1. Earlier(n, stops, next)
    BY <1>2 DEF Earlier
  <2> HIDE DEF stops, next, n
  <2>2. Gathers(n, stops, next)
    BY <1>1, <2>1, GatherExists
  <2>3. PICK f : f = [x \in 1..n |-> {x} \cup (IF x \in stops THEN {} ELSE f[next[x]])]
    BY <2>2 DEF Gathers
  <2>4. ASSUME NEW x \in 1..n PROVE {x} \cup (IF x \in stops THEN {} ELSE f[next[x]]) = Got(f, x)
    <3>1. CASE all[x].up # 0
      BY <3>1 DEF stops, next
    <3>2. CASE all[x].up = 0 /\ (all[x].top \/ all[x].search = 0)
      BY <3>2 DEF stops, next
    <3>3. CASE all[x].up = 0 /\ ~(all[x].top \/ all[x].search = 0)
      BY <3>3 DEF stops, next
    <3> QED
      BY <3>1, <3>2, <3>3
  <2> HIDE DEF Got
  <2>5. f = [x \in 1..n |-> Got(f, x)]
    BY <2>3, <2>4
  <2> QED
    BY <2>5
<1>4. IsWalk(walk)
  BY <1>3
<1>5. \A x : ReadIn(all, x) = walk[x]
  BY <1>1 DEF ReadIn
<1> HIDE DEF walk, n
<1>6. walk[s] = Got(walk, s)
  <2> HIDE DEF Got
  <2> QED
    BY <1>4 DEF n
<1> QED
  BY <1>5, <1>6

\* All that is read has the same top scope.
LEMMA ReadKeepsTop ==
  ASSUME NEW all, Links(all), SameTop(all), NEW s \in 1..Len(all)
  PROVE  \A y \in ReadIn(all, s) : y \in 1..Len(all) /\ TopIn(all, y) = TopIn(all, s)
<1> DEFINE n == Len(all)
           B == {x \in 1..n : \A y \in ReadIn(all, x) : y \in 1..n /\ TopIn(all, y) = TopIn(all, x)}
<1>1. n \in Nat
  BY SeqFacts DEF Links
<1>2. ASSUME NEW x \in 1..n, 1..(x - 1) \subseteq B PROVE x \in B
  <2>1. ReadIn(all, x) = {x} \cup (IF all[x].up # 0 THEN ReadIn(all, all[x].up)
                                   ELSE IF all[x].top \/ all[x].search = 0 THEN {} ELSE ReadIn(all, all[x].search))
    BY ReadUnfold
  <2>2. CASE all[x].up # 0
    <3>1. all[x].up \in B /\ TopIn(all, all[x].up) = TopIn(all, x)
      BY <1>2, <2>2 DEF Links, SameTop
    <3>2. ReadIn(all, x) = {x} \cup ReadIn(all, all[x].up)
      BY <2>1, <2>2
    <3> QED
      BY <3>1, <3>2
  <2>3. CASE all[x].up = 0 /\ (all[x].top \/ all[x].search = 0)
    <3>1. ReadIn(all, x) = {x}
      BY <2>1, <2>3
    <3> QED
      BY <3>1
  <2>4. CASE all[x].up = 0 /\ ~all[x].top /\ all[x].search # 0
    <3>1. all[x].search \in B
      BY <1>2, <2>4 DEF Links
    <3>2. TopIn(all, x) = IF all[x].top THEN x ELSE TopIn(all, all[x].search)
      BY TopUnfold
    <3>3. TopIn(all, all[x].search) = TopIn(all, x)
      BY <2>4, <3>2
    <3>4. ReadIn(all, x) = {x} \cup ReadIn(all, all[x].search)
      BY <2>1, <2>4
    <3> QED
      BY <3>1, <3>3, <3>4
  <2> QED
    BY <2>2, <2>3, <2>4
<1> HIDE DEF B
<1>3. 1..n \subseteq B
  BY <1>1, <1>2, CountingInduction
<1> QED
  BY <1>3 DEF B

-----------------------------------------------------------------------------
(* The invariant.                                                          *)

\* A scope has these fields and no others.
IsScope(v) == v = [up |-> v.up, search |-> v.search, top |-> v.top, owned |-> v.owned, byParser |-> v.byParser]

\* The pool of a live top scope is what has that top scope, and what is freed is freed
\* with the whole pool.
PoolsOK ==
  /\ Links(scopes) /\ SameTop(scopes) /\ \A s \in 1..Len(scopes) : IsScope(scopes[s])
  /\ \A s \in 1..Len(scopes) : scopes[s].owned => ~scopes[TopIn(scopes, s)].byParser
  /\ freed \subseteq 1..Len(scopes)
  /\ \A s \in 1..Len(scopes) : s \in freed <=> TopIn(scopes, s) \in freed
  /\ DOMAIN pools = {t \in 1..Len(scopes) : scopes[t].top /\ t \notin freed}
  /\ \A t \in DOMAIN pools : pools[t] = {s \in 1..Len(scopes) : TopIn(scopes, s) = t}
  /\ misused = {}

\* A top scope that the parser would free is its own and has not been freed.
ParserOwns ==
  /\ parser = [top |-> parser.top, initial |-> parser.initial]
  /\ parses \in Nat /\ (parser.top # 0 => parses # 0)
  /\ parser.top # 0 /\ parser.initial = 0 =>
       /\ parser.top \in 1..Len(scopes) /\ parser.top \notin freed
       /\ scopes[parser.top].top /\ scopes[parser.top].byParser

PoolInv == PoolsOK /\ ParserOwns

\* The operators of ScopePool, of its scopes.
LEMMA TheseScopes ==
  ASSUME Links(scopes)
  PROVE  /\ DOMAIN scopes = 1..Len(scopes) /\ Len(scopes) \in Nat
         /\ \A s : TopOf(s) = TopIn(scopes, s) /\ ReadBy(s) = ReadIn(scopes, s)
<1>1. DOMAIN scopes = 1..Len(scopes) /\ Len(scopes) \in Nat
  BY SeqFacts DEF Links
<1>2. \A s : TopOf(s) = TopIn(scopes, s)
  BY DEF TopOf, TopIn
<1>3. \A s : ReadBy(s) = ReadIn(scopes, s)
  BY DEF ReadBy, ReadIn
<1> QED
  BY <1>1, <1>2, <1>3

\* A live scope is below a live top scope, and nothing freed is read from it.
LEMMA LiveBelowLive ==
  ASSUME PoolsOK, NEW s \in 1..Len(scopes), s \notin freed
  PROVE  TopIn(scopes, s) \notin freed /\ freed \cap ReadIn(scopes, s) = {}
<1>1. TopIn(scopes, s) \notin freed
  BY DEF PoolsOK
<1>2. \A y \in ReadIn(scopes, s) : y \in 1..Len(scopes) /\ TopIn(scopes, y) = TopIn(scopes, s)
  BY ReadKeepsTop DEF PoolsOK
<1>3. \A y \in ReadIn(scopes, s) : y \notin freed
  BY <1>1, <1>2 DEF PoolsOK
<1> QED
  BY <1>1, <1>3

-----------------------------------------------------------------------------
(* Making scopes.                                                          *)

\* A new top scope.
IsTop(r) == IsScope(r) /\ r.up = 0 /\ r.search = 0 /\ r.top /\ ~r.owned
\* A new scope below s: nested in it, or a copy of it.
IsBelow(r, s) ==
  /\ s \in 1..Len(scopes) /\ s \notin freed /\ IsScope(r) /\ r.search = s /\ ~r.top /\ ~r.owned
  /\ r.up = s \/ r.up = scopes[s].up

\* A new scope is one of the kinds that the walks are made for.
LEMMA AppendLinks ==
  ASSUME PoolsOK, NEW r, IsTop(r) \/ \E s : IsBelow(r, s)
  PROVE  LET more == Append(scopes, r)
         IN  /\ Extends(scopes, more) /\ Len(more) = Len(scopes) + 1 /\ more[Len(scopes) + 1] = r
             /\ \A s \in 1..Len(scopes) : more[s] = scopes[s]
<1> DEFINE n == Len(scopes)
           more == Append(scopes, r)
<1>1. Links(scopes) /\ n \in Nat
  BY SeqFacts DEF PoolsOK, Links
<1>2. IsSeq(more) /\ Len(more) = n + 1 /\ (\A s \in 1..n : more[s] = scopes[s]) /\ more[n + 1] = r
  BY <1>1, AppendFacts DEF Links
<1> HIDE DEF more, n
<1>3. ASSUME NEW s \in 1..(n + 1)
      PROVE  /\ more[s].up \in 0..(s - 1) /\ (more[s].top => more[s].up = 0 /\ more[s].search = 0)
             /\ (~more[s].top => more[s].search \in 1..(s - 1))
  <2>1. CASE s \in 1..n
    BY <1>1, <1>2, <2>1 DEF Links, n
  <2>2. CASE s = n + 1 /\ IsTop(r)
    BY <1>1, <1>2, <2>2 DEF IsTop
  <2>3. ASSUME NEW b, s = n + 1, IsBelow(r, b)
        PROVE  /\ more[s].up \in 0..(s - 1) /\ (more[s].top => more[s].up = 0 /\ more[s].search = 0)
               /\ (~more[s].top => more[s].search \in 1..(s - 1))
    <3>1. b \in 1..n /\ r.search = b /\ ~r.top /\ (r.up = b \/ r.up = scopes[b].up)
      BY <2>3 DEF IsBelow, n
    <3>2. scopes[b].up \in 0..(b - 1)
      BY <1>1, <3>1 DEF Links, n
    <3>3. r.up \in 0..n /\ s - 1 = n
      BY <1>1, <2>3, <3>1, <3>2
    <3> QED
      BY <1>2, <2>3, <3>1, <3>3
  <2> QED
    BY <1>1, <2>1, <2>2, <2>3
<1>4. Links(more)
  BY <1>2, <1>3 DEF Links
<1> QED
  BY <1>1, <1>2, <1>4 DEF Extends, more, n

\* The enclosing scope of a new scope has its top scope, too.
LEMMA AppendSameTop ==
  ASSUME PoolsOK, NEW r, IsTop(r) \/ \E s : IsBelow(r, s)
  PROVE  LET more == Append(scopes, r)
             n == Len(scopes)
         IN  /\ SameTop(more) /\ \A s \in 1..n : TopIn(more, s) = TopIn(scopes, s)
             /\ IsTop(r) => TopIn(more, n + 1) = n + 1
             /\ \A s : IsBelow(r, s) => TopIn(more, n + 1) = TopIn(scopes, s)
<1> DEFINE n == Len(scopes)
           more == Append(scopes, r)
<1>1. Links(scopes) /\ SameTop(scopes) /\ n \in Nat
  BY SeqFacts DEF PoolsOK, Links
<1>2. /\ Extends(scopes, more) /\ Len(more) = n + 1 /\ more[n + 1] = r
      /\ \A s \in 1..n : more[s] = scopes[s]
  BY AppendLinks
<1> HIDE DEF more
<1>3. \A s \in 1..n : TopIn(more, s) = TopIn(scopes, s)
  BY <1>2, TopStays
<1>4. Links(more) /\ n + 1 \in 1..Len(more)
  BY <1>1, <1>2 DEF Extends
<1>5. TopIn(more, n + 1) = IF r.top THEN n + 1 ELSE TopIn(more, r.search)
  <2>1. TopIn(more, n + 1) = IF more[n + 1].top THEN n + 1 ELSE TopIn(more, more[n + 1].search)
    BY <1>4, TopUnfold
  <2> QED
    BY <1>2, <2>1
<1>6. IsTop(r) => TopIn(more, n + 1) = n + 1
  BY <1>5 DEF IsTop
<1>7. ASSUME NEW s, IsBelow(r, s) PROVE TopIn(more, n + 1) = TopIn(scopes, s)
  BY <1>3, <1>5, <1>7 DEF IsBelow
<1>8. ASSUME NEW s \in 1..(n + 1), more[s].up # 0 PROVE TopIn(more, more[s].up) = TopIn(more, s)
  <2>1. CASE s \in 1..n
    <3>1. more[s].up = scopes[s].up /\ scopes[s].up # 0 /\ scopes[s].up \in 0..(s - 1)
      BY <1>1, <1>2, <1>8, <2>1 DEF Links
    <3>2. scopes[s].up \in 1..n
      BY <1>1, <2>1, <3>1
    <3>3. TopIn(scopes, scopes[s].up) = TopIn(scopes, s)
      BY <1>1, <2>1, <3>1 DEF SameTop
    <3> QED
      BY <1>3, <2>1, <3>1, <3>2, <3>3
  <2>2. CASE s = n + 1
    <3>1. more[s] = r /\ ~IsTop(r)
      BY <1>2, <1>8, <2>2 DEF IsTop
    <3>2. PICK b : IsBelow(r, b)
      BY <3>1
    <3>3. b \in 1..n /\ (r.up = b \/ r.up = scopes[b].up) /\ r.up # 0
      BY <1>8, <3>1, <3>2 DEF IsBelow
    <3>4. r.up \in 1..n /\ TopIn(scopes, r.up) = TopIn(scopes, b)
      <4>1. CASE r.up = b
        BY <3>3, <4>1
      <4>2. CASE r.up = scopes[b].up
        <5>1. scopes[b].up \in 0..(b - 1)
          BY <1>1, <3>3 DEF Links
        <5> QED
          BY <1>1, <3>3, <4>2, <5>1 DEF SameTop
      <4> QED
        BY <3>3, <4>1, <4>2
    <3>5. TopIn(more, s) = TopIn(scopes, b)
      BY <1>7, <2>2, <3>2
    <3> QED
      BY <1>3, <3>1, <3>4, <3>5
  <2> QED
    BY <1>1, <2>1, <2>2
<1>9. SameTop(more)
  BY <1>2, <1>8 DEF SameTop
<1> QED
  BY <1>3, <1>6, <1>7, <1>9 DEF more

\* A new scope is put into the pool of its top scope.
LEMMA MakeKeeps ==
  ASSUME PoolsOK, NEW r, IsTop(r) \/ \E s : IsBelow(r, s), Make(r), UNCHANGED freed
  PROVE  PoolsOK' /\ scopes' = Append(scopes, r) /\ Len(scopes') = Len(scopes) + 1
<1> DEFINE n == Len(scopes)
           more == Append(scopes, r)
<1>1. /\ Links(scopes) /\ SameTop(scopes) /\ n \in Nat /\ freed \subseteq 1..n /\ misused = {}
      /\ \A s \in 1..n : s \in freed <=> TopIn(scopes, s) \in freed
      /\ \A s \in 1..n : scopes[s].owned => ~scopes[TopIn(scopes, s)].byParser
      /\ DOMAIN pools = {t \in 1..n : scopes[t].top /\ t \notin freed}
      /\ \A t \in DOMAIN pools : pools[t] = {s \in 1..n : TopIn(scopes, s) = t}
  BY SeqFacts DEF PoolsOK, Links
<1>2. /\ Links(more) /\ Len(more) = n + 1 /\ more[n + 1] = r /\ \A s \in 1..n : more[s] = scopes[s]
  BY AppendLinks DEF Extends
<1>3. /\ SameTop(more) /\ \A s \in 1..n : TopIn(more, s) = TopIn(scopes, s)
      /\ IsTop(r) => TopIn(more, n + 1) = n + 1
      /\ \A s : IsBelow(r, s) => TopIn(more, n + 1) = TopIn(scopes, s)
  BY AppendSameTop
<1>4. /\ scopes' = more /\ pools' = Register(more, n + 1) /\ freed' = freed
      /\ misused' = misused \cup (IF r.search = 0 THEN {} ELSE freed \cap ReadBy(r.search))
  BY <1>2 DEF Make
<1> HIDE DEF more
<1>5. PoolOf(more, n + 1) = TopIn(more, n + 1)
  BY <1>1, <1>2, <1>3, PoolIsTop
<1>6. \A s \in 1..n : TopIn(scopes, s) \in 1..n /\ scopes[TopIn(scopes, s)].top
  <2>1. \A s \in 1..n : TopIn(scopes, s) \in 1..s /\ scopes[TopIn(scopes, s)].top
    BY <1>1, TopReaches
  <2> HIDE DEF n
  <2> QED
    BY <1>1, <2>1
<1> DEFINE last == n + 1
           Goal == /\ misused' = {} /\ (r.owned => ~more[TopIn(more, last)].byParser)
                   /\ last \notin freed /\ TopIn(more, last) \notin freed
                   /\ DOMAIN pools' = {t \in 1..last : more[t].top /\ t \notin freed}
                   /\ \A t \in DOMAIN pools' : pools'[t] = {s \in 1..last : TopIn(more, s) = t}
<1>7. last \in Nat /\ last \notin 1..n /\ 1..last = (1..n) \cup {last} /\ n = last - 1
  BY <1>1
<1>8. ASSUME IsTop(r) PROVE Goal
  <2>1. misused' = {} /\ ~r.owned
    BY <1>1, <1>4, <1>8 DEF IsTop
  <2>2. last \notin freed /\ TopIn(more, last) = last
    BY <1>1, <1>3, <1>7, <1>8
  <2>3. pools' = [t \in DOMAIN pools \cup {last} |-> IF t = last THEN {last} ELSE pools[t]]
    BY <1>2, <1>4, <1>8 DEF Register, IsTop
  <2> HIDE DEF last, n
  <2>4. last \notin DOMAIN pools
    BY <1>1, <1>7
  <2>5. DOMAIN pools' = {t \in 1..last : more[t].top /\ t \notin freed}
    <3>1. more[last].top
      BY <1>2, <1>8 DEF IsTop, last
    <3> QED
      BY <1>1, <1>2, <1>7, <2>2, <2>3, <3>1
  <2>6. ASSUME NEW t \in DOMAIN pools' PROVE pools'[t] = {s \in 1..last : TopIn(more, s) = t}
    <3>1. CASE t = last
      <4>1. pools'[t] = {last}
        BY <2>3, <3>1
      <4>2. \A s \in 1..n : TopIn(more, s) # last
        BY <1>3, <1>6, <1>7
      <4> QED
        BY <1>7, <2>2, <3>1, <4>1, <4>2
    <3>2. CASE t # last
      <4>1. t \in DOMAIN pools /\ pools'[t] = pools[t]
        BY <2>3, <2>6, <3>2
      <4> QED
        BY <1>1, <1>3, <1>7, <2>2, <3>2, <4>1
    <3> QED
      BY <3>1, <3>2
  <2> QED
    BY <2>1, <2>2, <2>5, <2>6 DEF last
<1>9. ASSUME NEW b, IsBelow(r, b) PROVE Goal
  <2>1. b \in 1..n /\ b \notin freed /\ r.search = b /\ ~r.top /\ ~r.owned
    BY <1>9 DEF IsBelow
  <2> DEFINE top == TopIn(scopes, b)
  <2>2. top \notin freed /\ freed \cap ReadIn(scopes, b) = {} /\ ReadBy(b) = ReadIn(scopes, b)
    BY <1>1, <2>1, LiveBelowLive, TheseScopes
  <2>3. TopIn(more, last) = top /\ top \in 1..n /\ scopes[top].top
    BY <1>3, <1>6, <1>9, <2>1
  <2> HIDE DEF top
  <2>4. misused' = {}
    BY <1>1, <1>4, <2>1, <2>2
  <2>5. top \in DOMAIN pools
    BY <1>1, <2>2, <2>3
  <2>6. pools' = [pools EXCEPT ![top] = pools[top] \cup {last}]
    BY <1>2, <1>4, <1>5, <2>1, <2>3, <2>5 DEF Register
  <2> HIDE DEF last, n
  <2>7. last \notin freed
    BY <1>1, <1>7
  <2>8. DOMAIN pools' = {t \in 1..last : more[t].top /\ t \notin freed}
    <3>1. ~more[last].top
      BY <1>2, <2>1 DEF last
    <3>2. DOMAIN pools' = DOMAIN pools
      BY <2>6
    <3> QED
      BY <1>1, <1>2, <1>7, <3>1, <3>2
  <2>9. ASSUME NEW t \in DOMAIN pools' PROVE pools'[t] = {s \in 1..last : TopIn(more, s) = t}
    <3>1. t \in DOMAIN pools
      BY <2>6, <2>9
    <3>2. CASE t = top
      <4>1. pools'[t] = pools[t] \cup {last}
        BY <2>6, <3>1, <3>2
      <4> QED
        BY <1>1, <1>3, <1>7, <2>3, <3>1, <3>2, <4>1
    <3>3. CASE t # top
      <4>1. pools'[t] = pools[t]
        BY <2>6, <3>1, <3>3
      <4> QED
        BY <1>1, <1>3, <1>7, <2>3, <3>1, <3>3, <4>1
    <3> QED
      BY <3>2, <3>3
  <2> QED
    BY <2>1, <2>2, <2>3, <2>4, <2>7, <2>8, <2>9
<1> HIDE DEF Goal
<1>10. Goal
  BY <1>8, <1>9
<1> HIDE DEF last
<1>11. \A s \in 1..last : s \in freed <=> TopIn(more, s) \in freed
  BY <1>1, <1>3, <1>7, <1>10 DEF Goal
<1>12. \A s \in 1..last : more[s].owned => ~more[TopIn(more, s)].byParser
  <2>1. \A s \in 1..n : more[s].owned => ~more[TopIn(more, s)].byParser
    BY <1>1, <1>2, <1>3, <1>6
  <2>2. more[last] = r
    BY <1>2 DEF last
  <2> HIDE DEF n
  <2> QED
    BY <1>7, <1>10, <2>1, <2>2 DEF Goal
<1>13. freed \subseteq 1..last
  BY <1>1, <1>7
<1>14. Len(more) = last
  BY <1>2 DEF last
<1>15. \A s \in 1..last : IsScope(more[s])
  <2>1. \A s \in 1..n : IsScope(more[s])
    BY <1>2 DEF PoolsOK
  <2>2. IsScope(more[last])
    BY <1>2 DEF IsTop, IsBelow, last
  <2> HIDE DEF n
  <2> QED
    BY <1>7, <2>1, <2>2
<1> QED
  BY <1>2, <1>3, <1>4, <1>10, <1>11, <1>12, <1>13, <1>14, <1>15 DEF PoolsOK, Goal, last, more

-----------------------------------------------------------------------------
(* Freeing.                                                                *)

\* A free that skips nothing frees the whole pool of a live top scope; of another scope,
\* it frees nothing.
LEMMA FreeKeeps ==
  ASSUME PoolsOK, NEW st \in 1..Len(scopes), st \notin freed, NEW force, FreeScope(st, force),
         scopes[st].top => Skipped(st, force) = {}, UNCHANGED scopes
  PROVE  PoolsOK' /\ \A t \in 1..Len(scopes) : t \in freed' => t \in freed \/ TopIn(scopes, t) = st
<1> DEFINE n == Len(scopes)
<1>1. /\ Links(scopes) /\ SameTop(scopes) /\ (\A s \in 1..n : IsScope(scopes[s])) /\ n \in Nat /\ freed \subseteq 1..n /\ misused = {}
      /\ \A s \in 1..n : s \in freed <=> TopIn(scopes, s) \in freed
      /\ \A s \in 1..n : scopes[s].owned => ~scopes[TopIn(scopes, s)].byParser
      /\ DOMAIN pools = {t \in 1..n : scopes[t].top /\ t \notin freed}
      /\ \A t \in DOMAIN pools : pools[t] = {s \in 1..n : TopIn(scopes, s) = t}
  BY SeqFacts DEF PoolsOK, Links
<1>2. scopes' = scopes
  OBVIOUS
<1>3. CASE scopes[st].top
  <2>1. st \in DOMAIN pools /\ pools[st] = {s \in 1..n : TopIn(scopes, s) = st}
    BY <1>1, <1>3
  <2>2. /\ misused' = misused \cup (freed \cap ({st} \cup pools[st]))
        /\ freed' = freed \cup pools[st] /\ pools' = [t \in DOMAIN pools \ {st} |-> pools[t]]
    <3>1. Skipped(st, force) = {}
      BY <1>3
    <3> QED
      BY <1>3, <2>1, <3>1 DEF FreeScope
  <2>3. \A t \in 1..n : scopes[t].top => TopIn(scopes, t) = t
    <3>1. \A t \in 1..n : TopIn(scopes, t) = IF scopes[t].top THEN t ELSE TopIn(scopes, scopes[t].search)
      BY <1>1, TopUnfold
    <3> QED
      BY <3>1
  <2>4. \A s \in 1..n : TopIn(scopes, s) \in 1..n /\ scopes[TopIn(scopes, s)].top
    <3>1. \A s \in 1..n : TopIn(scopes, s) \in 1..s /\ scopes[TopIn(scopes, s)].top
      BY <1>1, TopReaches
    <3> HIDE DEF n
    <3> QED
      BY <1>1, <3>1
  <2> HIDE DEF n
  <2>5. misused' = {}
    BY <1>1, <2>1, <2>2 DEF n
  <2>6. \A s \in 1..n : s \in freed' <=> s \in freed \/ TopIn(scopes, s) = st
    BY <2>1, <2>2
  <2>7. \A s \in 1..n : s \in freed' <=> TopIn(scopes, s) \in freed'
    BY <1>1, <2>3, <2>4, <2>6
  <2>8. DOMAIN pools' = {t \in 1..n : scopes[t].top /\ t \notin freed'}
    BY <1>1, <2>2, <2>3, <2>6
  <2>9. \A t \in DOMAIN pools' : pools'[t] = {s \in 1..n : TopIn(scopes, s) = t}
    BY <1>1, <2>2
  <2>10. freed' \subseteq 1..n
    BY <1>1, <2>1, <2>2
  <2> QED
    BY <1>1, <1>2, <2>5, <2>6, <2>7, <2>8, <2>9, <2>10 DEF PoolsOK, n
<1>4. CASE ~scopes[st].top
  <2>1. misused' = misused \cup (freed \cap ReadBy(st)) /\ freed' = freed /\ pools' = pools
    BY <1>4 DEF FreeScope
  <2>2. freed \cap ReadIn(scopes, st) = {} /\ ReadBy(st) = ReadIn(scopes, st)
    BY <1>1, LiveBelowLive, TheseScopes
  <2>3. misused' = {}
    BY <1>1, <2>1, <2>2
  <2> QED
    BY <1>1, <1>2, <2>1, <2>3 DEF PoolsOK
<1> QED
  BY <1>3, <1>4

\* The user frees nothing that the parser holds.
LEMMA UserFreeKeeps ==
  ASSUME PoolInv, Usage = {}, NEW st \in DOMAIN scopes, NEW force \in BOOLEAN, UserFree(st, force)
  PROVE  PoolInv'
<1>1. PoolsOK /\ ParserOwns /\ Links(scopes)
  BY DEF PoolInv, PoolsOK
<1>2. DOMAIN scopes = 1..Len(scopes)
  BY <1>1, TheseScopes
<1>3. /\ ~scopes[st].byParser /\ st \in Live /\ (scopes[st].top => Skipped(st, force) = {})
      /\ FreeScope(st, force) /\ UNCHANGED <<scopes, parser, parses>>
  BY DEF UserFree, Usable
<1>4. st \in 1..Len(scopes) /\ st \notin freed
  BY <1>2, <1>3 DEF Live
<1>5. PoolsOK' /\ \A t \in 1..Len(scopes) : t \in freed' => t \in freed \/ TopIn(scopes, t) = st
  BY <1>1, <1>3, <1>4, FreeKeeps
<1>6. ParserOwns'
  <2>1. SUFFICES ASSUME parser.top # 0, parser.initial = 0 PROVE parser.top \notin freed'
    BY <1>1, <1>3 DEF ParserOwns
  <2>2. /\ parser.top \in 1..Len(scopes) /\ parser.top \notin freed /\ scopes[parser.top].top
        /\ scopes[parser.top].byParser
    BY <1>1, <2>1 DEF ParserOwns
  <2>3. TopIn(scopes, parser.top) = IF scopes[parser.top].top THEN parser.top
                                    ELSE TopIn(scopes, scopes[parser.top].search)
    BY <1>1, <2>2, TopUnfold
  <2>4. TopIn(scopes, parser.top) = parser.top /\ parser.top # st
    BY <1>3, <2>2, <2>3
  <2> QED
    BY <1>5, <2>2, <2>4
<1> QED
  BY <1>5, <1>6 DEF PoolInv

\* The parser frees the top scope that it made, of which the user owns nothing.
LEMMA ParserFrees ==
  ASSUME PoolInv, parser.top # 0, parser.initial = 0, FreeScope(parser.top, FALSE), UNCHANGED scopes
  PROVE  PoolsOK'
<1>1. PoolsOK /\ ParserOwns /\ Links(scopes)
  BY DEF PoolInv, PoolsOK
<1> DEFINE top == parser.top
<1>2. top \in 1..Len(scopes) /\ top \notin freed /\ scopes[top].top /\ scopes[top].byParser
  BY <1>1 DEF ParserOwns
<1>3. pools[top] = {s \in 1..Len(scopes) : TopIn(scopes, s) = top}
  BY <1>1, <1>2 DEF PoolsOK
<1>4. Skipped(top, FALSE) = {}
  <2>1. Skipped(top, FALSE) = {s \in pools[top] : scopes[s].owned}
    BY DEF Skipped
  <2> QED
    BY <1>1, <1>2, <1>3, <2>1 DEF PoolsOK
<1> HIDE DEF top
<1>5. FreeScope(top, FALSE)
  BY DEF top
<1> QED
  BY <1>1, <1>2, <1>4, <1>5, FreeKeeps

-----------------------------------------------------------------------------
(* The steps.                                                              *)

\* A scope that the user keeps.
Kept(v) == [v EXCEPT !.owned = TRUE]

\* Its other fields are the same.
LEMMA KeptFields ==
  ASSUME NEW v, IsScope(v)
  PROVE  LET w == Kept(v)
         IN  IsScope(w) /\ w.up = v.up /\ w.search = v.search /\ w.top = v.top /\ w.byParser = v.byParser
<1> DEFINE w == Kept(v)
<1>1. w = [v EXCEPT !.owned = TRUE]
  BY DEF Kept
<1> HIDE DEF w
<1>2. v = [up |-> v.up, search |-> v.search, top |-> v.top, owned |-> v.owned, byParser |-> v.byParser]
  BY DEF IsScope
<1>3. w.up = v.up /\ w.search = v.search /\ w.top = v.top /\ w.byParser = v.byParser
  BY <1>1, <1>2
<1>4. w = [up |-> w.up, search |-> w.search, top |-> w.top, owned |-> w.owned, byParser |-> w.byParser]
  BY <1>1, <1>2
<1> QED
  BY <1>3, <1>4 DEF IsScope, w

\* What the parser owns stays when scopes are made.
LEMMA MakeKeepsParser ==
  ASSUME PoolInv, NEW r, IsTop(r) \/ \E s : IsBelow(r, s), Make(r), UNCHANGED <<freed, parser, parses>>
  PROVE  PoolInv'
<1>1. PoolsOK /\ ParserOwns /\ Links(scopes)
  BY DEF PoolInv, PoolsOK
<1>2. PoolsOK' /\ scopes' = Append(scopes, r) /\ Len(scopes') = Len(scopes) + 1
  BY <1>1, MakeKeeps
<1>3. (\A s \in 1..Len(scopes) : scopes'[s] = scopes[s]) /\ 1..Len(scopes) \subseteq 1..Len(scopes')
  <2>1. \A s \in 1..Len(scopes) : Append(scopes, r)[s] = scopes[s]
    BY <1>1, AppendLinks
  <2>2. Len(scopes) \in Nat
    BY <1>1, TheseScopes
  <2> QED
    BY <1>2, <2>1, <2>2
<1>4. ParserOwns'
  BY <1>1, <1>3 DEF ParserOwns
<1> QED
  BY <1>2, <1>4 DEF PoolInv

\* new_D_Scope by the user.
LEMMA NewTopKeeps ==
  ASSUME PoolInv, NewTop
  PROVE  PoolInv'
<1> DEFINE r == Scope(0, 0, TRUE, FALSE)
<1>1. Make(r) /\ UNCHANGED <<freed, parser, parses>>
  BY DEF NewTop
<1>2. IsTop(r)
  BY DEF Scope, IsScope, IsTop
<1> HIDE DEF r
<1> QED
  BY <1>1, <1>2, MakeKeepsParser

\* enter_D_Scope and global_D_Scope, or a nested new_D_Scope.
LEMMA NestedKeeps ==
  ASSUME PoolInv, NEW s \in DOMAIN scopes, Nested(s) \/ Entered(s)
  PROVE  PoolInv'
<1>1. DOMAIN scopes = 1..Len(scopes)
  BY TheseScopes DEF PoolInv, PoolsOK
<1>2. s \in 1..Len(scopes) /\ s \notin freed /\ UNCHANGED <<freed, parser, parses>>
  BY <1>1 DEF Nested, Entered, Usable, Live
<1>3. CASE Nested(s)
  <2> DEFINE r == Scope(s, s, FALSE, FALSE)
  <2>1. Make(r)
    BY <1>3 DEF Nested
  <2>2. IsBelow(r, s)
    BY <1>2 DEF Scope, IsScope, IsBelow
  <2> HIDE DEF r
  <2> QED
    BY <1>2, <2>1, <2>2, MakeKeepsParser
<1>4. CASE Entered(s)
  <2> DEFINE r == Scope(scopes[s].up, s, FALSE, FALSE)
  <2>1. Make(r)
    BY <1>4 DEF Entered
  <2>2. IsBelow(r, s)
    BY <1>2 DEF Scope, IsScope, IsBelow
  <2> HIDE DEF r
  <2> QED
    BY <1>2, <2>1, <2>2, MakeKeepsParser
<1> QED
  BY <1>3, <1>4

\* The user keeps a scope, of a top scope that is not the parser's.
LEMMA OwnKeeps ==
  ASSUME PoolInv, Usage = {}, NEW s \in DOMAIN scopes, Own(s)
  PROVE  PoolInv'
<1>1. PoolsOK /\ ParserOwns /\ Links(scopes)
  BY DEF PoolInv, PoolsOK
<1>2. /\ DOMAIN scopes = 1..Len(scopes) /\ Len(scopes) \in Nat /\ s \in 1..Len(scopes)
      /\ TopOf(s) = TopIn(scopes, s)
  BY <1>1, TheseScopes
<1>3. /\ ~scopes[TopIn(scopes, s)].byParser /\ scopes' = [scopes EXCEPT ![s] = Kept(scopes[s])]
      /\ UNCHANGED <<pools, freed, misused, parser, parses>>
  BY <1>2 DEF Own, Kept
<1>4. /\ DOMAIN scopes' = 1..Len(scopes)
      /\ \A x \in 1..Len(scopes) : /\ IsScope(scopes'[x]) /\ scopes'[x].up = scopes[x].up
                                   /\ scopes'[x].search = scopes[x].search
                                   /\ scopes'[x].top = scopes[x].top /\ scopes'[x].byParser = scopes[x].byParser
                                   /\ x # s => scopes'[x].owned = scopes[x].owned
  <2>1. \A x \in 1..Len(scopes) : IsScope(scopes[x])
    BY <1>1 DEF PoolsOK
  <2> DEFINE w == Kept(scopes[s])
  <2>2. /\ IsScope(w) /\ w.up = scopes[s].up /\ w.search = scopes[s].search
        /\ w.top = scopes[s].top /\ w.byParser = scopes[s].byParser
    BY <1>2, <2>1, KeptFields
  <2>3. scopes' = [scopes EXCEPT ![s] = w]
    BY <1>3
  <2> HIDE DEF w
  <2>4. DOMAIN scopes' = 1..Len(scopes) /\ scopes'[s] = w /\ \A x \in 1..Len(scopes) : x # s => scopes'[x] = scopes[x]
    BY <1>2, <2>3
  <2> QED
    BY <2>1, <2>2, <2>4
<1>5. IsSeq(scopes') /\ Len(scopes') = Len(scopes)
  <2> DEFINE v == scopes'
             n == Len(scopes)
  <2>1. v = [x \in 1..n |-> v[x]] /\ n \in Nat
    BY <1>2, <1>3
  <2> HIDE DEF v, n
  <2>2. IsSeq(v) /\ Len(v) = n
    BY <2>1, FunctionIsSeq
  <2> QED
    BY <2>2 DEF v, n
<1>6. Links(scopes')
  BY <1>1, <1>4, <1>5 DEF Links
<1>7. Extends(scopes, scopes')
  BY <1>1, <1>2, <1>4, <1>5, <1>6 DEF Extends
<1>8. \A x \in 1..Len(scopes) : TopIn(scopes', x) = TopIn(scopes, x)
  BY <1>7, TopStays
<1>9. \A x \in 1..Len(scopes) : TopIn(scopes, x) \in 1..Len(scopes)
  <2>1. \A x \in 1..Len(scopes) : TopIn(scopes, x) \in 1..x
    BY <1>1, TopReaches
  <2> QED
    BY <1>2, <2>1
<1> DEFINE n == Len(scopes)
<1>10. SameTop(scopes')
  <2>1. ASSUME NEW x \in 1..n, scopes'[x].up # 0 PROVE TopIn(scopes', scopes'[x].up) = TopIn(scopes', x)
    <3>1. scopes'[x].up = scopes[x].up /\ scopes[x].up \in 0..(x - 1)
      BY <1>1, <1>4 DEF Links
    <3>2. SameTop(scopes) /\ n \in Nat
      BY <1>1, <1>2 DEF PoolsOK
    <3>3. TopIn(scopes, scopes[x].up) = TopIn(scopes, x)
      BY <2>1, <3>1, <3>2 DEF SameTop
    <3>4. TopIn(scopes', x) = TopIn(scopes, x) /\ \A y \in 1..n : TopIn(scopes', y) = TopIn(scopes, y)
      BY <1>8
    <3> HIDE DEF n
    <3>5. scopes[x].up \in 1..n
      BY <2>1, <3>1, <3>2
    <3> QED
      BY <3>1, <3>3, <3>4, <3>5
  <2> QED
    BY <1>5, <2>1 DEF SameTop
<1>11. \A x \in 1..n : scopes'[x].owned => ~scopes'[TopIn(scopes', x)].byParser
  <2>1. \A x \in 1..n : scopes'[TopIn(scopes', x)].byParser = scopes[TopIn(scopes, x)].byParser
    BY <1>4, <1>8, <1>9
  <2>2. \A x \in 1..n : x # s => (scopes[x].owned => ~scopes[TopIn(scopes, x)].byParser)
    BY <1>1 DEF PoolsOK
  <2>3. \A x \in 1..n : x # s => scopes'[x].owned = scopes[x].owned
    BY <1>4
  <2> HIDE DEF n
  <2> QED
    BY <1>3, <2>1, <2>2, <2>3
<1>12. PoolsOK'
  <2>1. /\ freed \subseteq 1..n /\ misused = {}
        /\ \A x \in 1..n : x \in freed <=> TopIn(scopes, x) \in freed
        /\ DOMAIN pools = {t \in 1..n : scopes[t].top /\ t \notin freed}
        /\ \A t \in DOMAIN pools : pools[t] = {x \in 1..n : TopIn(scopes, x) = t}
    BY <1>1 DEF PoolsOK
  <2>2. /\ \A x \in 1..n : TopIn(scopes', x) = TopIn(scopes, x) /\ scopes'[x].top = scopes[x].top
        /\ \A x \in 1..n : IsScope(scopes'[x])
    BY <1>4, <1>8
  <2>3. Len(scopes') = n /\ freed' = freed /\ pools' = pools /\ misused' = misused
    BY <1>3, <1>5
  <2> HIDE DEF n
  <2>4. {t \in 1..n : scopes'[t].top /\ t \notin freed} = {t \in 1..n : scopes[t].top /\ t \notin freed}
    BY <2>2
  <2>5. \A t : {x \in 1..n : TopIn(scopes', x) = t} = {x \in 1..n : TopIn(scopes, x) = t}
    BY <2>2
  <2>6. \A x \in 1..n : x \in freed <=> TopIn(scopes', x) \in freed
    BY <2>1, <2>2
  <2> QED
    BY <1>6, <1>10, <1>11, <2>1, <2>2, <2>3, <2>4, <2>5, <2>6 DEF PoolsOK
<1>13. ParserOwns'
  BY <1>1, <1>3, <1>4, <1>5 DEF ParserOwns
<1> QED
  BY <1>12, <1>13 DEF PoolInv

\* The initial scope is set before the first parse.
LEMMA SetInitialKeeps ==
  ASSUME PoolInv, Usage = {}, NEW s, SetInitial(s)
  PROVE  PoolInv'
<1>1. /\ parses = 0 /\ parser' = [parser EXCEPT !.initial = s]
      /\ UNCHANGED <<scopes, pools, freed, misused, parses>>
  BY DEF SetInitial
<1>2. parser = [top |-> parser.top, initial |-> parser.initial] /\ parser.top = 0
  BY <1>1 DEF PoolInv, ParserOwns
<1>3. parser' = [top |-> parser'.top, initial |-> parser'.initial] /\ parser'.top = 0
  BY <1>1, <1>2
<1>4. PoolsOK'
  BY <1>1 DEF PoolInv, PoolsOK
<1>5. ParserOwns'
  BY <1>1, <1>3 DEF PoolInv, ParserOwns
<1> QED
  BY <1>4, <1>5 DEF PoolInv

\* The steps of dparse and of free_D_Parser.
LEMMA ParserKeeps ==
  ASSUME PoolInv, DparseWithInitial \/ DparseFrees \/ DparseMakes \/ FreeParser
  PROVE  PoolInv'
<1>1. PoolsOK /\ ParserOwns /\ Links(scopes) /\ parses \in Nat
  BY DEF PoolInv, PoolsOK, ParserOwns
<1>2. parser = [top |-> parser.top, initial |-> parser.initial] /\ Len(scopes) \in Nat
  BY <1>1, TheseScopes DEF ParserOwns
<1>3. CASE DparseWithInitial
  <2>1. /\ parser.initial # 0 /\ parses' = parses + 1 /\ parser' = [parser EXCEPT !.top = parser.initial]
        /\ UNCHANGED <<scopes, pools, freed, misused>>
    BY <1>3 DEF DparseWithInitial
  <2>2. parser' = [top |-> parser'.top, initial |-> parser'.initial] /\ parser'.initial # 0
    BY <1>2, <2>1
  <2>3. parses' \in Nat /\ parses' # 0
    BY <1>1, <2>1
  <2>4. PoolsOK'
    BY <1>1, <2>1 DEF PoolsOK
  <2> QED
    BY <2>2, <2>3, <2>4 DEF PoolInv, ParserOwns
<1>4. CASE DparseFrees
  <2>1. /\ parser.top # 0 /\ parser.initial = 0 /\ FreeScope(parser.top, FALSE)
        /\ parser' = [parser EXCEPT !.top = 0] /\ UNCHANGED <<scopes, parses>>
    BY <1>4 DEF DparseFrees
  <2>2. parser' = [top |-> parser'.top, initial |-> parser'.initial] /\ parser'.top = 0
    BY <1>2, <2>1
  <2>3. PoolsOK'
    BY <2>1, ParserFrees
  <2> QED
    BY <1>1, <2>1, <2>2, <2>3 DEF PoolInv, ParserOwns
<1>5. CASE DparseMakes
  <2> DEFINE r == Scope(0, 0, TRUE, TRUE)
  <2>1. /\ Make(r) /\ parser' = [parser EXCEPT !.top = Len(scopes')] /\ parses' = parses + 1 /\ UNCHANGED freed
    BY <1>5 DEF DparseMakes
  <2>2. IsTop(r) /\ r.top /\ r.byParser
    BY DEF Scope, IsScope, IsTop
  <2> HIDE DEF r
  <2>3. PoolsOK' /\ scopes' = Append(scopes, r) /\ Len(scopes') = Len(scopes) + 1
    BY <1>1, <2>1, <2>2, MakeKeeps
  <2>4. Append(scopes, r)[Len(scopes) + 1] = r
    BY <1>1, <2>2, AppendLinks
  <2>5. parser' = [top |-> parser'.top, initial |-> parser'.initial] /\ parser'.top = Len(scopes) + 1
    BY <1>2, <2>1, <2>3
  <2>6. Len(scopes) + 1 \in 1..Len(scopes') /\ Len(scopes) + 1 \notin freed'
    <3>1. freed \subseteq 1..Len(scopes)
      BY <1>1 DEF PoolsOK
    <3> QED
      BY <1>2, <2>1, <2>3, <3>1
  <2>7. parses' \in Nat /\ parses' # 0
    BY <1>1, <2>1
  <2>8. scopes'[Len(scopes) + 1].top /\ scopes'[Len(scopes) + 1].byParser
    BY <2>2, <2>3, <2>4
  <2> QED
    BY <2>3, <2>5, <2>6, <2>7, <2>8 DEF PoolInv, ParserOwns
<1>6. CASE FreeParser
  <2>1. /\ parses' = MaxParses + 1 /\ parser' = [top |-> 0, initial |-> 0] /\ UNCHANGED scopes
        /\ IF parser.top # 0 /\ parser.initial = 0 THEN FreeScope(parser.top, FALSE)
           ELSE UNCHANGED <<freed, misused, pools>>
    BY <1>6 DEF FreeParser
  <2>2. PoolsOK'
    <3>1. CASE parser.top # 0 /\ parser.initial = 0
      BY <2>1, <3>1, ParserFrees
    <3>2. CASE ~(parser.top # 0 /\ parser.initial = 0)
      <4>1. UNCHANGED <<scopes, freed, misused, pools>>
        BY <2>1, <3>2
      <4> QED
        BY <1>1, <4>1 DEF PoolsOK
    <3> QED
      BY <3>1, <3>2
  <2>3. parses' \in Nat
    BY <2>1, BoundsAssumption
  <2> QED
    BY <2>1, <2>2, <2>3 DEF PoolInv, ParserOwns
<1> QED
  BY <1>3, <1>4, <1>5, <1>6

\* The invariant holds of every use that keeps the rules.
LEMMA PoolInvariant ==
  ASSUME Usage = {}
  PROVE  Spec => []PoolInv
<1>1. Init => PoolInv
  <2>1. SUFFICES ASSUME Init PROVE PoolInv
    OBVIOUS
  <2>2. scopes = <<>> /\ pools = <<>> /\ freed = {} /\ misused = {} /\ parser = [top |-> 0, initial |-> 0] /\ parses = 0
    BY <2>1 DEF Init
  <2>3. Len(scopes) = 0 /\ IsSeq(scopes) /\ DOMAIN pools = {} /\ 1..0 = {}
    BY <2>2, EmptyFacts
  <2> QED
    BY <2>2, <2>3 DEF PoolInv, PoolsOK, ParserOwns, Links, SameTop
<1>2. ASSUME PoolInv, [Next]_vars PROVE PoolInv'
  <2>1. CASE NewTop
    BY <1>2, <2>1, NewTopKeeps
  <2>2. CASE DparseWithInitial \/ DparseFrees \/ DparseMakes \/ FreeParser
    BY <1>2, <2>2, ParserKeeps
  <2>3. ASSUME NEW s \in DOMAIN scopes, Nested(s) \/ Entered(s) PROVE PoolInv'
    BY <1>2, <2>3, NestedKeeps
  <2>4. ASSUME NEW s \in DOMAIN scopes, Own(s) PROVE PoolInv'
    BY <1>2, <2>4, OwnKeeps
  <2>5. ASSUME NEW s, SetInitial(s) PROVE PoolInv'
    BY <1>2, <2>5, SetInitialKeeps
  <2>6. ASSUME NEW s \in DOMAIN scopes, NEW force \in BOOLEAN, UserFree(s, force) PROVE PoolInv'
    BY <1>2, <2>6, UserFreeKeeps
  <2>7. CASE UNCHANGED vars
    BY <1>2, <2>7 DEF vars, PoolInv, PoolsOK, ParserOwns
  <2> QED
    BY <1>2, <2>1, <2>2, <2>3, <2>4, <2>5, <2>6, <2>7 DEF Next
<1> QED
  BY <1>1, <1>2, PTL DEF Spec

-----------------------------------------------------------------------------
(* What follows.                                                           *)

\* No scope is read or freed after it was freed, for any number of scopes and parses, if
\* the user keeps the rules: free_D_Scope, get_scope_pool, the parser's own frees.
THEOREM FreedIsNotUsed ==
  ASSUME Usage = {}
  PROVE  Spec => []UsesLive
<1>1. PoolInv => UsesLive
  BY DEF PoolInv, PoolsOK, UsesLive
<1> QED
  BY <1>1, PoolInvariant, PTL

\* A top scope that is freed takes all scopes below it along but those the user owns.
THEOREM NothingLeaks ==
  ASSUME Usage = {}
  PROVE  Spec => []FreedWithTop
<1>1. ASSUME PoolInv PROVE FreedWithTop
  <2>1. PoolsOK /\ Links(scopes)
    BY <1>1 DEF PoolInv, PoolsOK
  <2>2. DOMAIN scopes = 1..Len(scopes) /\ \A s : TopOf(s) = TopIn(scopes, s)
    BY <2>1, TheseScopes
  <2>3. \A s \in 1..Len(scopes) : s \notin freed => TopIn(scopes, s) \notin freed
    BY <2>1 DEF PoolsOK
  <2> QED
    BY <2>2, <2>3 DEF FreedWithTop, Live
<1> QED
  BY <1>1, PoolInvariant, PTL

-----------------------------------------------------------------------------
(* Vectors.                                                                *)

\* A vector is empty, or in the structure, or on the heap with room for eight times a
\* power of two.
VecOK(v) ==
  /\ v = [n |-> v.n, fit |-> v.fit] /\ v.n \in Nat
  /\ \/ v.n = 0 /\ v.fit = 0
     \/ v.fit = IntegralVecSize /\ v.n \in 1..IntegralVecSize
     \/ \E m \in Nat \ {0} : v.fit = InitialVecSize * m /\ PowerOfTwo(m) /\ v.n \in 1..v.fit

\* A multiple leaves nothing.
LEMMA Multiple ==
  ASSUME NEW d \in Nat \ {0}, NEW r \in Nat
  PROVE  (d * r) % d = 0
<1> DEFINE q == (d * r) \div d
           e == (d * r) % d
<1>1. q \in Int /\ e \in 0..(d - 1) /\ d * r = (d * q) + e
  <2>1. d * r \in Nat
    OBVIOUS
  <2> QED
    BY <2>1
<1> HIDE DEF q, e
<1>2. d * (r - q) = e
  BY <1>1
<1>3. CASE r - q <= -1
  <2>1. d * (r - q) <= d * (-1)
    BY <1>1, <1>3
  <2> QED
    BY <1>1, <1>2, <2>1
<1>4. CASE r - q >= 1
  <2>1. d * (r - q) >= d
    BY <1>1, <1>4
  <2> QED
    BY <1>1, <1>2, <2>1
<1>5. CASE r - q = 0
  BY <1>2, <1>5 DEF e
<1> QED
  BY <1>1, <1>3, <1>4, <1>5

\* Twice a power of two is one.
LEMMA Doubled ==
  ASSUME NEW m \in Nat, PowerOfTwo(m)
  PROVE  PowerOfTwo(2 * m)
<1>1. SUFFICES ASSUME NEW d \in 2..(2 * m), (2 * m) % d = 0, d % 2 # 0 PROVE FALSE
  BY DEF PowerOfTwo
<1>2. PICK q \in Nat : 2 * m = d * q
  <2>1. (2 * m) \div d \in Nat /\ 2 * m = (d * ((2 * m) \div d)) + ((2 * m) % d)
    BY <1>1
  <2> QED
    BY <1>1, <2>1
<1>3. PICK e \in Nat : d = 2 * e + 1
  BY <1>1
<1>4. 2 * m = 2 * (e * q) + q /\ e * q \in Nat
  BY <1>2, <1>3
<1> DEFINE p == e * q
<1>5. PICK r \in Nat : q = 2 * r /\ m = p + r
  <2> HIDE DEF p
  <2>1. p \in Nat /\ 2 * m = 2 * p + q
    BY <1>4 DEF p
  <2>2. q = 2 * (m - p) /\ m - p \in Nat
    BY <2>1, <1>2
  <2> QED
    BY <2>1, <2>2
<1>6. m = d * r
  BY <1>3, <1>5
<1>7. m # 0 /\ d <= m
  BY <1>1, <1>6
<1>8. m % d = 0
  BY <1>1, <1>6, Multiple
<1> QED
  BY <1>1, <1>7, <1>8 DEF PowerOfTwo

\* There is room for one more, after the vector was given more where it was full.
LEMMA GrownFits ==
  ASSUME NEW m \in Nat \ {0}, PowerOfTwo(m), NEW n \in 1..(InitialVecSize * m)
  PROVE  \E k \in Nat \ {0} : Grown(n, InitialVecSize * m) = InitialVecSize * k /\ PowerOfTwo(k) /\ n + 1 <= InitialVecSize * k
<1> DEFINE j == n \div InitialVecSize
<1>1. CASE n % InitialVecSize = 0 /\ PowerOfTwo(j)
  <2>1. j \in Nat /\ n = InitialVecSize * j /\ j # 0
    BY <1>1 DEF InitialVecSize
  <2>2. Grown(n, InitialVecSize * m) = 2 * n
    BY <1>1 DEF Grown
  <2>3. PowerOfTwo(2 * j)
    BY <1>1, <2>1, Doubled
  <2> HIDE DEF j
  <2>4. 2 * n = InitialVecSize * (2 * j) /\ 2 * j \in Nat \ {0} /\ n + 1 <= InitialVecSize * (2 * j)
    BY <2>1 DEF InitialVecSize
  <2> QED
    BY <2>2, <2>3, <2>4
<1>2. CASE ~(n % InitialVecSize = 0 /\ PowerOfTwo(j))
  <2>1. Grown(n, InitialVecSize * m) = InitialVecSize * m
    BY <1>2 DEF Grown
  <2>2. n # InitialVecSize * m
    <3>1. SUFFICES ASSUME n = InitialVecSize * m PROVE FALSE
      OBVIOUS
    <3>2. n % InitialVecSize = 0 /\ j = m
      BY <3>1 DEF InitialVecSize
    <3> QED
      BY <1>2, <3>2
  <2>3. n + 1 <= InitialVecSize * m
    BY <2>2 DEF InitialVecSize
  <2> QED
    BY <2>1, <2>3
<1> QED
  BY <1>1, <1>2

\* An element more: vec_add and vec_add_internal.
LEMMA VecGrows ==
  ASSUME NEW v, VecOK(v), NEW fit \in {RoomFor(v), RoomInternal(v)}
  PROVE  VecOK([n |-> v.n + 1, fit |-> fit])
<1> DEFINE w == [n |-> v.n + 1, fit |-> fit]
<1>0. w = [n |-> w.n, fit |-> w.fit] /\ w.n = v.n + 1 /\ w.fit = fit /\ v.n \in Nat /\ PowerOfTwo(1)
  BY DEF VecOK, PowerOfTwo
<1> HIDE DEF w
<1>1. CASE v.n = 0 /\ v.fit = 0
  <2>1. RoomFor(v) = IntegralVecSize /\ RoomInternal(v) = IntegralVecSize
    BY <1>1 DEF RoomFor, RoomInternal, IntegralVecSize
  <2> QED
    BY <1>0, <1>1, <2>1 DEF VecOK, IntegralVecSize, w
<1>2. CASE v.fit = IntegralVecSize /\ v.n \in 1..IntegralVecSize
  <2>1. fit = InitialVecSize \/ (fit = IntegralVecSize /\ v.n < IntegralVecSize)
    BY <1>2 DEF RoomFor, RoomInternal, IntegralVecSize
  <2>2. CASE fit = InitialVecSize
    <3>1. fit = InitialVecSize * 1 /\ w.n \in 1..fit
      BY <1>0, <1>2, <2>2 DEF InitialVecSize, IntegralVecSize
    <3> QED
      BY <1>0, <3>1 DEF VecOK, w
  <2>3. CASE fit = IntegralVecSize /\ v.n < IntegralVecSize
    BY <1>0, <1>2, <2>3 DEF VecOK, IntegralVecSize, w
  <2> QED
    BY <2>1, <2>2, <2>3
<1>5. ASSUME NEW m \in Nat \ {0}, v.fit = InitialVecSize * m, PowerOfTwo(m), v.n \in 1..v.fit
      PROVE  VecOK(w)
  <2>1. v.fit # 0 /\ v.fit # IntegralVecSize /\ v.n # 0
    BY <1>5 DEF InitialVecSize, IntegralVecSize
  <2>2. fit = Grown(v.n, InitialVecSize * m)
    BY <1>5, <2>1 DEF RoomFor, RoomInternal
  <2>3. PICK k \in Nat \ {0} : fit = InitialVecSize * k /\ PowerOfTwo(k) /\ v.n + 1 <= InitialVecSize * k
    BY <1>5, <2>2, GrownFits
  <2>4. w.n \in 1..w.fit
    BY <1>0, <2>3 DEF InitialVecSize
  <2> QED
    BY <1>0, <2>3, <2>4 DEF VecOK
<1>3. VecOK(w) => VecOK([n |-> v.n + 1, fit |-> fit])
  BY DEF w
<1> QED
  BY <1>1, <1>2, <1>5, <1>3 DEF VecOK

TakeStep(a, b, c, v, x) == TakeIn(v, x)
TakeHolds(d, v) == VecOK(v)
TakeFold == INSTANCE Folding WITH Step <- TakeStep, Holds <- TakeHolds

\* A vector of the slots of a set: set_to_vec.
LEMMA VecFromSet ==
  ASSUME NEW s, IsSeq(s)
  PROVE  VecOK(FoldSteps(TakeIn, NoVec, s))
<1>1. FoldSteps(TakeIn, NoVec, s) = TakeFold!Values(0, 0, 0, NoVec, s)[Len(s)]
  BY DEF TakeStep, TakeFold!Values, TakeFold!FoldsTo, FoldSteps
<1>2. Len(s) \in Nat
  BY SeqFacts
<1>3. TakeHolds(0, NoVec)
  BY DEF TakeHolds, VecOK, NoVec
<1>4. \A k \in 1..Len(s) : \A v : TakeHolds(0, v) => TakeHolds(0, TakeStep(0, 0, 0, v, s[k]))
  BY VecGrows DEF TakeHolds, TakeStep, TakeIn
<1>5. TakeHolds(0, TakeFold!Values(0, 0, 0, NoVec, s)[Len(s)])
  BY <1>2, <1>3, <1>4, TakeFold!FoldKeeps
<1> QED
  BY <1>1, <1>5 DEF TakeHolds

-----------------------------------------------------------------------------
(* Sets: the tables.                                                       *)

\* The n slots of a table; each element is where it is found: among the first slots of its
\* probe sequence, no gap before it, and nowhere else.
Probed(s, k) ==
  \E p \in DOMAIN Slots(s, s.v[k]) : /\ Slots(s, s.v[k])[p] = k
                                     /\ \A j \in 1..(p - 1) : s.v[Slots(s, s.v[k])[j]] # 0
FilledTable(s) ==
  /\ s.i \in InitialSetSizeIndex..(Len(Prime2) - 1) /\ s.n = Prime(s.i)
  /\ s.v = [k \in 0..(s.n - 1) |-> s.v[k]]
  /\ \A k \in 0..(s.n - 1) : s.v[k] \in Nat /\ (s.v[k] # 0 => Probed(s, k))
  /\ \A k, l \in 0..(s.n - 1) : s.v[k] = s.v[l] /\ s.v[k] # 0 => k = l
SetOK(s) == s = NoSet \/ (s = [n |-> s.n, i |-> s.i, v |-> s.v] /\ FilledTable(s))

\* The sizes of tables.
LEMMA Sizes ==
  ASSUME NEW i \in InitialSetSizeIndex..(Len(Prime2) - 1)
  PROVE  Prime(i) \in Nat /\ Prime(i) > IntegralVecSize
BY DEF InitialSetSizeIndex, Prime, Prime2, IntegralVecSize

\* At most five slots are looked at.
LEMMA SlotsFacts ==
  ASSUME NEW s, s.n \in Nat \ {0}, NEW x \in Nat
  PROVE  /\ \E m \in 1..SetMaxSequential : DOMAIN Slots(s, x) = 1..m
         /\ \A k \in DOMAIN Slots(s, x) : Slots(s, x)[k] \in 0..(s.n - 1)
<1> DEFINE m == MinOf({SetMaxSequential, s.n})
<1>1. m \in {SetMaxSequential, s.n} /\ m <= SetMaxSequential
  <2>1. {SetMaxSequential, s.n} \subseteq Nat /\ {SetMaxSequential, s.n} # {}
    BY DEF SetMaxSequential
  <2> QED
    BY <2>1, MinExists
<1>2. m \in 1..SetMaxSequential
  BY <1>1 DEF SetMaxSequential
<1> HIDE DEF m
<1>3. Slots(s, x) = [k \in 1..m |-> (x + k - 1) % s.n]
  BY DEF Slots, m
<1>4. \A k \in 1..m : (x + k - 1) % s.n \in 0..(s.n - 1)
  <2> SUFFICES ASSUME NEW k \in 1..m PROVE (x + k - 1) % s.n \in 0..(s.n - 1)
    OBVIOUS
  <2>1. x + k - 1 \in Nat
    BY <1>2
  <2> QED
    BY <2>1
<1> QED
  BY <1>2, <1>3, <1>4

\* What is found is in the table, and the other way round.
LEMMA FoundIsMember ==
  ASSUME NEW s, SetOK(s), NEW x \in Nat \ {0}
  PROVE  Found(s, x) <=> x \in Members(s)
<1>1. CASE s = NoSet
  <2>1. s.n = 0 /\ DOMAIN s.v = {}
    BY <1>1 DEF NoSet
  <2> QED
    BY <2>1 DEF Found, Members
<1>2. CASE FilledTable(s)
  <2>1. s.n \in Nat \ {0} /\ DOMAIN s.v = 0..(s.n - 1)
    BY <1>2, Sizes DEF FilledTable, IntegralVecSize
  <2>2. ASSUME Found(s, x) PROVE x \in Members(s)
    <3>1. PICK k \in DOMAIN Slots(s, x) : s.v[Slots(s, x)[k]] = x
      BY <2>2 DEF Found
    <3>2. Slots(s, x)[k] \in DOMAIN s.v
      BY <2>1, SlotsFacts
    <3> QED
      BY <3>1, <3>2 DEF Members
  <2>3. ASSUME x \in Members(s) PROVE Found(s, x)
    <3>1. PICK k \in 0..(s.n - 1) : s.v[k] = x
      BY <2>1, <2>3 DEF Members
    <3>2. Probed(s, k)
      BY <1>2, <3>1 DEF FilledTable
    <3> QED
      BY <2>1, <3>1, <3>2 DEF Probed, Found
  <2> QED
    BY <2>2, <2>3
<1> QED
  BY <1>1, <1>2 DEF SetOK

\* The gap an element goes to is the first in its probe sequence.
LEMMA GapFacts ==
  ASSUME NEW s, SetOK(s), NEW x \in Nat, Gap(s, x) # {}
  PROVE  /\ FilledTable(s)
         /\ \E p \in DOMAIN Slots(s, x) : /\ Gap(s, x) = {Slots(s, x)[p]} /\ s.v[Slots(s, x)[p]] = 0
                                          /\ \A j \in 1..(p - 1) : s.v[Slots(s, x)[j]] # 0
<1> DEFINE gaps == {k \in DOMAIN Slots(s, x) : s.v[Slots(s, x)[k]] = 0}
           p == MinOf(gaps)
<1>1. s.n # 0 /\ gaps # {} /\ Gap(s, x) = {Slots(s, x)[p]}
  BY DEF Gap
<1>2. FilledTable(s)
  BY <1>1 DEF SetOK, NoSet
<1>3. s.n \in Nat \ {0}
  BY <1>2, Sizes DEF FilledTable, IntegralVecSize
<1>4. PICK m \in 1..SetMaxSequential : DOMAIN Slots(s, x) = 1..m
  BY <1>3, SlotsFacts
<1>5. gaps \subseteq Nat
  BY <1>4 DEF SetMaxSequential
<1>6. p \in gaps /\ \A y \in gaps : p <= y
  <2> HIDE DEF gaps
  <2> QED
    BY <1>1, <1>5, MinExists
<1>7. \A j \in 1..(p - 1) : s.v[Slots(s, x)[j]] # 0
  <2> SUFFICES ASSUME NEW j \in 1..(p - 1), s.v[Slots(s, x)[j]] = 0 PROVE FALSE
    OBVIOUS
  <2> HIDE DEF p
  <2>1. p \in 1..m /\ j \in 1..m /\ j < p
    BY <1>4, <1>6 DEF SetMaxSequential
  <2>2. j \in gaps
    BY <1>4, <2>1
  <2> QED
    BY <1>6, <2>1, <2>2
<1> QED
  BY <1>1, <1>2, <1>6, <1>7

\* A table with an element put into the gap it goes to.
LEMMA InGap ==
  ASSUME NEW s, s = [n |-> s.n, i |-> s.i, v |-> s.v], FilledTable(s), NEW x \in Nat \ {0}, x \notin Members(s),
         NEW p \in DOMAIN Slots(s, x), s.v[Slots(s, x)[p]] = 0,
         \A j \in 1..(p - 1) : s.v[Slots(s, x)[j]] # 0
  PROVE  /\ FilledTable(InSlot(s, Slots(s, x)[p], x)) /\ Members(InSlot(s, Slots(s, x)[p], x)) = Members(s) \cup {x}
         /\ InSlot(s, Slots(s, x)[p], x) = [n |-> s.n, i |-> s.i, v |-> InSlot(s, Slots(s, x)[p], x).v]
<1> DEFINE g == Slots(s, x)[p]
           w == [s.v EXCEPT ![g] = x]
           u == InSlot(s, g, x)
<1>1. s.n \in Nat \ {0} /\ DOMAIN s.v = 0..(s.n - 1)
  BY Sizes DEF FilledTable, IntegralVecSize
<1>2. g \in 0..(s.n - 1)
  BY <1>1, SlotsFacts
<1>3. u = [n |-> s.n, i |-> s.i, v |-> w]
  BY DEF InSlot
<1> HIDE DEF u
<1>4. w = [k \in 0..(s.n - 1) |-> w[k]] /\ w[g] = x /\ \A k \in 0..(s.n - 1) : k # g => w[k] = s.v[k]
  BY <1>1, <1>2
<1> HIDE DEF w, g
<1>5. u.n = s.n /\ u.i = s.i /\ u.v = w
  BY <1>3
<1>6. \A k \in 0..(s.n - 1) : s.v[k] # x /\ (s.v[k] # 0 => k # g /\ w[k] = s.v[k])
  BY <1>1, <1>4 DEF Members, g
<1>7. \A y : Slots(u, y) = Slots(s, y)
  BY <1>5 DEF Slots
<1>8. ASSUME NEW k \in 0..(s.n - 1), w[k] # 0 PROVE Probed(u, k)
  <2>1. CASE k = g
    <3>1. \A j \in 1..(p - 1) : w[Slots(s, x)[j]] # 0
      <4> SUFFICES ASSUME NEW j \in 1..(p - 1) PROVE w[Slots(s, x)[j]] # 0
        OBVIOUS
      <4>1. PICK m \in 1..SetMaxSequential : DOMAIN Slots(s, x) = 1..m
        BY SMTT(30), <1>1, SlotsFacts
      <4>2. j \in DOMAIN Slots(s, x)
        BY <4>1 DEF SetMaxSequential
      <4>3. Slots(s, x)[j] \in 0..(s.n - 1)
        BY <1>1, <4>2, SlotsFacts
      <4> QED
        BY <1>6, <4>3
    <3> QED
      BY <1>4, <1>5, <1>7, <2>1, <3>1 DEF Probed, g
  <2>2. CASE k # g
    <3>1. w[k] = s.v[k] /\ s.v[k] \in Nat
      BY <1>4, <2>2 DEF FilledTable
    <3> DEFINE y == s.v[k]
    <3>2. PICK q \in DOMAIN Slots(s, y) : Slots(s, y)[q] = k /\ \A j \in 1..(q - 1) : s.v[Slots(s, y)[j]] # 0
      BY <1>8, <3>1 DEF FilledTable, Probed
    <3>3. PICK m \in 1..SetMaxSequential : DOMAIN Slots(s, y) = 1..m
      BY <1>1, <3>1, SlotsFacts
    <3> HIDE DEF y
    <3>4. \A j \in 1..(q - 1) : w[Slots(s, y)[j]] # 0
      <4> SUFFICES ASSUME NEW j \in 1..(q - 1) PROVE w[Slots(s, y)[j]] # 0
        OBVIOUS
      <4>1. j \in DOMAIN Slots(s, y)
        BY <3>2, <3>3 DEF SetMaxSequential
      <4>2. Slots(s, y)[j] \in 0..(s.n - 1)
        BY <1>1, <3>1, <4>1, SlotsFacts DEF y
      <4> QED
        BY <1>6, <3>2, <4>2
    <3>5. u.v[k] = y
      BY <1>5, <3>1 DEF y
    <3> QED
      BY <1>5, <1>7, <3>2, <3>4, <3>5 DEF Probed
  <2> QED
    BY <2>1, <2>2
<1>9. \A k, l \in 0..(s.n - 1) : w[k] = w[l] /\ w[k] # 0 => k = l
  BY <1>4, <1>6 DEF FilledTable
<1>10. \A k \in 0..(s.n - 1) : w[k] \in Nat
  BY <1>4 DEF FilledTable
<1>11. FilledTable(u)
  BY <1>4, <1>5, <1>8, <1>9, <1>10 DEF FilledTable
<1>12. Members(u) = Members(s) \cup {x}
  <2>1. DOMAIN w = 0..(s.n - 1)
    BY <1>4
  <2>2. \A y \in Members(s) : y \in Members(u)
    BY <1>1, <1>5, <1>6, <2>1 DEF Members
  <2>3. x \in Members(u)
    BY <1>2, <1>4, <1>5, <2>1 DEF Members
  <2>4. \A y \in Members(u) : y \in Members(s) \/ y = x
    BY <1>1, <1>4, <1>5, <2>1 DEF Members
  <2> QED
    BY <2>2, <2>3, <2>4
<1> QED
  BY <1>3, <1>5, <1>11, <1>12 DEF u, g

\* An element more, where it is there or has a gap to go to: set_add.
LEMMA AddedOK ==
  ASSUME NEW s, SetOK(s), NEW x \in Nat \ {0}, Found(s, x) \/ Gap(s, x) # {}
  PROVE  SetOK(Added(s, x)) /\ Members(Added(s, x)) = Members(s) \cup {x}
<1>1. CASE Found(s, x)
  BY <1>1, FoundIsMember DEF Added
<1>2. CASE ~Found(s, x)
  <2>1. FilledTable(s)
    BY <1>2, GapFacts
  <2>2. PICK p \in DOMAIN Slots(s, x) : /\ Gap(s, x) = {Slots(s, x)[p]} /\ s.v[Slots(s, x)[p]] = 0
                                        /\ \A j \in 1..(p - 1) : s.v[Slots(s, x)[j]] # 0
    BY <1>2, GapFacts
  <2>3. Added(s, x) = InSlot(s, Slots(s, x)[p], x)
    <3>1. (CHOOSE k \in Gap(s, x) : TRUE) = Slots(s, x)[p]
      BY <2>2
    <3> QED
      BY <1>2, <3>1 DEF Added
  <2>4. s = [n |-> s.n, i |-> s.i, v |-> s.v]
    BY DEF SetOK, NoSet
  <2>5. x \notin Members(s)
    BY <1>2, FoundIsMember
  <2>6. /\ FilledTable(InSlot(s, Slots(s, x)[p], x)) /\ Members(InSlot(s, Slots(s, x)[p], x)) = Members(s) \cup {x}
        /\ InSlot(s, Slots(s, x)[p], x) = [n |-> s.n, i |-> s.i, v |-> InSlot(s, Slots(s, x)[p], x).v]
    BY <2>1, <2>2, <2>4, <2>5, InGap
  <2> DEFINE u == InSlot(s, Slots(s, x)[p], x)
  <2>7. u = [n |-> s.n, i |-> s.i, v |-> u.v] /\ FilledTable(u) /\ Members(u) = Members(s) \cup {x} /\ Added(s, x) = u
    BY <2>3, <2>6
  <2> HIDE DEF u
  <2> QED
    BY <2>7 DEF SetOK
<1> QED
  BY <1>1, <1>2

-----------------------------------------------------------------------------
(* Sets: adding many.                                                      *)

\* Everything of D is in the table or waits.
Holding(D, a) ==
  /\ SetOK(a.s) /\ IsSeq(a.rest) /\ ToSet(a.rest) \subseteq Nat \ {0}
  /\ Members(a.s) \cup ToSet(a.rest) = D

\* An element more.
LEMMA AddToHolds ==
  ASSUME NEW D, NEW a, Holding(D, a), NEW x \in Nat
  PROVE  Holding(D \cup ({x} \ {0}), AddTo(a, x))
<1>1. CASE x = 0
  BY <1>1 DEF AddTo, Holding
<1>2. CASE x # 0 /\ a.rest = <<>> /\ (Found(a.s, x) \/ Gap(a.s, x) # {})
  <2>1. AddTo(a, x).s = Added(a.s, x) /\ AddTo(a, x).rest = <<>>
    BY <1>2 DEF AddTo
  <2>2. SetOK(Added(a.s, x)) /\ Members(Added(a.s, x)) = Members(a.s) \cup {x}
    BY <1>2, AddedOK DEF Holding
  <2>3. Members(a.s) = D
    BY <1>2, EmptyFacts DEF Holding
  <2> QED
    BY <1>2, <2>1, <2>2, <2>3, EmptyFacts DEF Holding
<1>3. CASE x # 0 /\ ~(a.rest = <<>> /\ (Found(a.s, x) \/ Gap(a.s, x) # {}))
  <2>1. AddTo(a, x).s = a.s /\ AddTo(a, x).rest = Append(a.rest, x)
    BY <1>3 DEF AddTo
  <2>2. IsSeq(Append(a.rest, x)) /\ ToSet(Append(a.rest, x)) = ToSet(a.rest) \cup {x}
    BY AppendFacts DEF Holding
  <2> QED
    BY <1>3, <2>1, <2>2 DEF Holding
<1> QED
  BY <1>1, <1>2, <1>3

AddStep(a, b, c, u, x) == AddTo(u, x)
AddFold == INSTANCE Folding WITH Step <- AddStep, Holds <- Holding

\* All of a sequence, 0 but an empty slot.
LEMMA AddAllHolds ==
  ASSUME NEW s, SetOK(s), NEW xs, IsSeq(xs), ToSet(xs) \subseteq Nat
  PROVE  Holding(Members(s) \cup (ToSet(xs) \ {0}), AddAll(s, xs))
<1> DEFINE base == [s |-> s, rest |-> <<>>]
           n == Len(xs)
           d == [k \in 0..n |-> Members(s) \cup ({xs[j] : j \in 1..k} \ {0})]
           f == AddFold!Values(0, 0, 0, base, xs)
<1>1. AddAll(s, xs) = f[n]
  BY DEF AddAll, AddStep, AddFold!Values, AddFold!FoldsTo, FoldSteps
<1>2. n \in Nat /\ DOMAIN xs = 1..n
  BY SeqFacts
<1>3. base.s = s /\ base.rest = <<>>
  OBVIOUS
<1> HIDE DEF base
<1>4. d[0] = Members(s)
  BY <1>2
<1>5. Holding(d[0], base)
  BY <1>3, <1>4, EmptyFacts DEF Holding
<1>6. ASSUME NEW k \in 1..n, NEW u, Holding(d[k - 1], u)
      PROVE  Holding(d[k], AddStep(0, 0, 0, u, xs[k]))
  <2>1. xs[k] \in Nat
    BY <1>2 DEF ToSet
  <2>2. d[k] = d[k - 1] \cup ({xs[k]} \ {0})
    <3>1. k - 1 \in 0..n /\ k \in 0..n /\ 1..k = (1..(k - 1)) \cup {k}
      BY <1>2
    <3> QED
      BY <3>1
  <2> DEFINE e == d[k - 1]
             y == xs[k]
  <2>3. Holding(e, u) /\ y \in Nat
    BY <1>6, <2>1
  <2> HIDE DEF d, e, y
  <2>4. Holding(e \cup ({y} \ {0}), AddTo(u, y))
    BY ONLY <2>3, AddToHolds
  <2> QED
    BY <2>2, <2>4 DEF AddStep, e, y
<1> HIDE DEF d
<1>7. \A k \in 1..n : \A u : Holding(d[k - 1], u) => Holding(d[k], AddStep(0, 0, 0, u, xs[k]))
  BY <1>6
<1>8. Holding(d[n], AddFold!Values(0, 0, 0, base, xs)[n])
  BY <1>2, <1>5, <1>7, AddFold!FoldAdvances
<1>9. d[n] = Members(s) \cup (ToSet(xs) \ {0})
  BY <1>2 DEF d, ToSet
<1> QED
  BY <1>1, <1>8, <1>9

\* The slots of a table, one after the other.
LEMMA InOrderFacts ==
  ASSUME NEW s, SetOK(s)
  PROVE  IsSeq(InOrder(s)) /\ ToSet(InOrder(s)) \subseteq Nat /\ ToSet(InOrder(s)) \ {0} = Members(s)
<1>1. s.n \in Nat /\ DOMAIN s.v = 0..(s.n - 1) /\ \A k \in 0..(s.n - 1) : s.v[k] \in Nat
  <2>1. CASE s = NoSet
    BY <2>1 DEF NoSet
  <2>2. CASE FilledTable(s)
    BY <2>2, Sizes DEF FilledTable
  <2> QED
    BY <2>1, <2>2 DEF SetOK
<1> DEFINE q == InOrder(s)
<1>2. q = [k \in 1..s.n |-> s.v[k - 1]]
  BY DEF InOrder
<1> HIDE DEF q
<1>3. q = [k \in 1..s.n |-> q[k]] /\ DOMAIN q = 1..s.n
  BY <1>2
<1>4. IsSeq(q)
  BY <1>1, <1>3, FunctionIsSeq
<1>5. \A k \in 1..s.n : k - 1 \in 0..(s.n - 1) /\ q[k] = s.v[k - 1]
  BY <1>1, <1>2
<1>6. \A j \in 0..(s.n - 1) : j + 1 \in 1..s.n /\ q[j + 1] = s.v[j]
  BY <1>1, <1>2
<1>7. ToSet(q) = {s.v[k] : k \in DOMAIN s.v}
  <2>1. \A y \in ToSet(q) : y \in {s.v[k] : k \in DOMAIN s.v}
    BY <1>1, <1>3, <1>5 DEF ToSet
  <2>2. \A k \in DOMAIN s.v : s.v[k] \in ToSet(q)
    BY <1>1, <1>3, <1>6 DEF ToSet
  <2> QED
    BY <2>1, <2>2
<1> QED
  BY <1>1, <1>4, <1>7 DEF Members, q

\* A new table.
LEMMA EmptyTable ==
  ASSUME NEW i \in InitialSetSizeIndex..(Len(Prime2) - 1)
  PROVE  SetOK(Empty(i)) /\ Members(Empty(i)) = {}
<1> DEFINE e == Empty(i)
           v == [k \in 0..(Prime(i) - 1) |-> 0]
<1>1. e = [n |-> e.n, i |-> e.i, v |-> e.v] /\ e.n = Prime(i) /\ e.i = i /\ e.v = v
  BY DEF Empty
<1>2. Prime(i) \in Nat
  BY Sizes
<1>3. v = [k \in 0..(Prime(i) - 1) |-> v[k]] /\ \A k \in 0..(Prime(i) - 1) : v[k] = 0
  OBVIOUS
<1> HIDE DEF e, v
<1>4. SetOK(e)
  BY <1>1, <1>2, <1>3 DEF SetOK, FilledTable
<1>5. Members(e) = {}
  BY <1>1, <1>3 DEF Members
<1> QED
  BY <1>4, <1>5 DEF e

\* A larger table takes all over.
LEMMA RebuiltHolds ==
  ASSUME NEW D, NEW a, Holding(D, a), NEW by \in Nat
  PROVE  Holding(D, Rebuilt(a, by))
<1> DEFINE i == Larger(a.s, by)
           xs == InOrder(a.s) \o a.rest
<1>1. CASE a.rest = <<>> \/ i >= Len(Prime2)
  BY <1>1 DEF Rebuilt
<1>2. CASE ~(a.rest = <<>> \/ i >= Len(Prime2))
  <2>1. i \in InitialSetSizeIndex..(Len(Prime2) - 1)
    <3>1. i = InitialSetSizeIndex \/ (a.s.n # 0 /\ i = a.s.i + by)
      BY DEF Larger
    <3>2. a.s.n # 0 => a.s.i \in InitialSetSizeIndex..(Len(Prime2) - 1)
      BY DEF Holding, SetOK, NoSet, FilledTable
    <3>3. Len(Prime2) = 29 /\ InitialSetSizeIndex = 2
      BY DEF Prime2, InitialSetSizeIndex
    <3>4. ~(i >= Len(Prime2))
      BY <1>2
    <3> HIDE DEF i
    <3>5. CASE i = InitialSetSizeIndex
      BY <3>3, <3>5
    <3>6. CASE a.s.n # 0 /\ i = a.s.i + by
      <4>1. a.s.i \in 2..28 /\ i = a.s.i + by /\ ~(i >= 29)
        BY <3>2, <3>3, <3>4, <3>6
      <4>2. i \in 2..28
        BY <4>1
      <4> QED
        BY <3>3, <4>2
    <3> QED
      BY <3>1, <3>5, <3>6
  <2>2. Rebuilt(a, by) = AddAll(Empty(i), xs)
    BY <1>2 DEF Rebuilt
  <2>3. SetOK(Empty(i)) /\ Members(Empty(i)) = {}
    BY <2>1, EmptyTable
  <2>4. /\ IsSeq(InOrder(a.s)) /\ ToSet(InOrder(a.s)) \subseteq Nat /\ ToSet(InOrder(a.s)) \ {0} = Members(a.s)
        /\ IsSeq(a.rest) /\ ToSet(a.rest) \subseteq Nat \ {0} /\ Members(a.s) \cup ToSet(a.rest) = D
    BY InOrderFacts DEF Holding
  <2>5. IsSeq(xs) /\ ToSet(xs) = ToSet(InOrder(a.s)) \cup ToSet(a.rest)
    BY <2>4, ConcatFacts
  <2> HIDE DEF i, xs
  <2>6. ToSet(xs) \subseteq Nat /\ ToSet(xs) \ {0} = D
    BY <2>4, <2>5
  <2>7. Holding(Members(Empty(i)) \cup (ToSet(xs) \ {0}), AddAll(Empty(i), xs))
    BY <2>3, <2>5, <2>6, AddAllHolds
  <2> QED
    BY <2>2, <2>3, <2>6, <2>7
<1> QED
  BY <1>1, <1>2

RebuildStep(by, b, c, a, i) == Rebuilt(a, by)
RebuildFold == INSTANCE Folding WITH Step <- RebuildStep, Holds <- Holding

\* However many tables it takes.
LEMMA SetAddAllHolds ==
  ASSUME NEW s, SetOK(s), NEW xs, IsSeq(xs), ToSet(xs) \subseteq Nat, NEW by \in Nat
  PROVE  Holding(Members(s) \cup (ToSet(xs) \ {0}), SetAddAll(s, xs, by))
<1> DEFINE D == Members(s) \cup (ToSet(xs) \ {0})
           base == AddAll(s, xs)
           n == Len(Prime2)
<1>1. SetAddAll(s, xs, by) = RebuildFold!Values(by, 0, 0, base, Prime2)[n]
  BY DEF SetAddAll, RebuildStep, RebuildFold!Values, RebuildFold!FoldsTo, FoldSteps
<1>2. n \in Nat
  BY DEF Prime2
<1>3. Holding(D, base)
  BY AddAllHolds
<1> HIDE DEF D, base
<1>4. \A k \in 1..n : \A a : Holding(D, a) => Holding(D, RebuildStep(by, 0, 0, a, Prime2[k]))
  BY RebuiltHolds DEF RebuildStep
<1>5. Holding(D, RebuildFold!Values(by, 0, 0, base, Prime2)[n])
  BY <1>2, <1>3, <1>4, RebuildFold!FoldKeeps
<1> QED
  BY <1>1, <1>5 DEF D

-----------------------------------------------------------------------------
(* The containers.                                                         *)

\* The ZNodes of a node are a vector of up to three, or a table.
SmallOK(z) ==
  /\ z = [n |-> z.n, i |-> z.i, v |-> z.v] /\ z.i = 0
  /\ IsSeq(z.v) /\ Len(z.v) = z.n /\ ToSet(z.v) \subseteq Nat \ {0}
ZNodesOK(z) ==
  /\ z.n \in Nat
  /\ z.n <= IntegralVecSize => SmallOK(z)
  /\ z.n > IntegralVecSize => SetOK(z)

\* What holds of the containers after every operation.
ContainersInv ==
  /\ VecOK(vec)
  /\ SetOK(set) /\ Members(set) = added /\ added \subseteq Elements
  /\ ZNodesOK(zset) /\ Members(zset) = zadded /\ zadded \subseteq Elements

\* ZNodes are found in the vector, too.
LEMMA FoundInVector ==
  ASSUME NEW z, ZNodesOK(z), NEW x \in Nat \ {0}
  PROVE  FoundZ(z, x) <=> x \in Members(z)
<1>1. CASE Small(z)
  <2>1. IsSeq(z.v)
    BY <1>1 DEF ZNodesOK, Small, SmallOK
  <2> QED
    BY <1>1 DEF FoundZ, Members
<1>2. CASE ~Small(z)
  <2>1. SetOK(z)
    BY <1>2 DEF ZNodesOK, Small, IntegralVecSize
  <2> QED
    BY <1>2, <2>1, FoundIsMember DEF FoundZ
<1> QED
  BY <1>1, <1>2

\* A table that took all, and something.
LEMMA NothingWaits ==
  ASSUME NEW D, NEW a, Holding(D, a), a.rest = <<>>
  PROVE  SetOK(a.s) /\ Members(a.s) = D /\ (D # {} => a.s.n \in Nat /\ a.s.n > IntegralVecSize)
<1>1. Members(a.s) = D /\ SetOK(a.s)
  BY EmptyFacts DEF Holding
<1>2. ASSUME D # {} PROVE a.s.n \in Nat /\ a.s.n > IntegralVecSize
  <2>1. a.s # NoSet
    BY <1>1, <1>2 DEF NoSet, Members
  <2> QED
    BY <1>1, <2>1, Sizes DEF SetOK, FilledTable
<1> QED
  BY <1>1, <1>2

\* A ZNode more: set_add_znode.
LEMMA AddZOK ==
  ASSUME NEW z, ZNodesOK(z), NEW x \in Nat \ {0}, AddZ(z, x).rest = <<>>
  PROVE  ZNodesOK(AddZ(z, x).s) /\ Members(AddZ(z, x).s) = Members(z) \cup {x}
<1> DEFINE a == AddZ(z, x)
<1>1. CASE z.n < IntegralVecSize
  <2>1. /\ z = [n |-> z.n, i |-> z.i, v |-> z.v] /\ z.n \in Nat
        /\ IsSeq(z.v) /\ Len(z.v) = z.n /\ ToSet(z.v) \subseteq Nat \ {0} /\ z.i = 0
    BY <1>1 DEF ZNodesOK, IntegralVecSize, SmallOK
  <2> DEFINE u == Append(z.v, x)
  <2>2. IsSeq(u) /\ Len(u) = z.n + 1 /\ ToSet(u) = ToSet(z.v) \cup {x}
    BY <2>1, AppendFacts
  <2>3. a.s = [n |-> z.n + 1, i |-> 0, v |-> u]
    BY <1>1, <2>1 DEF AddZ
  <2> HIDE DEF u
  <2>4. a.s = [n |-> a.s.n, i |-> a.s.i, v |-> a.s.v] /\ a.s.n = z.n + 1 /\ a.s.i = 0 /\ a.s.v = u
    BY <2>3
  <2> HIDE DEF a
  <2>5. ZNodesOK(a.s)
    BY <1>1, <2>1, <2>2, <2>4 DEF ZNodesOK, SmallOK, IntegralVecSize
  <2>6. Members(a.s) = ToSet(u) \ {0} /\ Members(z) = ToSet(z.v) \ {0}
    BY <2>4 DEF Members, ToSet
  <2> QED
    BY <2>2, <2>5, <2>6 DEF a
<1>2. CASE z.n = IntegralVecSize
  <2>1. IsSeq(z.v) /\ ToSet(z.v) \subseteq Nat \ {0}
    BY <1>2 DEF ZNodesOK, SmallOK, IntegralVecSize
  <2> DEFINE u == Append(z.v, x)
  <2>2. IsSeq(u) /\ ToSet(u) = ToSet(z.v) \cup {x}
    BY <2>1, AppendFacts
  <2>3. a = SetAddAll(NoSet, u, 2)
    BY <1>2 DEF AddZ, IntegralVecSize
  <2>4. SetOK(NoSet) /\ Members(NoSet) = {}
    BY DEF SetOK, NoSet, Members
  <2> DEFINE D == Members(NoSet) \cup (ToSet(u) \ {0})
  <2> HIDE DEF u
  <2>5. Holding(D, SetAddAll(NoSet, u, 2))
    BY <2>1, <2>2, <2>4, SetAddAllHolds
  <2>6. D = Members(z) \cup {x}
    BY <2>1, <2>2, <2>4 DEF Members, ToSet
  <2> HIDE DEF a, D
  <2>7. a.rest = <<>>
    BY DEF a
  <2>8. SetOK(a.s) /\ Members(a.s) = D /\ (D # {} => a.s.n \in Nat /\ a.s.n > IntegralVecSize)
    BY <2>3, <2>5, <2>7, NothingWaits
  <2> QED
    BY <2>6, <2>8 DEF ZNodesOK, a, IntegralVecSize
<1>3. CASE z.n > IntegralVecSize
  <2>1. SetOK(z)
    BY <1>3 DEF ZNodesOK, IntegralVecSize
  <2> DEFINE u == <<x>>
  <2>2. IsSeq(u) /\ ToSet(u) = {x}
    BY SingleFacts
  <2>3. a = SetAddAll(z, u, 2)
    <3>1. ~(z.n < IntegralVecSize) /\ ~(z.n = IntegralVecSize)
      BY <1>3 DEF ZNodesOK, IntegralVecSize
    <3> QED
      BY <3>1 DEF AddZ
  <2> DEFINE D == Members(z) \cup (ToSet(u) \ {0})
  <2> HIDE DEF u
  <2>5. Holding(D, SetAddAll(z, u, 2))
    BY <2>1, <2>2, SetAddAllHolds
  <2>6. D = Members(z) \cup {x}
    BY <2>2
  <2> HIDE DEF a, D
  <2>7. a.rest = <<>>
    BY DEF a
  <2>8. SetOK(a.s) /\ Members(a.s) = D /\ (D # {} => a.s.n \in Nat /\ a.s.n > IntegralVecSize)
    BY <2>3, <2>5, <2>7, NothingWaits
  <2> QED
    BY <2>6, <2>8 DEF ZNodesOK, a, IntegralVecSize
<1>4. z.n \in Nat
  BY DEF ZNodesOK
<1> QED
  BY <1>1, <1>2, <1>3, <1>4 DEF IntegralVecSize

\* Every operation keeps the containers.
LEMMA ContainersKept ==
  ASSUME ContainersInv, ContainersNext
  PROVE  ContainersInv'
<1>0. Elements \subseteq Nat \ {0}
  BY ContainersAssumption
<1>1. CASE VecAdd
  <2>1. VecOK(vec')
    BY <1>1, VecGrows DEF VecAdd, ContainersInv
  <2> QED
    BY <1>1, <2>1 DEF VecAdd, ContainersInv
<1>2. ASSUME NEW x \in Elements, SetAddOne(x) PROVE ContainersInv'
  <2> DEFINE u == <<x>>
             a == SetAddAll(set, u, 1)
             D == Members(set) \cup (ToSet(u) \ {0})
  <2>1. set' = a.s /\ added' = added \cup {x} /\ a.rest = <<>> /\ UNCHANGED <<vec, zset, zadded>>
    BY <1>2 DEF SetAddOne, SetAdd
  <2>2. IsSeq(u) /\ ToSet(u) = {x} /\ x \in Nat \ {0}
    BY <1>0, SingleFacts
  <2> HIDE DEF u
  <2>3. Holding(D, a)
    BY <2>2, SetAddAllHolds DEF ContainersInv
  <2> HIDE DEF a
  <2>4. SetOK(a.s) /\ Members(a.s) = D
    BY <2>1, <2>3, NothingWaits
  <2>5. D = added'
    BY <2>1, <2>2 DEF ContainersInv
  <2> QED
    BY <2>1, <2>4, <2>5 DEF ContainersInv
<1>3. CASE SetToVec
  <2>1. VecOK(vec')
    BY <1>3, VecFromSet, InOrderFacts DEF SetToVec, ContainersInv
  <2>2. SetOK(NoSet) /\ Members(NoSet) = {}
    BY DEF SetOK, NoSet, Members
  <2> QED
    BY <1>3, <2>1, <2>2 DEF SetToVec, ContainersInv
<1>4. ASSUME NEW x \in Elements, ZNodeAdd(x) PROVE ContainersInv'
  <2>1. AddZ(zset, x).rest = <<>> /\ zset' = AddZ(zset, x).s /\ zadded' = zadded \cup {x} /\ UNCHANGED <<vec, set, added>>
    BY <1>4 DEF ZNodeAdd
  <2>2. x \in Nat \ {0} /\ ZNodesOK(zset)
    BY <1>0 DEF ContainersInv
  <2>3. ZNodesOK(zset') /\ Members(zset') = Members(zset) \cup {x}
    BY <2>1, <2>2, AddZOK
  <2> QED
    BY <2>1, <2>3 DEF ContainersInv
<1> QED
  BY <1>1, <1>2, <1>3, <1>4 DEF ContainersNext

\* The containers keep what they are given.
LEMMA ContainersInvariant == ContainersSpec => []ContainersInv
<1>1. ASSUME ContainersInit PROVE ContainersInv
  <2>1. VecOK(NoVec)
    BY DEF VecOK, NoVec
  <2>2. SetOK(NoSet) /\ Members(NoSet) = {}
    BY DEF SetOK, NoSet, Members
  <2>3. ZNodesOK(NoSet)
    BY EmptyFacts DEF NoSet, ZNodesOK, SmallOK, IntegralVecSize
  <2> QED
    BY <1>1, <2>1, <2>2, <2>3 DEF ContainersInit, ContainersInv
<1>2. ContainersInv /\ [ContainersNext]_containers => ContainersInv'
  <2>1. ASSUME ContainersInv, UNCHANGED containers PROVE ContainersInv'
    BY <2>1 DEF ContainersInv, containers
  <2> QED
    BY <2>1, ContainersKept
<1> QED
  BY <1>1, <1>2, PTL DEF ContainersSpec

\* The occupied slots of a table are as many as its members.
LEMMA AsManySlots ==
  ASSUME NEW s, SetOK(s)
  PROVE  Cardinality({k \in DOMAIN s.v : s.v[k] # 0}) = Cardinality(Members(s))
<1> DEFINE K == {k \in DOMAIN s.v : s.v[k] # 0}
           f == [k \in K |-> s.v[k]]
<1>1. \E n \in Nat : DOMAIN s.v \subseteq 0..n
  <2>1. CASE s = NoSet
    BY <2>1 DEF NoSet
  <2>2. CASE FilledTable(s)
    <3>1. DOMAIN s.v = 0..(s.n - 1) /\ s.n \in Nat
      BY <2>2, Sizes DEF FilledTable
    <3>2. 0..(s.n - 1) \subseteq 0..s.n
      BY <3>1
    <3> QED
      BY <3>1, <3>2
  <2> QED
    BY <2>1, <2>2 DEF SetOK
<1>2. IsFiniteSet(K)
  <2>1. PICK n \in Nat : DOMAIN s.v \subseteq 0..n
    BY <1>1
  <2>2. IsFiniteSet(0..n)
    <3>1. 0 \in Int /\ n \in Int
      BY <2>1
    <3> QED
      BY ONLY <3>1, FS_Interval
  <2> QED
    BY <2>1, <2>2, FS_Subset
<1>3. \A k, l \in K : s.v[k] = s.v[l] => k = l
  <2>1. CASE s = NoSet
    BY <2>1 DEF NoSet
  <2>2. CASE FilledTable(s)
    BY <2>2 DEF FilledTable
  <2> QED
    BY <2>1, <2>2 DEF SetOK
<1>4. f \in Bijection(K, Members(s))
  <2>1. f \in [K -> Members(s)]
    BY DEF Members
  <2>2. \A y \in Members(s) : \E k \in K : f[k] = y
    BY DEF Members
  <2>3. \A k, l \in K : f[k] = f[l] => k = l
    BY <1>3
  <2> QED
    BY <2>1, <2>2, <2>3, Fun_IsBij
<1> HIDE DEF K, f
<1>5. Cardinality(K) = Cardinality(Members(s))
  <2>1. ExistsBijection(K, Members(s))
    BY <1>4 DEF ExistsBijection
  <2> QED
    BY <1>2, <2>1, FS_Bijection
<1> QED
  BY <1>5 DEF K

-----------------------------------------------------------------------------
\* No vector is written past its end, however it was filled: vec_add, vec_add_internal
\* and set_to_vec, for vectors of any length.
THEOREM VectorsFit == ContainersSpec => []VecFits
<1>1. ContainersInv => VecFits
  BY DEF ContainersInv, VecOK, VecFits, IntegralVecSize, InitialVecSize
<1> QED
  BY <1>1, ContainersInvariant, PTL

\* A set finds exactly what was added, for any elements and in any order, as long as there
\* is a larger size when no gap is left within five slots: set_find and set_add.
THEOREM SetsHold == ContainersSpec => []SetHolds
<1>1. ASSUME ContainersInv PROVE SetHolds
  <2>1. \A x \in Elements : x \in Nat \ {0}
    BY ContainersAssumption
  <2> QED
    BY <1>1, <2>1, FoundIsMember, AsManySlots DEF ContainersInv, SetHolds
<1> QED
  BY <1>1, ContainersInvariant, PTL

\* So does the set of the ZNodes of a node, whether it is a vector or a table, and nothing
\* is lost when the one becomes the other: set_find_znode and set_add_znode.
THEOREM ZNodesFound == ContainersSpec => []ZNodesHold
<1>1. ASSUME ContainersInv PROVE ZNodesHold
  <2>1. \A x \in Elements : x \in Nat \ {0}
    BY ContainersAssumption
  <2> QED
    BY <1>1, <2>1, FoundInVector DEF ContainersInv, ZNodesHold
<1> QED
  BY <1>1, ContainersInvariant, PTL

-----------------------------------------------------------------------------
(* The hash table.                                                         *)

\* No element twice.
Once(q) == \A i, j \in DOMAIN q : q[i] = q[j] => i = j

\* The symbols D, of hashes h, in n buckets.
BucketOK(q, k, n, h, D) == IsSeq(q) /\ Once(q) /\ ToSet(q) = {x \in D : h[x] % n = k}
BucketsOK(b, n, h, D) ==
  /\ b = [k \in 0..(n - 1) |-> b[k]]
  /\ \A k \in 0..(n - 1) : BucketOK(b[k], k, n, h, D)

\* An element before the others.
LEMMA ConsFacts ==
  ASSUME NEW q, IsSeq(q), NEW x
  PROVE  /\ IsSeq(<<x>> \o q) /\ ToSet(<<x>> \o q) = {x} \cup ToSet(q) /\ Len(<<x>> \o q) = Len(q) + 1
         /\ (<<x>> \o q)[1] = x /\ \A i \in 1..Len(q) : (<<x>> \o q)[i + 1] = q[i]
<1> DEFINE e == <<x>>
           r == e \o q
<1>1. IsSeq(e) /\ Len(e) = 1 /\ e[1] = x /\ ToSet(e) = {x}
  BY SingleFacts
<1>2. Len(q) \in Nat
  BY SeqFacts
<1> HIDE DEF e
<1>3. /\ IsSeq(r) /\ Len(r) = Len(e) + Len(q)
      /\ \A i \in 1..(Len(e) + Len(q)) : r[i] = IF i <= Len(e) THEN e[i] ELSE q[i - Len(e)]
      /\ ToSet(r) = ToSet(e) \cup ToSet(q)
  BY <1>1, ConcatFacts
<1> HIDE DEF r
<1>4. r[1] = x /\ \A i \in 1..Len(q) : r[i + 1] = q[i]
  BY <1>1, <1>2, <1>3
<1> QED
  BY <1>1, <1>2, <1>3, <1>4 DEF r, e

\* It is a new one.
LEMMA ConsOnce ==
  ASSUME NEW q, IsSeq(q), Once(q), NEW x, x \notin ToSet(q)
  PROVE  Once(<<x>> \o q)
<1> DEFINE r == <<x>> \o q
           n == Len(q)
<1>1. IsSeq(r) /\ Len(r) = n + 1 /\ r[1] = x /\ n \in Nat /\ \A i \in 1..n : r[i + 1] = q[i]
  BY ConsFacts, SeqFacts
<1>2. DOMAIN r = 1..(n + 1) /\ DOMAIN q = 1..n
  BY <1>1, SeqFacts
<1> HIDE DEF r, n
<1>3. ASSUME NEW i \in 2..(n + 1) PROVE i - 1 \in 1..n /\ r[i] = q[i - 1] /\ r[i] # x
  <2>1. i - 1 \in 1..n /\ (i - 1) + 1 = i
    BY <1>1
  <2>2. r[i] = q[i - 1]
    BY <1>1, <2>1
  <2> QED
    BY <1>2, <2>1, <2>2 DEF ToSet
<1>4. ASSUME NEW i \in 1..(n + 1), NEW j \in 1..(n + 1), r[i] = r[j] PROVE i = j
  <2>1. CASE i = 1 \/ j = 1
    BY <1>1, <1>3, <1>4, <2>1
  <2>2. CASE i # 1 /\ j # 1
    <3>1. i \in 2..(n + 1) /\ j \in 2..(n + 1)
      BY <1>1, <2>2
    <3>2. i - 1 \in 1..n /\ j - 1 \in 1..n /\ q[i - 1] = q[j - 1]
      BY <1>3, <1>4, <3>1
    <3>3. i - 1 = j - 1
      BY <1>2, <3>2 DEF Once
    <3> QED
      BY <3>1, <3>3
  <2> QED
    BY <2>1, <2>2
<1> QED
  BY <1>2, <1>4 DEF Once, r

\* Put adds a symbol.
LEMMA PutOK ==
  ASSUME NEW n \in Nat \ {0}, NEW h, NEW D, NEW b, BucketsOK(b, n, h, D), NEW x, x \notin D, h[x] \in Nat
  PROVE  BucketsOK(Put(b, n, h[x], x), n, h, D \cup {x})
<1> DEFINE k == h[x] % n
           r == <<x>> \o b[k]
           u == Put(b, n, h[x], x)
<1>1. k \in 0..(n - 1)
  OBVIOUS
<1> HIDE DEF k
<1>2. BucketOK(b[k], k, n, h, D) /\ x \notin ToSet(b[k])
  BY <1>1 DEF BucketsOK, BucketOK
<1>3. IsSeq(r) /\ Once(r) /\ ToSet(r) = {x} \cup ToSet(b[k])
  BY <1>2, ConsFacts, ConsOnce DEF BucketOK
<1>4. u = [b EXCEPT ![k] = r]
  BY DEF Put, k
<1> HIDE DEF r, u
<1>5. u = [i \in 0..(n - 1) |-> u[i]] /\ u[k] = r /\ \A i \in 0..(n - 1) : i # k => u[i] = b[i]
  BY <1>1, <1>4 DEF BucketsOK
<1>6. ASSUME NEW i \in 0..(n - 1) PROVE BucketOK(u[i], i, n, h, D \cup {x})
  <2>1. CASE i = k
    BY <1>2, <1>3, <1>5, <2>1 DEF BucketOK, k
  <2>2. CASE i # k
    BY <1>5, <2>2 DEF BucketOK, BucketsOK, k
  <2> QED
    BY <2>1, <2>2
<1> QED
  BY <1>5, <1>6 DEF BucketsOK, u

PutStep(n, h, c, b, x) == Put(b, n, h[x], x)
PutHolds(d, b) == BucketsOK(b, d.n, d.h, d.D)
PutFold == INSTANCE Folding WITH Step <- PutStep, Holds <- PutHolds

\* A whole sequence is put.
LEMMA PutAllOK ==
  ASSUME NEW n \in Nat \ {0}, NEW h, NEW D, NEW b, BucketsOK(b, n, h, D),
         NEW q, IsSeq(q), Once(q), ToSet(q) \cap D = {}, \A x \in ToSet(q) : h[x] \in Nat
  PROVE  BucketsOK(PutAll(b, n, h, q), n, h, D \cup ToSet(q))
<1> DEFINE m == Len(q)
           d == [k \in 0..m |-> [n |-> n, h |-> h, D |-> D \cup {q[j] : j \in 1..k}]]
           f == PutFold!Values(n, h, 0, b, q)
<1>1. PutAll(b, n, h, q) = f[m]
  BY DEF PutAll, PutStep, PutFold!Values, PutFold!FoldsTo, FoldSteps
<1>2. m \in Nat /\ DOMAIN q = 1..m
  BY SeqFacts
<1>3. \A k \in 0..m : d[k].n = n /\ d[k].h = h /\ d[k].D = D \cup {q[j] : j \in 1..k}
  OBVIOUS
<1> HIDE DEF d
<1>4. PutHolds(d[0], b)
  <2>1. 0 \in 0..m /\ {q[j] : j \in 1..0} = {}
    BY <1>2
  <2>2. d[0].n = n /\ d[0].h = h /\ d[0].D = D
    BY <1>3, <2>1
  <2> QED
    BY <2>2 DEF PutHolds
<1>5. ASSUME NEW k \in 1..m, NEW u, PutHolds(d[k - 1], u) PROVE PutHolds(d[k], PutStep(n, h, 0, u, q[k]))
  <2> DEFINE E == d[k - 1].D
             x == q[k]
  <2>1. k - 1 \in 0..m /\ k \in 0..m /\ 1..k = (1..(k - 1)) \cup {k} /\ k \notin 1..(k - 1)
    BY <1>2
  <2>2. E = D \cup {q[j] : j \in 1..(k - 1)} /\ d[k].D = E \cup {x}
    BY <1>3, <2>1
  <2>3. x \in ToSet(q) /\ x \notin E
    <3>1. x \in ToSet(q)
      BY <1>2 DEF ToSet
    <3>2. \A j \in 1..(k - 1) : q[j] # x
      BY <1>2, <2>1 DEF Once
    <3> QED
      BY <2>2, <3>1, <3>2
  <2>4. BucketsOK(u, n, h, E)
    BY <1>3, <1>5, <2>1 DEF PutHolds
  <2> HIDE DEF E, x
  <2>5. BucketsOK(Put(u, n, h[x], x), n, h, E \cup {x})
    BY <2>3, <2>4, PutOK
  <2> QED
    BY <1>3, <2>1, <2>2, <2>5 DEF PutHolds, PutStep, x
<1>6. \A k \in 1..m : \A u : PutHolds(d[k - 1], u) => PutHolds(d[k], PutStep(n, h, 0, u, q[k]))
  BY <1>5
<1>7. PutHolds(d[m], PutFold!Values(n, h, 0, b, q)[m])
  BY <1>2, <1>4, <1>6, PutFold!FoldAdvances
<1>8. d[m].D = D \cup ToSet(q)
  BY <1>2, <1>3 DEF ToSet
<1> QED
  BY <1>1, <1>2, <1>3, <1>7, <1>8 DEF PutHolds

RefillStep(n, h, c, b, q) == PutAll(b, n, h, q)
RefillFold == INSTANCE Folding WITH Step <- RefillStep, Holds <- PutHolds

\* The buckets of one table are put into those of another.
LEMMA RefilledOK ==
  ASSUME NEW m \in Nat, NEW n \in Nat \ {0}, NEW h, NEW D, NEW b, BucketsOK(b, m, h, D), \A x \in D : h[x] \in Nat,
         m > 0
  PROVE  BucketsOK(Refilled(b, m, n, h), n, h, D)
<1> DEFINE qs == [k \in 1..m |-> b[k - 1]]
           base == [k \in 0..(n - 1) |-> <<>>]
           d == [k \in 0..m |-> [n |-> n, h |-> h, D |-> {x \in D : h[x] % m < k}]]
<1>1. Refilled(b, m, n, h) = RefillFold!Values(n, h, 0, base, qs)[Len(qs)]
  BY DEF Refilled, RefillStep, RefillFold!Values, RefillFold!FoldsTo, FoldSteps
<1>2. qs = [k \in 1..m |-> qs[k]] /\ \A k \in 1..m : qs[k] = b[k - 1]
  OBVIOUS
<1> HIDE DEF qs
<1>3. Len(qs) = m
  BY <1>2, FunctionIsSeq
<1>4. \A k \in 0..m : d[k].n = n /\ d[k].h = h /\ d[k].D = {x \in D : h[x] % m < k}
  OBVIOUS
<1>5. \A x \in D : h[x] % m \in 0..(m - 1)
  OBVIOUS
<1> HIDE DEF d
<1>6. PutHolds(d[0], base)
  <2>1. d[0].D = {} /\ d[0].n = n /\ d[0].h = h
    BY <1>4, <1>5
  <2>2. base = [k \in 0..(n - 1) |-> base[k]] /\ \A k \in 0..(n - 1) : base[k] = <<>>
    OBVIOUS
  <2> HIDE DEF base
  <2>3. Once(<<>>)
    BY DEF Once
  <2> QED
    BY <2>1, <2>2, <2>3, EmptyFacts DEF PutHolds, BucketsOK, BucketOK
<1> HIDE DEF base
<1>7. ASSUME NEW k \in 1..m, NEW u, PutHolds(d[k - 1], u) PROVE PutHolds(d[k], RefillStep(n, h, 0, u, qs[k]))
  <2> DEFINE E == d[k - 1].D
             q == qs[k]
  <2>1. k - 1 \in 0..m /\ k \in 0..m /\ k - 1 \in 0..(m - 1)
    OBVIOUS
  <2>2. E = {x \in D : h[x] % m < k - 1} /\ d[k].D = {x \in D : h[x] % m < k}
    BY <1>4, <2>1
  <2>3. BucketOK(q, k - 1, m, h, D)
    BY <1>2, <2>1 DEF BucketsOK
  <2>4. BucketsOK(u, n, h, E)
    BY <1>4, <1>7, <2>1 DEF PutHolds
  <2> HIDE DEF q, E
  <2>5. ToSet(q) = {x \in D : h[x] % m = k - 1} /\ IsSeq(q) /\ Once(q)
    BY <2>3 DEF BucketOK
  <2>6. ToSet(q) \cap E = {} /\ E \cup ToSet(q) = {x \in D : h[x] % m < k}
    <3>1. \A x \in D : h[x] % m \in Nat
      BY <1>5
    <3> QED
      BY <2>2, <2>5, <3>1
  <2>7. \A x \in ToSet(q) : h[x] \in Nat
    BY <2>5
  <2>8. BucketsOK(PutAll(u, n, h, q), n, h, E \cup ToSet(q))
    BY <2>4, <2>5, <2>6, <2>7, PutAllOK
  <2> QED
    BY <1>4, <2>1, <2>2, <2>6, <2>8 DEF PutHolds, RefillStep, q
<1>8. \A k \in 1..m : \A u : PutHolds(d[k - 1], u) => PutHolds(d[k], RefillStep(n, h, 0, u, qs[k]))
  BY <1>7
<1>9. PutHolds(d[m], RefillFold!Values(n, h, 0, base, qs)[m])
  BY <1>3, <1>6, <1>8, RefillFold!FoldAdvances
<1>10. d[m].D = D /\ d[m].n = n /\ d[m].h = h
  <2>1. m \in 0..m /\ \A x \in D : h[x] % m < m
    BY <1>5
  <2> QED
    BY <1>4, <2>1
<1> QED
  BY <1>1, <1>3, <1>9, <1>10 DEF PutHolds

-----------------------------------------------------------------------------
(* Adding symbols.                                                         *)

\* Of two symbols with one name the later one comes first.
Ordered(q, names) == \A i, j \in DOMAIN q : i < j /\ names[q[i]] = names[q[j]] => q[i] > q[j]

\* A table holds the symbols D; it may have lost their order when it has grown.
TableOK(t, h, names, D) ==
  /\ t = [n |-> t.n, grow |-> t.grow, index |-> t.index, buckets |-> t.buckets]
  /\ t.n \in Nat \ {0} /\ t.grow = 2 * t.n + 1 /\ t.index \in Nat /\ t.index <= t.grow
  /\ t.n \in InitialSizes \/ \A m \in InitialSizes : m < t.n
  /\ D \subseteq Nat /\ \A x \in D : h[x] \in Nat
  /\ BucketsOK(t.buckets, t.n, h, D)
  /\ ~Repeats /\ t.n \in InitialSizes => \A k \in 0..(t.n - 1) : Ordered(t.buckets[k], names)

\* A later symbol comes first.
LEMMA ConsOrdered ==
  ASSUME NEW q, IsSeq(q), NEW names, Ordered(q, names), ToSet(q) \subseteq Nat, NEW x \in Nat,
         \A y \in ToSet(q) : names[y] = names[x] => x > y
  PROVE  Ordered(<<x>> \o q, names)
<1> DEFINE r == <<x>> \o q
           n == Len(q)
<1>0. IsSeq(q)
  OBVIOUS
<1>1. IsSeq(r) /\ Len(r) = n + 1 /\ r[1] = x /\ n \in Nat /\ \A i \in 1..n : r[i + 1] = q[i]
  BY ONLY <1>0, ConsFacts, SeqFacts
<1>2. DOMAIN r = 1..(n + 1) /\ DOMAIN q = 1..n
  BY <1>1, SeqFacts
<1> HIDE DEF r, n
<1>3. ASSUME NEW i \in 2..(n + 1) PROVE i - 1 \in 1..n /\ r[i] = q[i - 1] /\ r[i] \in ToSet(q)
  <2>1. i - 1 \in 1..n /\ (i - 1) + 1 = i
    BY <1>1
  <2>2. r[i] = q[i - 1]
    BY <1>1, <2>1
  <2> QED
    BY <1>2, <2>1, <2>2 DEF ToSet
<1>4. ASSUME NEW i \in 1..(n + 1), NEW j \in 1..(n + 1), i < j, names[r[i]] = names[r[j]] PROVE r[i] > r[j]
  <2>1. j \in 2..(n + 1)
    BY <1>1, <1>4
  <2>2. CASE i = 1
    BY <1>1, <1>3, <1>4, <2>1, <2>2
  <2>3. CASE i # 1
    <3>1. i \in 2..(n + 1)
      BY <1>1, <2>3
    <3>2. i - 1 \in 1..n /\ j - 1 \in 1..n /\ i - 1 < j - 1 /\ names[q[i - 1]] = names[q[j - 1]]
      BY <1>3, <1>4, <2>1, <3>1
    <3>3. q[i - 1] > q[j - 1]
      BY <1>2, <3>2 DEF Ordered
    <3> QED
      BY <1>3, <2>1, <3>1, <3>3
  <2> QED
    BY <2>2, <2>3
<1> QED
  BY <1>2, <1>4 DEF Ordered, r

\* symhash_add, with the growth it may lead to.
LEMMA SymhashAddOK ==
  ASSUME NEW t, NEW h, NEW names, NEW D, TableOK(t, h, names, D), NEW x \in Nat, x \notin D, h[x] \in Nat,
         ~Repeats => \A y \in D : names[y] = names[x] => x > y
  PROVE  TableOK(SymhashAdd(t, x, h), h, names, D \cup {x})
<1> DEFINE b == Put(t.buckets, t.n, h[x], x)
           u == [n |-> t.n, grow |-> t.grow, index |-> t.index + 1, buckets |-> Put(t.buckets, t.n, h[x], x)]
           E == D \cup {x}
<1>0. t = [n |-> t.n, grow |-> t.grow, index |-> t.index, buckets |-> t.buckets]
  BY DEF TableOK
<1>1. u = [n |-> t.n, grow |-> t.grow, index |-> t.index + 1, buckets |-> b]
  OBVIOUS
<1>2. BucketsOK(t.buckets, t.n, h, D) /\ t.n \in Nat \ {0}
  BY DEF TableOK
<1>3. BucketsOK(b, t.n, h, E)
  BY <1>2, PutOK
<1>4. SymhashAdd(t, x, h) = IF u.index > u.grow THEN Rehashed(u, h) ELSE u
  BY DEF SymhashAdd
<1> HIDE DEF u
<1>5. u.n = t.n /\ u.grow = t.grow /\ u.index = t.index + 1 /\ u.buckets = b
  BY <1>1
<1>6. E \subseteq Nat /\ \A y \in E : h[y] \in Nat
  BY DEF TableOK
<1>7. CASE ~(u.index > u.grow)
  <2>1. ASSUME ~Repeats, t.n \in InitialSizes, NEW k \in 0..(t.n - 1) PROVE Ordered(b[k], names)
    <3>1. Ordered(t.buckets[k], names) /\ BucketOK(t.buckets[k], k, t.n, h, D)
      BY <2>1 DEF TableOK, BucketsOK
    <3>2. DOMAIN t.buckets = 0..(t.n - 1)
      BY <1>2 DEF BucketsOK
    <3>3. CASE k = h[x] % t.n
      <4>1. b[k] = <<x>> \o t.buckets[k]
        BY <3>2, <3>3 DEF Put
      <4>2. IsSeq(t.buckets[k]) /\ ToSet(t.buckets[k]) \subseteq D /\ D \subseteq Nat
        BY <3>1 DEF BucketOK, TableOK
      <4>3. \A y \in ToSet(t.buckets[k]) : names[y] = names[x] => x > y
        BY <2>1, <4>2
      <4> QED
        BY ZenonT(40), <3>1, <4>1, <4>2, <4>3, ConsOrdered
    <3>4. CASE k # h[x] % t.n
      <4>1. b[k] = t.buckets[k]
        BY <3>2, <3>4 DEF Put
      <4> QED
        BY <3>1, <4>1
    <3> QED
      BY <3>3, <3>4
  <2> HIDE DEF b, E
  <2>2. t.index + 1 \in Nat /\ t.index + 1 <= t.grow
    BY <1>5, <1>7 DEF TableOK
  <2>3. u = [n |-> u.n, grow |-> u.grow, index |-> u.index, buckets |-> u.buckets]
    BY <1>1, <1>5
  <2>4. TableOK(u, h, names, E)
    BY <1>3, <1>5, <1>6, <2>1, <2>2, <2>3 DEF TableOK
  <2> QED
    BY <1>4, <1>7, <2>4 DEF E
<1>8. CASE u.index > u.grow
  <2> DEFINE g == t.grow
             c == Refilled(b, t.n, g, h)
             w == Rehashed(u, h)
  <2>1. w = [n |-> g, grow |-> g * 2 + 1, index |-> t.index + 1, buckets |-> c]
    BY <1>5 DEF Rehashed
  <2>2. g \in Nat \ {0} /\ g = 2 * t.n + 1 /\ t.index \in Nat /\ t.index <= g
    BY DEF TableOK
  <2> HIDE DEF b, E, g
  <2>3. BucketsOK(c, g, h, E)
    <3>1. /\ t.n \in Nat /\ t.n > 0 /\ g \in Nat \ {0} /\ BucketsOK(b, t.n, h, E)
          /\ \A y \in E : h[y] \in Nat
      BY <1>2, <1>3, <1>6, <2>2
    <3> DEFINE m == t.n
    <3> HIDE DEF m
    <3>2. m \in Nat /\ m > 0 /\ BucketsOK(b, m, h, E)
      BY <3>1 DEF m
    <3>3. BucketsOK(Refilled(b, m, g, h), g, h, E)
      BY ONLY <3>1, <3>2, RefilledOK
    <3> QED
      BY <3>3 DEF m
  <2> HIDE DEF c, w
  <2>4. w.n = g /\ w.grow = 2 * w.n + 1 /\ w.index = t.index + 1 /\ w.buckets = c
    BY <2>1, <2>2
  <2>5. w = [n |-> w.n, grow |-> w.grow, index |-> w.index, buckets |-> w.buckets]
    BY <2>1
  <2>6. \A m \in InitialSizes : m < w.n
    <3>1. \A m \in InitialSizes : m \in Nat /\ m <= 2 * t.n
      BY <1>2, TableAssumption DEF TableOK
    <3> QED
      BY <1>2, <2>2, <2>4, <3>1
  <2>7. w.n \notin InitialSizes
    BY <2>2, <2>4, <2>6
  <2>8. w.index \in Nat /\ w.index <= w.grow
    BY <2>2, <2>4
  <2>9. TableOK(w, h, names, E)
    BY <1>6, <2>2, <2>3, <2>4, <2>5, <2>6, <2>7, <2>8 DEF TableOK
  <2> QED
    BY <1>4, <1>8, <2>9 DEF E, w
<1> QED
  BY <1>7, <1>8

SymStep(h, b, c, t, x) == SymhashAdd(t, x, h)
SymHolds(d, t) == TableOK(t, d.h, d.names, d.D)
SymFold == INSTANCE Folding WITH Step <- SymStep, Holds <- SymHolds

\* No name twice in a list.
OneName(q, names) == ~Repeats => \A i, j \in DOMAIN q : names[q[i]] = names[q[j]] => i = j
LaterThan(q, D) == \A x \in ToSet(q) : \A y \in D : x > y

\* A list is added to the table, from its head.
LEMMA AddedAllOK ==
  ASSUME NEW t, NEW h, NEW names, NEW D, TableOK(t, h, names, D),
         NEW q, IsSeq(q), Once(q), OneName(q, names), ToSet(q) \subseteq Nat, \A x \in ToSet(q) : h[x] \in Nat,
         LaterThan(q, D)
  PROVE  TableOK(AddedAll(t, h, q), h, names, D \cup ToSet(q))
<1> DEFINE m == Len(q)
           d == [k \in 0..m |-> [h |-> h, names |-> names, D |-> D \cup {q[j] : j \in 1..k}]]
           f == SymFold!Values(h, 0, 0, t, q)
<1>1. AddedAll(t, h, q) = f[m]
  BY DEF AddedAll, SymStep, SymFold!Values, SymFold!FoldsTo, FoldSteps
<1>2. m \in Nat /\ DOMAIN q = 1..m
  BY SeqFacts
<1>3. \A k \in 0..m : d[k].h = h /\ d[k].names = names /\ d[k].D = D \cup {q[j] : j \in 1..k}
  OBVIOUS
<1> HIDE DEF d
<1>4. SymHolds(d[0], t)
  <2>1. 0 \in 0..m /\ {q[j] : j \in 1..0} = {}
    BY <1>2
  <2>2. d[0].h = h /\ d[0].names = names /\ d[0].D = D
    BY <1>3, <2>1
  <2> QED
    BY <2>2 DEF SymHolds
<1>5. ASSUME NEW k \in 1..m, NEW u, SymHolds(d[k - 1], u) PROVE SymHolds(d[k], SymStep(h, 0, 0, u, q[k]))
  <2> DEFINE E == d[k - 1].D
             x == q[k]
  <2>1. k - 1 \in 0..m /\ k \in 0..m /\ 1..k = (1..(k - 1)) \cup {k} /\ k \notin 1..(k - 1)
    BY <1>2
  <2>2. E = D \cup {q[j] : j \in 1..(k - 1)} /\ d[k].D = E \cup {x}
    BY <1>3, <2>1
  <2>3. x \in ToSet(q) /\ x \in Nat /\ h[x] \in Nat /\ \A y \in D : x > y /\ y \in Nat
    <3>1. x \in ToSet(q)
      BY <1>2 DEF ToSet
    <3> QED
      BY <3>1 DEF LaterThan, TableOK
  <2>4. x \notin E
    <3>1. \A j \in 1..(k - 1) : q[j] # x
      BY <1>2, <2>1 DEF Once
    <3> QED
      BY <2>2, <2>3, <3>1
  <2>5. ASSUME ~Repeats, NEW y \in E, names[y] = names[x] PROVE x > y
    <3>1. CASE y \in D
      BY <2>3, <3>1
    <3>2. ASSUME NEW j \in 1..(k - 1), y = q[j] PROVE FALSE
      <4>1. j \in DOMAIN q /\ k \in DOMAIN q /\ j # k
        BY <1>2, <2>1
      <4> QED
        BY <2>5, <3>2, <4>1 DEF OneName
    <3> QED
      BY <2>2, <3>1, <3>2
  <2>6. TableOK(u, h, names, E)
    BY <1>3, <1>5, <2>1 DEF SymHolds
  <2> HIDE DEF E, x
  <2>7. TableOK(SymhashAdd(u, x, h), h, names, E \cup {x})
    BY <2>3, <2>4, <2>5, <2>6, SymhashAddOK
  <2> QED
    BY <1>3, <2>1, <2>2, <2>7 DEF SymHolds, SymStep, x
<1>6. \A k \in 1..m : \A u : SymHolds(d[k - 1], u) => SymHolds(d[k], SymStep(h, 0, 0, u, q[k]))
  BY <1>5
<1>7. SymHolds(d[m], SymFold!Values(h, 0, 0, t, q)[m])
  BY <1>2, <1>4, <1>6, SymFold!FoldAdvances
<1>8. d[m].D = D \cup ToSet(q)
  BY <1>2, <1>3 DEF ToSet
<1> QED
  BY <1>1, <1>2, <1>3, <1>7, <1>8 DEF SymHolds

-----------------------------------------------------------------------------
(* The table and the lists.                                                *)

\* The lists of the copies hold the symbols that are not in the table, the newer ones in
\* front.
ListsOK(D) ==
  /\ IsSeq(lists)
  /\ \A k \in DOMAIN lists : IsSeq(lists[k]) /\ Once(lists[k]) /\ OneName(lists[k], syms) /\ LaterThan(lists[k], D)
  /\ \A k, l \in DOMAIN lists : k < l => LaterThan(lists[k], ToSet(lists[l]))
  /\ D \cup UNION {ToSet(lists[k]) : k \in DOMAIN lists} = 1..Len(syms)
SymsOK == IsSeq(syms) /\ \A x \in DOMAIN syms : syms[x] \in Names
HashInv == SymsOK /\ \E D : TableOK(table, Hashes(syms), syms, D) /\ ListsOK(D)

\* The hash of each symbol.
LEMMA HashFacts ==
  ASSUME SymsOK, NEW x \in 1..Len(syms)
  PROVE  Hashes(syms)[x] = HashOf(x) /\ HashOf(x) \in Nat /\ syms[x] \in Names
<1>1. DOMAIN syms = 1..Len(syms)
  BY SeqFacts DEF SymsOK
<1> QED
  BY <1>1, TableAssumption DEF SymsOK, Hashes, HashOf

\* A table does not change with symbols that it does not hold.
LEMMA SameTable ==
  ASSUME NEW t, NEW h, NEW g, NEW names, NEW more, NEW D, TableOK(t, h, names, D),
         \A x \in D : g[x] = h[x] /\ more[x] = names[x]
  PROVE  TableOK(t, g, more, D)
<1>1. ASSUME NEW k \in 0..(t.n - 1)
      PROVE  BucketOK(t.buckets[k], k, t.n, g, D) /\ \A i \in DOMAIN t.buckets[k] : t.buckets[k][i] \in D
  <2>1. BucketOK(t.buckets[k], k, t.n, h, D)
    BY DEF TableOK, BucketsOK
  <2> QED
    BY <2>1 DEF BucketOK, ToSet
<1>2. BucketsOK(t.buckets, t.n, g, D)
  BY <1>1 DEF TableOK, BucketsOK
<1>3. ASSUME ~Repeats, t.n \in InitialSizes, NEW k \in 0..(t.n - 1) PROVE Ordered(t.buckets[k], more)
  <2>1. Ordered(t.buckets[k], names)
    BY <1>3 DEF TableOK
  <2> QED
    BY <1>1, <2>1 DEF Ordered
<1>4. \A x \in D : g[x] \in Nat
  BY DEF TableOK
<1> QED
  BY <1>2, <1>3, <1>4 DEF TableOK

\* A new table is empty.
LEMMA HashBegins ==
  ASSUME HashInit
  PROVE  HashInv
<1>1. PICK size \in InitialSizes : table = NewTable(size)
  BY DEF HashInit
<1>2. size \in Nat \ {0}
  BY TableAssumption
<1> DEFINE b == [k \in 0..(size - 1) |-> <<>>]
<1>3. table = [n |-> size, grow |-> size * 2 + 1, index |-> 0, buckets |-> b]
  BY <1>1 DEF NewTable
<1>4. b = [k \in 0..(size - 1) |-> b[k]] /\ \A k \in 0..(size - 1) : b[k] = <<>>
  OBVIOUS
<1> HIDE DEF b
<1>5. table.n = size /\ table.grow = 2 * size + 1 /\ table.index = 0 /\ table.buckets = b
  BY <1>2, <1>3
<1>6. table = [n |-> table.n, grow |-> table.grow, index |-> table.index, buckets |-> table.buckets]
  BY <1>3
<1>7. BucketsOK(b, size, Hashes(syms), {})
  <2>1. Once(<<>>)
    BY DEF Once
  <2> QED
    BY <1>4, <2>1, EmptyFacts DEF BucketsOK, BucketOK
<1>8. \A k \in 0..(size - 1) : Ordered(b[k], syms)
  BY <1>4, EmptyFacts DEF Ordered
<1>9. TableOK(table, Hashes(syms), syms, {})
  BY <1>1, <1>2, <1>5, <1>6, <1>7, <1>8 DEF TableOK
<1>10. lists = <<>> /\ syms = <<>>
  BY DEF HashInit
<1>11. ListsOK({}) /\ SymsOK
  BY <1>10, EmptyFacts DEF ListsOK, SymsOK
<1> QED
  BY <1>9, <1>11 DEF HashInv

\* A new symbol: new_D_Sym.
LEMMA DeclareKeeps ==
  ASSUME HashInv, NEW name \in Names, Declare(name)
  PROVE  HashInv'
<1> DEFINE n == Len(syms)
           x == n + 1
           h == Hashes(syms)
           g == Hashes(syms')
<1>1. PICK D : TableOK(table, h, syms, D) /\ ListsOK(D)
  BY DEF HashInv
<1>2. IsSeq(syms) /\ n \in Nat /\ DOMAIN syms = 1..n
  BY SeqFacts DEF HashInv, SymsOK
<1>3. syms' = Append(syms, name) /\ (Repeats \/ \A k \in DOMAIN lists : k = 1 => Named(lists[k], name) = {})
  BY DEF Declare
<1>4. IsSeq(syms') /\ Len(syms') = x /\ DOMAIN syms' = 1..x /\ syms'[x] = name /\ \A y \in 1..n : syms'[y] = syms[y]
  BY <1>2, <1>3, AppendFacts
<1>5. 1..x = (1..n) \cup {x} /\ x \notin 1..n /\ x \in Nat
  BY <1>2
<1>6. SymsOK'
  BY <1>2, <1>4, <1>5 DEF SymsOK, HashInv
<1>7. \A y \in 1..n : g[y] = h[y]
  BY <1>2, <1>4, <1>5 DEF Hashes
<1>8. g[x] \in Nat
  BY <1>4, <1>5, TableAssumption DEF Hashes
<1>9. /\ D \cup UNION {ToSet(lists[k]) : k \in DOMAIN lists} = 1..n
      /\ \A k \in DOMAIN lists : ToSet(lists[k]) \subseteq 1..n
      /\ D \subseteq 1..n
  BY <1>1 DEF ListsOK
<1> DEFINE more == syms'
<1> HIDE DEF h, g, n, x, more
<1>10. TableOK(table, g, more, D)
  BY <1>1, <1>4, <1>7, <1>9, SameTable DEF more
<1>11. x \notin D /\ \A y \in D : x > y
  BY <1>2, <1>5, <1>9 DEF x
<1>12. CASE lists = <<>>
  <2>1. table' = SymhashAdd(table, x, g) /\ lists' = lists
    BY <1>4, <1>12 DEF Declare, g
  <2>2. TableOK(SymhashAdd(table, x, g), g, more, D \cup {x})
    BY <1>5, <1>8, <1>10, <1>11, SymhashAddOK
  <2>3. D \cup {x} = 1..x
    BY <1>5, <1>9, <1>12, EmptyFacts
  <2>6. PICK E : E = D \cup {x}
    OBVIOUS
  <2>4. ListsOK(E)'
    BY <1>4, <1>12, <2>1, <2>3, <2>6, EmptyFacts DEF ListsOK
  <2>5. TableOK(table', g, more, E)
    BY <2>1, <2>2, <2>6
  <2> QED
    BY <1>6, <2>4, <2>5 DEF HashInv, g, more
<1>13. CASE lists # <<>>
  <2> DEFINE q == lists[1]
             r == <<x>> \o q
  <2>1. IsSeq(lists) /\ Len(lists) \in Nat /\ DOMAIN lists = 1..Len(lists) /\ 1 \in DOMAIN lists
    <3>1. IsSeq(lists)
      BY <1>1 DEF ListsOK
    <3>2. Len(lists) # 0
      BY <1>13, <3>1, EmptySeq DEF IsSeq
    <3> QED
      BY <3>1, <3>2, SeqFacts
  <2>2. table' = table /\ lists' = [lists EXCEPT ![1] = r]
    BY <1>13, <1>4 DEF Declare
  <2>3. IsSeq(q) /\ Once(q) /\ OneName(q, syms) /\ LaterThan(q, D) /\ ToSet(q) \subseteq 1..n
    BY <1>1, <1>9, <2>1 DEF ListsOK
  <2> HIDE DEF q
  <2>4. /\ IsSeq(r) /\ ToSet(r) = {x} \cup ToSet(q) /\ Once(r)
        /\ Len(r) = Len(q) + 1 /\ r[1] = x /\ \A i \in 1..Len(q) : r[i + 1] = q[i]
    BY <1>5, <2>3, ConsFacts, ConsOnce
  <2>5. OneName(r, more)
    <3>1. SUFFICES ASSUME ~Repeats, NEW i \in DOMAIN r, NEW j \in DOMAIN r, more[r[i]] = more[r[j]] PROVE i = j
      BY DEF OneName
    <3>2. DOMAIN r = 1..(Len(q) + 1) /\ DOMAIN q = 1..Len(q) /\ Len(q) \in Nat
      BY <2>3, <2>4, SeqFacts
    <3>3. \A k \in DOMAIN q : syms[q[k]] # name
      BY <1>3, <2>1, <3>1 DEF Named, q
    <3> HIDE DEF r
    <3>4. ASSUME NEW k \in DOMAIN r, k # 1
          PROVE  k - 1 \in DOMAIN q /\ r[k] = q[k - 1] /\ more[r[k]] = syms[q[k - 1]] /\ more[r[k]] # more[r[1]]
      <4>1. k - 1 \in DOMAIN q /\ (k - 1) + 1 = k
        BY <3>2, <3>4
      <4>2. r[k] = q[k - 1]
        BY <2>4, <3>2, <4>1
      <4>3. q[k - 1] \in 1..n
        BY <2>3, <4>1 DEF ToSet
      <4> QED
        BY <1>4, <2>4, <3>3, <4>1, <4>2, <4>3 DEF more
    <3>5. CASE i = 1 \/ j = 1
      BY <3>1, <3>4, <3>5
    <3>6. CASE i # 1 /\ j # 1
      <4>1. i - 1 \in DOMAIN q /\ j - 1 \in DOMAIN q /\ syms[q[i - 1]] = syms[q[j - 1]]
        BY <3>1, <3>4, <3>6
      <4>2. i - 1 = j - 1
        BY <2>3, <3>1, <4>1 DEF OneName
      <4> QED
        BY <3>2, <4>2
    <3> QED
      BY <3>5, <3>6
  <2>6. LaterThan(r, D)
    BY <1>11, <2>3, <2>4 DEF LaterThan
  <2> HIDE DEF r
  <2>7. /\ IsSeq(lists') /\ DOMAIN lists' = DOMAIN lists /\ lists'[1] = r
        /\ \A k \in DOMAIN lists : k # 1 => lists'[k] = lists[k]
    BY <2>1, <2>2, ExceptFacts, SeqFacts
  <2>8. ASSUME NEW k \in DOMAIN lists
        PROVE  IsSeq(lists'[k]) /\ Once(lists'[k]) /\ OneName(lists'[k], more) /\ LaterThan(lists'[k], D)
    <3>1. CASE k = 1
      BY <2>4, <2>5, <2>6, <2>7, <3>1
    <3>2. CASE k # 1
      <4>1. IsSeq(lists[k]) /\ Once(lists[k]) /\ OneName(lists[k], syms) /\ LaterThan(lists[k], D)
        BY <1>1 DEF ListsOK
      <4>2. \A i \in DOMAIN lists[k] : more[lists[k][i]] = syms[lists[k][i]]
        BY <1>4, <1>9 DEF ToSet, more
      <4> QED
        BY <2>7, <3>2, <4>1, <4>2 DEF OneName
    <3> QED
      BY <3>1, <3>2
  <2>9. ASSUME NEW k \in DOMAIN lists, NEW l \in DOMAIN lists, k < l PROVE LaterThan(lists'[k], ToSet(lists'[l]))
    <3>1. l # 1 /\ lists'[l] = lists[l] /\ LaterThan(lists[k], ToSet(lists[l])) /\ ToSet(lists[l]) \subseteq 1..n
      BY <1>1, <1>9, <2>1, <2>7, <2>9 DEF ListsOK
    <3>2. CASE k = 1
      <4>1. \A y \in ToSet(lists[l]) : x > y
        BY <1>2, <3>1 DEF x
      <4> QED
        BY <2>4, <2>7, <3>1, <3>2, <4>1 DEF LaterThan, q
    <3>3. CASE k # 1
      BY <2>7, <3>1, <3>3
    <3> QED
      BY <3>2, <3>3
  <2>10. D \cup UNION {ToSet(lists'[k]) : k \in DOMAIN lists} = 1..x
    <3>1. UNION {ToSet(lists'[k]) : k \in DOMAIN lists} = {x} \cup UNION {ToSet(lists[k]) : k \in DOMAIN lists}
      <4>1. \A k \in DOMAIN lists : ToSet(lists'[k]) = IF k = 1 THEN {x} \cup ToSet(lists[k]) ELSE ToSet(lists[k])
        BY <2>4, <2>7 DEF q
      <4> QED
        BY <2>1, <4>1
    <3> QED
      BY <1>5, <1>9, <3>1
  <2>11. ListsOK(D)'
    BY <1>4, <2>7, <2>8, <2>9, <2>10 DEF ListsOK, more, x, n
  <2> QED
    BY <1>6, <1>10, <2>2, <2>11 DEF HashInv, g, more
<1> QED
  BY <1>12, <1>13

\* Another copy: enter_D_Scope.
LEMMA EnterKeeps ==
  ASSUME HashInv, Enter
  PROVE  HashInv'
<1>1. PICK D : TableOK(table, Hashes(syms), syms, D) /\ ListsOK(D)
  BY DEF HashInv
<1> DEFINE e == <<>>
           r == <<e>> \o lists
<1>2. IsSeq(lists) /\ Len(lists) \in Nat /\ DOMAIN lists = 1..Len(lists)
  BY <1>1, SeqFacts DEF ListsOK
<1>3. IsSeq(e) /\ Once(e) /\ OneName(e, syms) /\ ToSet(e) = {}
  BY EmptyFacts DEF Once, OneName
<1> HIDE DEF e
<1>4. IsSeq(r) /\ Len(r) = Len(lists) + 1 /\ r[1] = e /\ \A i \in 1..Len(lists) : r[i + 1] = lists[i]
  BY <1>2, ConsFacts
<1>5. lists' = r /\ table' = table /\ syms' = syms
  BY DEF Enter, e
<1> HIDE DEF r
<1>6. DOMAIN r = 1..(Len(lists) + 1)
  BY <1>4, SeqFacts
<1>7. ASSUME NEW k \in DOMAIN r, k # 1 PROVE k - 1 \in DOMAIN lists /\ r[k] = lists[k - 1]
  <2>1. k - 1 \in 1..Len(lists) /\ (k - 1) + 1 = k
    BY <1>2, <1>6, <1>7
  <2> QED
    BY <1>2, <1>4, <2>1
<1>8. ASSUME NEW k \in DOMAIN r
      PROVE  IsSeq(r[k]) /\ Once(r[k]) /\ OneName(r[k], syms) /\ LaterThan(r[k], D)
  <2>1. CASE k = 1
    BY <1>3, <1>4, <2>1 DEF LaterThan
  <2>2. CASE k # 1
    BY <1>1, <1>7, <2>2 DEF ListsOK
  <2> QED
    BY <2>1, <2>2
<1>9. ASSUME NEW k \in DOMAIN r, NEW l \in DOMAIN r, k < l PROVE LaterThan(r[k], ToSet(r[l]))
  <2>1. CASE k = 1
    BY <1>3, <1>4, <2>1 DEF LaterThan
  <2>2. CASE k # 1
    <3>1. l # 1 /\ k - 1 < l - 1
      BY <1>2, <1>6, <1>9, <2>2
    <3> QED
      BY <1>1, <1>7, <2>2, <3>1 DEF ListsOK
  <2> QED
    BY <2>1, <2>2
<1>10. UNION {ToSet(r[k]) : k \in DOMAIN r} = UNION {ToSet(lists[k]) : k \in DOMAIN lists}
  <2>1. \A k \in DOMAIN lists : k + 1 \in DOMAIN r /\ r[k + 1] = lists[k]
    BY <1>2, <1>4, <1>6
  <2>2. 1 \in DOMAIN r /\ ToSet(r[1]) = {}
    BY <1>2, <1>3, <1>4, <1>6
  <2> QED
    BY <1>7, <2>1, <2>2
<1>11. ListsOK(D)'
  BY <1>1, <1>4, <1>5, <1>8, <1>9, <1>10 DEF ListsOK
<1> QED
  BY <1>1, <1>5, <1>11 DEF HashInv, SymsOK

CommitStep(h, b, c, t, q) == AddedAll(t, h, q)
CommitFold == INSTANCE Folding WITH Step <- CommitStep, Holds <- SymHolds

\* The lists go into the table: commit_ll.
LEMMA CommitKeeps ==
  ASSUME HashInv, Commit
  PROVE  HashInv'
<1> DEFINE h == Hashes(syms)
           r == Reverse(lists)
           n == Len(lists)
           f == CommitFold!Values(h, 0, 0, table, r)
<1>1. PICK D : TableOK(table, h, syms, D) /\ ListsOK(D)
  BY DEF HashInv
<1>2. Committed = f[Len(r)]
  BY DEF Committed, CommitStep, CommitFold!Values, CommitFold!FoldsTo, FoldSteps
<1>3. IsSeq(lists) /\ n \in Nat /\ DOMAIN lists = 1..n
  BY <1>1, SeqFacts DEF ListsOK
<1>4. \A i \in 1..n : n - i + 1 \in 1..n /\ n - (n - i + 1) + 1 = i
  BY <1>3
<1>5. r = [i \in 1..n |-> r[i]] /\ \A i \in 1..n : r[i] = lists[n - i + 1]
  BY DEF Reverse
<1> HIDE DEF r, n
<1>6. Len(r) = n
  BY <1>3, <1>5, FunctionIsSeq
<1> DEFINE d == [k \in 0..n |-> [h |-> h, names |-> syms, D |-> D \cup UNION {ToSet(r[j]) : j \in 1..k}]]
<1>7. \A k \in 0..n : d[k].h = h /\ d[k].names = syms /\ d[k].D = D \cup UNION {ToSet(r[j]) : j \in 1..k}
  OBVIOUS
<1> HIDE DEF d
<1>8. SymHolds(d[0], table)
  <2>1. 0 \in 0..n /\ {ToSet(r[j]) : j \in 1..0} = {}
    BY <1>3
  <2>2. d[0].h = h /\ d[0].names = syms /\ d[0].D = D
    BY <1>7, <2>1
  <2> QED
    BY <1>1, <2>2 DEF SymHolds
<1>9. \A k \in 1..n : ToSet(lists[k]) \subseteq 1..Len(syms) /\ \A x \in ToSet(lists[k]) : h[x] \in Nat /\ x \in Nat
  <2>1. \A k \in 1..n : ToSet(lists[k]) \subseteq 1..Len(syms)
    BY <1>1, <1>3 DEF ListsOK
  <2>2. Len(syms) \in Nat /\ SymsOK
    BY SeqFacts DEF HashInv, SymsOK
  <2>3. \A x \in 1..Len(syms) : h[x] \in Nat /\ x \in Nat
    BY <2>2, HashFacts
  <2> QED
    BY <2>1, <2>3
<1>10. ASSUME NEW k \in 1..n, NEW u, SymHolds(d[k - 1], u) PROVE SymHolds(d[k], CommitStep(h, 0, 0, u, r[k]))
  <2> DEFINE E == d[k - 1].D
             q == r[k]
             i == n - k + 1
  <2>1. k - 1 \in 0..n /\ k \in 0..n /\ 1..k = (1..(k - 1)) \cup {k}
    BY <1>3
  <2>2. E = D \cup UNION {ToSet(r[j]) : j \in 1..(k - 1)} /\ d[k].D = E \cup ToSet(q)
    <3>1. UNION {ToSet(r[j]) : j \in 1..k} = ToSet(r[k]) \cup UNION {ToSet(r[j]) : j \in 1..(k - 1)}
      BY <2>1
    <3> QED
      BY <1>7, <2>1, <3>1
  <2>3. i \in 1..n /\ q = lists[i]
    BY <1>4, <1>5
  <2>4. /\ IsSeq(q) /\ Once(q) /\ OneName(q, syms) /\ LaterThan(q, D)
        /\ ToSet(q) \subseteq Nat /\ \A x \in ToSet(q) : h[x] \in Nat
    BY <1>1, <1>3, <1>9, <2>3 DEF ListsOK
  <2>5. ASSUME NEW j \in 1..(k - 1) PROVE LaterThan(q, ToSet(r[j]))
    <3>1. j \in 1..n /\ i < n - j + 1 /\ n - j + 1 \in 1..n
      BY <1>3, <1>4
    <3>2. r[j] = lists[n - j + 1]
      BY <1>5, <3>1
    <3> HIDE DEF q, i
    <3> QED
      BY <1>1, <1>3, <2>3, <3>1, <3>2 DEF ListsOK
  <2>6. LaterThan(q, E)
    BY <2>2, <2>4, <2>5 DEF LaterThan
  <2>7. TableOK(u, h, syms, E)
    BY <1>7, <1>10, <2>1 DEF SymHolds
  <2> HIDE DEF E, q, h
  <2>8. TableOK(AddedAll(u, h, q), h, syms, E \cup ToSet(q))
    BY <2>4, <2>6, <2>7, AddedAllOK
  <2> QED
    BY <1>7, <2>1, <2>2, <2>8 DEF SymHolds, CommitStep, q
<1>11. \A k \in 1..Len(r) : \A u : SymHolds(d[k - 1], u) => SymHolds(d[k], CommitStep(h, 0, 0, u, r[k]))
  BY <1>6, <1>10
<1> HIDE DEF h
<1>12. SymHolds(d[Len(r)], CommitFold!Values(h, 0, 0, table, r)[Len(r)])
  BY <1>3, <1>6, <1>8, <1>11, CommitFold!FoldAdvances
<1>13. d[n].h = h /\ d[n].names = syms /\ d[n].D = 1..Len(syms)
  <2>1. UNION {ToSet(r[j]) : j \in 1..n} = UNION {ToSet(lists[j]) : j \in 1..n}
    <3>1. \A j \in 1..n : r[j] = lists[n - j + 1] /\ n - j + 1 \in 1..n
      BY <1>4, <1>5
    <3>2. \A j \in 1..n : lists[j] = r[n - j + 1] /\ n - j + 1 \in 1..n
      BY <1>4, <1>5
    <3> QED
      BY <3>1, <3>2
  <2>2. n \in 0..n
    BY <1>3
  <2> QED
    BY <1>1, <1>3, <1>7, <2>1, <2>2 DEF ListsOK
<1>14. TableOK(Committed, h, syms, 1..Len(syms))
  BY <1>2, <1>6, <1>12, <1>13 DEF SymHolds, h
<1>15. table' = Committed /\ lists' = <<>> /\ syms' = syms
  BY DEF Commit
<1>16. PICK E : E = 1..Len(syms)
  OBVIOUS
<1>17. ListsOK(E)'
  BY <1>15, <1>16, EmptyFacts DEF ListsOK
<1>18. SymsOK'
  BY <1>15 DEF HashInv, SymsOK
<1> QED
  BY <1>14, <1>15, <1>16, <1>17, <1>18 DEF HashInv, h

\* The invariant of the table and the lists.
LEMMA HashInvariant == HashSpec => []HashInv
<1>1. ASSUME HashInv, HashNext PROVE HashInv'
  BY <1>1, EnterKeeps, CommitKeeps, DeclareKeeps DEF HashNext
<1>2. ASSUME HashInv, UNCHANGED tables PROVE HashInv'
  BY <1>2 DEF HashInv, SymsOK, ListsOK, tables
<1> QED
  BY <1>1, <1>2, HashBegins, PTL DEF HashSpec

\* A symbol that only f[k] holds, and that once.
LEMMA PlaceOf ==
  ASSUME NEW x, NEW f, NEW k \in DOMAIN f, Once(f[k]), x \in ToSet(f[k]),
         \A l \in DOMAIN f : l # k => x \notin ToSet(f[l])
  PROVE  \E p \in Places(x, f) : Places(x, f) = {p} /\ p[1] = k
<1>1. PICK j \in DOMAIN f[k] : f[k][j] = x
  BY DEF ToSet
<1> DEFINE P(l) == {<<l, i>> : i \in {m \in DOMAIN f[l] : f[l][m] = x}}
           p == <<k, j>>
<1>2. {m \in DOMAIN f[k] : f[k][m] = x} = {j}
  BY <1>1 DEF Once
<1>3. P(k) = {p}
  BY <1>2
<1>4. ASSUME NEW l \in DOMAIN f, l # k PROVE P(l) = {}
  BY <1>4 DEF ToSet
<1>5. Places(x, f) = UNION {P(l) : l \in DOMAIN f}
  BY DEF Places
<1>6. p[1] = k
  OBVIOUS
<1> HIDE DEF P, p
<1>7. Places(x, f) = {p}
  BY <1>3, <1>4, <1>5
<1> QED
  BY <1>6, <1>7

\* A symbol that f does not hold.
LEMMA NoPlace ==
  ASSUME NEW x, NEW f, \A l \in DOMAIN f : x \notin ToSet(f[l])
  PROVE  Places(x, f) = {}
BY DEF Places, ToSet

\* Each symbol is where it is looked for (new_D_Sym, symhash_add, commit_ll).
LEMMA InvInPlace ==
  ASSUME HashInv
  PROVE  InPlace
<1> DEFINE n == table.n
           b == table.buckets
           h == Hashes(syms)
<1>1. PICK D : TableOK(table, h, syms, D) /\ ListsOK(D)
  BY DEF HashInv
<1>2. /\ n \in Nat \ {0} /\ table.index <= table.grow /\ D \subseteq Nat
      /\ DOMAIN b = 0..(n - 1) /\ \A k \in 0..(n - 1) : BucketOK(b[k], k, n, h, D)
  BY <1>1 DEF TableOK, BucketsOK
<1>3. SymsOK /\ DOMAIN syms = 1..Len(syms) /\ Len(syms) \in Nat
  BY SeqFacts DEF HashInv, SymsOK
<1>4. /\ DOMAIN lists = 1..Len(lists) /\ Len(lists) \in Nat
      /\ \A k \in DOMAIN lists : Once(lists[k]) /\ ToSet(lists[k]) \subseteq 1..Len(syms)
      /\ \A k \in DOMAIN lists : ToSet(lists[k]) \cap D = {}
      /\ \A k, l \in DOMAIN lists : k # l => ToSet(lists[k]) \cap ToSet(lists[l]) = {}
      /\ D \cup UNION {ToSet(lists[k]) : k \in DOMAIN lists} = 1..Len(syms)
  <2>1. DOMAIN lists = 1..Len(lists) /\ Len(lists) \in Nat
    BY <1>1, SeqFacts DEF ListsOK
  <2>2. \A k \in DOMAIN lists : Once(lists[k]) /\ ToSet(lists[k]) \subseteq 1..Len(syms)
    BY <1>1 DEF ListsOK
  <2>3. ASSUME NEW k \in DOMAIN lists PROVE ToSet(lists[k]) \cap D = {}
    BY <1>1, <1>2, <1>3, <2>2 DEF ListsOK, LaterThan
  <2>4. ASSUME NEW k \in DOMAIN lists, NEW l \in DOMAIN lists, k < l PROVE ToSet(lists[k]) \cap ToSet(lists[l]) = {}
    <3>1. LaterThan(lists[k], ToSet(lists[l]))
      BY <1>1, <2>4 DEF ListsOK
    <3>2. \A y \in ToSet(lists[k]) : ~(y > y)
      BY <1>3, <2>2
    <3> QED
      BY <3>1, <3>2 DEF LaterThan
  <2>5. \A k, l \in DOMAIN lists : k # l => k < l \/ l < k
    BY <2>1
  <2>6. \A k, l \in DOMAIN lists : k # l => ToSet(lists[k]) \cap ToSet(lists[l]) = {}
    BY <2>4, <2>5
  <2> QED
    BY <1>1, <2>1, <2>2, <2>3, <2>6 DEF ListsOK
<1>5. ASSUME NEW x \in DOMAIN syms
      PROVE  \/ OnePlace(x, lists, b)
             \/ OnePlace(x, b, lists) /\ \A p \in Places(x, b) : p[1] = HashOf(x) % n
  <2>1. h[x] = HashOf(x) /\ HashOf(x) \in Nat
    BY <1>3, HashFacts
  <2> HIDE DEF b, n, h
  <2>2. CASE x \in D
    <3> DEFINE k == HashOf(x) % n
    <3>1. k \in 0..(n - 1)
      BY <1>2, <2>1
    <3>2. \A l \in 0..(n - 1) : ToSet(b[l]) = {y \in D : h[y] % n = l} /\ Once(b[l])
      BY <1>2 DEF BucketOK
    <3>3. x \in ToSet(b[k]) /\ \A l \in DOMAIN b : l # k => x \notin ToSet(b[l])
      BY <1>2, <2>1, <2>2, <3>1, <3>2
    <3> HIDE DEF k
    <3>4. \E p \in Places(x, b) : Places(x, b) = {p} /\ p[1] = k
      BY <1>2, <3>1, <3>2, <3>3, PlaceOf
    <3>5. Places(x, lists) = {}
      BY <1>4, <2>2, NoPlace
    <3> QED
      BY <3>4, <3>5 DEF OnePlace, k
  <2>3. CASE x \notin D
    <3>1. PICK k \in DOMAIN lists : x \in ToSet(lists[k])
      BY <1>3, <1>4, <2>3
    <3>2. \A l \in DOMAIN lists : l # k => x \notin ToSet(lists[l])
      BY <1>4, <3>1
    <3>3. \E p \in Places(x, lists) : Places(x, lists) = {p} /\ p[1] = k
      BY <1>4, <3>1, <3>2, PlaceOf
    <3>4. \A l \in DOMAIN b : x \notin ToSet(b[l])
      BY <1>2, <2>3 DEF BucketOK
    <3>5. Places(x, b) = {}
      BY <3>4, NoPlace
    <3> QED
      BY <3>3, <3>5 DEF OnePlace
  <2> QED
    BY <2>2, <2>3
<1> QED
  BY <1>2, <1>5 DEF InPlace

\* Whatever is declared, entered and committed, and however often the table has grown,
\* each symbol is in one place, where Find looks for it (symhash_add, commit_ll).
THEOREM SymbolsInPlace == HashSpec => []InPlace
<1>1. HashInv => InPlace
  BY InvInPlace
<1> QED
  BY <1>1, HashInvariant, PTL

\* The last symbol of a name.
LEMMA IsLast ==
  ASSUME SymsOK, NEW name, NEW x \in DOMAIN syms, syms[x] = name, \A y \in DOMAIN syms : syms[y] = name => y <= x
  PROVE  LastOf(name) = x
<1> DEFINE S == {y \in DOMAIN syms : syms[y] = name}
<1>1. x \in S /\ \A y \in S : y <= x
  OBVIOUS
<1>2. DOMAIN syms = 1..Len(syms) /\ Len(syms) \in Nat
  BY SeqFacts DEF SymsOK
<1>3. S \subseteq 0..Len(syms)
  BY <1>2
<1>4. LastOf(name) = MaxOf(S)
  BY <1>1 DEF LastOf
<1> HIDE DEF S
<1>5. MaxOf(S) \in S /\ x <= MaxOf(S)
  BY <1>1, <1>2, <1>3, MaxExists
<1>6. MaxOf(S) <= x /\ MaxOf(S) \in Nat /\ x \in Nat
  BY <1>1, <1>3, <1>5
<1> QED
  BY <1>4, <1>5, <1>6

\* What is found is the last one, until the table grows: find_D_Sym_internal.
LEMMA InvFindsLast ==
  ASSUME HashInv, ~Repeats, table.n \in InitialSizes, NEW name \in Names
  PROVE  Find(name) = LastOf(name)
<1> DEFINE n == table.n
           b == table.buckets
           h == Hashes(syms)
           copies == {k \in DOMAIN lists : Named(lists[k], name) # {}}
           bucket == b[Hash[name] % n]
<1>1. PICK D : TableOK(table, h, syms, D) /\ ListsOK(D)
  BY DEF HashInv
<1>2. /\ n \in Nat \ {0} /\ D \subseteq Nat
      /\ \A k \in 0..(n - 1) : BucketOK(b[k], k, n, h, D) /\ Ordered(b[k], syms)
  BY <1>1 DEF TableOK, BucketsOK
<1>3. SymsOK /\ DOMAIN syms = 1..Len(syms) /\ Len(syms) \in Nat
  BY SeqFacts DEF HashInv, SymsOK
<1>4. /\ DOMAIN lists = 1..Len(lists) /\ Len(lists) \in Nat
      /\ D \cup UNION {ToSet(lists[k]) : k \in DOMAIN lists} = 1..Len(syms)
      /\ \A k \in DOMAIN lists : IsSeq(lists[k]) /\ OneName(lists[k], syms) /\ LaterThan(lists[k], D)
      /\ \A k, l \in DOMAIN lists : k < l => LaterThan(lists[k], ToSet(lists[l]))
  BY <1>1, SeqFacts DEF ListsOK
<1>5. ASSUME NEW k \in DOMAIN lists, NEW i \in DOMAIN lists[k] PROVE lists[k][i] \in ToSet(lists[k]) /\ lists[k][i] \in DOMAIN syms
  BY <1>3, <1>4 DEF ToSet
<1>6. Hash[name] % n \in 0..(n - 1) /\ Hash[name] \in Nat
  BY <1>2, TableAssumption
<1>7. CASE copies # {}
  <2> DEFINE k == MinOf(copies)
             q == lists[k]
             j == MinOf(Named(q, name))
             x == q[j]
  <2>1. copies \subseteq Nat
    BY <1>4
  <2>2. k \in copies /\ \A l \in copies : k <= l
    BY <1>7, <2>1, MinExists
  <2>3. k \in DOMAIN lists /\ Named(q, name) # {} /\ IsSeq(q)
    BY <1>4, <2>2
  <2>4. Named(q, name) \subseteq Nat
    <3> HIDE DEF q
    <3> QED
      BY <2>3, SeqFacts DEF Named
  <2>5. j \in Named(q, name)
    BY <2>3, <2>4, MinExists
  <2>6. Find(name) = x
    BY <1>7, <2>3 DEF Find
  <2> HIDE DEF k, j, copies
  <2>7. j \in DOMAIN q /\ syms[x] = name
    BY <2>5 DEF Named
  <2>8. x \in DOMAIN syms /\ x \in ToSet(q)
    BY <1>5, <2>3, <2>7
  <2>9. ASSUME NEW y \in DOMAIN syms, syms[y] = name PROVE y <= x
    <3>1. CASE y \in D
      <4>1. x > y
        BY <1>4, <2>3, <2>8, <3>1 DEF LaterThan
      <4> QED
        BY <1>3, <2>8, <4>1
    <3>2. ASSUME NEW l \in DOMAIN lists, y \in ToSet(lists[l]) PROVE y <= x
      <4>1. PICK i \in DOMAIN lists[l] : lists[l][i] = y
        BY <3>2 DEF ToSet
      <4>2. l \in copies /\ k <= l
        BY <2>2, <2>9, <4>1 DEF Named, copies
      <4>3. CASE l = k
        <5>1. i = j
          BY <1>4, <2>3, <2>7, <2>9, <4>1, <4>3 DEF OneName
        <5> QED
          BY <1>3, <4>1, <4>3, <5>1
      <4>4. CASE l # k
        <5>1. k < l
          BY <1>4, <2>3, <4>2, <4>4
        <5>2. x > y
          BY <1>4, <2>3, <2>8, <3>2, <5>1 DEF LaterThan
        <5> QED
          BY <1>3, <2>8, <5>2
      <4> QED
        BY <4>3, <4>4
    <3> QED
      BY <1>3, <1>4, <3>1, <3>2
  <2> HIDE DEF x
  <2> QED
    BY <1>3, <2>6, <2>7, <2>8, <2>9, IsLast DEF x
<1>8. CASE copies = {}
  <2> DEFINE k == Hash[name] % n
             q == b[k]
             N == Named(q, name)
  <2>1. BucketOK(q, k, n, h, D) /\ Ordered(q, syms) /\ IsSeq(q)
    BY <1>2, <1>6 DEF BucketOK
  <2>2. Find(name) = IF N = {} THEN 0 ELSE q[MinOf(N)]
    BY <1>8 DEF Find
  <2>3. ASSUME NEW y \in DOMAIN syms, syms[y] = name PROVE \E i \in N : q[i] = y
    <3>1. \A l \in DOMAIN lists : y \notin ToSet(lists[l])
      BY <1>8, <2>3 DEF Named, ToSet
    <3>2. y \in D
      BY <1>3, <1>4, <3>1
    <3>3. h[y] = Hash[name]
      BY <2>3 DEF Hashes
    <3>4. y \in ToSet(q)
      BY <2>1, <3>2, <3>3 DEF BucketOK
    <3> QED
      BY <2>3, <3>4 DEF Named, ToSet
  <2>4. ASSUME NEW i \in N PROVE i \in DOMAIN q /\ syms[q[i]] = name /\ q[i] \in DOMAIN syms
    <3>1. i \in DOMAIN q /\ syms[q[i]] = name
      BY DEF Named
    <3>2. q[i] \in D
      BY <2>1, <3>1 DEF BucketOK, ToSet
    <3> QED
      BY <1>3, <1>4, <3>1, <3>2
  <2>5. N \subseteq Nat
    <3>1. DOMAIN q = 1..Len(q) /\ Len(q) \in Nat
      BY <2>1, SeqFacts
    <3> QED
      BY <2>4, <3>1
  <2> HIDE DEF N, q, k
  <2>6. CASE N = {}
    <3>1. {x \in DOMAIN syms : syms[x] = name} = {}
      BY <2>3, <2>6
    <3>2. LastOf(name) = 0
      BY <3>1 DEF LastOf
    <3> QED
      BY <2>2, <2>6, <3>2
  <2>7. CASE N # {}
    <3> DEFINE j == MinOf(N)
               x == q[j]
    <3>1. j \in N /\ \A i \in N : j <= i
      BY <2>5, <2>7, MinExists
    <3> HIDE DEF j
    <3>2. ASSUME NEW y \in DOMAIN syms, syms[y] = name PROVE y <= x
      <4>1. PICK i \in N : q[i] = y
        BY <2>3, <3>2
      <4>2. j <= i /\ i \in Nat /\ j \in Nat
        BY <2>5, <3>1
      <4>3. i = j \/ j < i
        BY <4>2
      <4>4. CASE j < i
        <5>1. x > y
          BY <2>1, <2>4, <3>1, <4>1, <4>4 DEF Ordered
        <5> QED
          BY <1>3, <2>4, <3>1, <5>1
      <4>5. CASE i = j
        BY <1>3, <4>1, <4>5
      <4> QED
        BY <4>3, <4>4, <4>5
    <3>3. x \in DOMAIN syms /\ syms[x] = name
      BY <2>4, <3>1
    <3>4. Find(name) = x
      BY <2>2, <2>7 DEF j
    <3> HIDE DEF x
    <3> QED
      BY <1>3, <3>2, <3>3, <3>4, IsLast
  <2> QED
    BY <2>6, <2>7
<1> QED
  BY <1>7, <1>8

\* When no copy declares a name twice, the symbol that a search finds is the last one of
\* its name, though the names of the copies are put into the table later, until the table
\* grows (find_D_Sym_internal, commit_ll).
THEOREM LastIsFound ==
  ASSUME ~Repeats
  PROVE  HashSpec => []FindsLast
<1>1. HashInv => FindsLast
  BY InvFindsLast DEF FindsLast, LastFound
<1> QED
  BY <1>1, HashInvariant, PTL
=============================================================================

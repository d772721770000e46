---------------------------- MODULE SymtabProofs ----------------------------
(***************************************************************************)
(* The symbol table implements View, for every number of paths, names and  *)
(* operations, when the actions of the grammar keep to the rules (Usage =  *)
(* {}): each path reads what its own operations made, and finds the        *)
(* innermost declaration in its last version.                              *)
(*                                                                         *)
(* The argument: a scope that a path enters again is the last scope of its *)
(* frame on the history of the path (up_updates), and the links of every   *)
(* scope agree with the history (Tree).  So the scopes on the search chain *)
(* of the current scope are those the path itself would name, frame by     *)
(* frame (PathOK).  An operator with In in its name is the operator of     *)
(* DSymtab for a table given as a value.                                   *)
(***************************************************************************)
EXTENDS MCDSymtab, HelperProofs

SymOf(all, y, s, n) == LET q == all[s].syms IN Earliest(q, {k \in DOMAIN q : y[q[k]].name = n})
UpdateOf(all, y, s, o) == LET q == all[s].updates IN Earliest(q, {k \in DOMAIN q : y[q[k]].of = o})

VersionIn(all, y, st, o) ==
  LET walk[s \in 0..Len(all)] ==
        IF s = 0 THEN o
        ELSE LET u == UpdateOf(all, y, s, o) IN IF u # NotFound THEN u ELSE walk[all[s].upUpdates]
  IN  walk[st]

CurrentIn(all, y, st, x) == VersionIn(all, y, st, IF y[x].of # 0 THEN y[x].of ELSE x)

InScopeIn(all, y, st, n) ==
  LET walk[s \in DOMAIN all] ==
        LET x == SymOf(all, y, s, n)
        IN  IF x # NotFound THEN x
            ELSE IF all[s].search = 0 THEN NotFound
            ELSE IF all[all[s].search].up # all[s].up THEN NotFound
            ELSE walk[all[s].search]
  IN  walk[st]

FindIn(all, y, st, n) ==
  LET walk[s \in 0..Len(all)] ==
        IF s = 0 THEN NotFound
        ELSE LET x == SymOf(all, y, s, n) IN IF x # NotFound THEN x ELSE walk[all[s].search]
  IN  walk[st]

GlobalIn(all, st) ==
  LET walk[s \in DOMAIN all] == IF all[s].up = 0 THEN s ELSE walk[all[s].search]
  IN  walk[st]

FrameIn(all, st) ==
  LET walk[s \in DOMAIN all] == IF all[s].search = all[s].up THEN s ELSE walk[all[s].search]
  IN  walk[st]

FrameUpIn(all, f) == IF all[f].up = 0 THEN 0 ELSE FrameIn(all, all[f].up)

AroundIn(all, f) ==
  LET walk[h \in 0..Len(all)] == IF h = 0 THEN {} ELSE {h} \cup walk[FrameUpIn(all, h)]
  IN  walk[f]

HistoryIn(all, st) ==
  LET walk[s \in 0..Len(all)] == IF s = 0 THEN {} ELSE {s} \cup walk[all[s].upUpdates]
  IN  walk[st]

\* The last scope of a depth of at most d in the history of a scope; 0 if there is none.
LevelIn(all, st, d) ==
  LET walk[s \in 0..Len(all)] ==
        IF s = 0 THEN 0 ELSE IF all[s].depth <= d THEN s ELSE walk[all[s].upUpdates]
  IN  walk[st]

\* The symbols find_D_Sym_in_Scope looks through.
DeclsIn(all, st) ==
  LET walk[s \in DOMAIN all] ==
        ToSet(all[s].syms) \cup
        (IF all[s].search = 0 THEN {}
         ELSE IF all[all[s].search].up # all[s].up THEN {} ELSE walk[all[s].search])
  IN  walk[st]

-----------------------------------------------------------------------------
(* The invariant.                                                          *)

\* Links lead to older scopes; only the top scope has none.
Links(all) ==
  /\ IsSeq(all) /\ Len(all) >= 1
  /\ \A s \in 1..Len(all) :
       /\ all[s].depth \in Nat
       /\ all[s].up \in 0..(s - 1) /\ all[s].search \in 0..(s - 1) /\ all[s].upUpdates \in 0..(s - 1)
       /\ s # 1 => all[s].search # 0 /\ all[s].upUpdates # 0

\* A scope is a frame, or a copy of an older scope of its frame; it searches the last scope
\* of at most its depth in the history before it.
Tree(all) ==
  /\ all[1].depth = 0
  /\ \A s \in 2..Len(all) :
       /\ \/ all[s].search = all[s].up /\ all[s].depth = all[all[s].up].depth + 1
          \/ all[s].up = all[all[s].search].up /\ all[s].depth = all[all[s].search].depth
       /\ LevelIn(all, all[s].upUpdates, all[s].depth) = all[s].search

\* What scopes and symbols hold.
Content(all, y) ==
  /\ IsSeq(y)
  /\ \A s \in 1..Len(all) :
       /\ all[s] = [depth |-> all[s].depth, up |-> all[s].up, search |-> all[s].search,
                    upUpdates |-> all[s].upUpdates, syms |-> all[s].syms, updates |-> all[s].updates]
       /\ IsSeq(all[s].syms) /\ ToSet(all[s].syms) \subseteq 1..Len(y)
       /\ IsSeq(all[s].updates) /\ ToSet(all[s].updates) \subseteq 1..Len(y)
  /\ all[1].updates = <<>>
  /\ \A x \in 1..Len(y) :
       /\ y[x] = [name |-> y[x].name, scope |-> y[x].scope, of |-> y[x].of, val |-> y[x].val]
       /\ y[x].of \in 0..Len(y) /\ IsSeq(y[x].val) /\ y[x].val # <<>>

\* While the parse goes on, an update is an update of a declared symbol, and a symbol knows
\* the scope that declares it.
Declared(all, y) ==
  /\ \A x \in 1..Len(y) :
       /\ y[x].scope \in 1..Len(all)
       /\ y[x].of # 0 => y[y[x].of].of = 0 /\ y[y[x].of].scope = y[x].scope
  /\ \A s \in 1..Len(all) :
       /\ \A x \in ToSet(all[s].syms) : y[x].of = 0 /\ y[x].scope = s
       /\ \A x \in ToSet(all[s].updates) : y[x].of # 0

\* No name is declared twice in the chain of a scope.
Distinct(all, y, s) ==
  \A x, z \in DeclsIn(all, s) : y[x].name = y[z].name => x = z

\* What a path saved: of each frame around its own the last scope it had, which is the last
\* of that depth in its history and the one the next frame inside was opened in.
PathOK(all, a) ==
  LET here == FrameIn(all, a.cur)
  IN  /\ a = [cur |-> a.cur, saved |-> a.saved, trail |-> a.trail]
      /\ a.cur \in 1..Len(all)
      /\ a.saved = [f \in AroundIn(all, here) |-> a.saved[f]]
      /\ \A f \in AroundIn(all, here) :
           /\ a.saved[f] \in 1..Len(all) /\ FrameIn(all, a.saved[f]) = f
           /\ a.saved[f] = LevelIn(all, a.cur, all[f].depth)
           /\ f # 1 => all[f].up = a.saved[FrameUpIn(all, f)]

TableOK == Links(sc) /\ Tree(sc) /\ Content(sc, sy)
PathsOK == at = [p \in Live |-> at[p]] /\ \A p \in Live : PathOK(sc, at[p])
Parsing ==
  /\ Declared(sc, sy)
  /\ \A p \in Live : Distinct(sc, sy, at[p].saved[1])
  /\ Len(sc) <= steps + 1 /\ steps \in 0..MaxSteps

Inv ==
  /\ TableOK /\ PathsOK
  /\ phase \in {"parsing", "committed"}
  /\ phase = "parsing" => Parsing
  /\ phase = "committed" => \A p \in Live : at[p].cur = 1

-----------------------------------------------------------------------------
(* Walks.                                                                  *)

\* A walk over l..n goes from a number that does not stop it to a smaller one, next.  Its
\* value is made of base, where it stops, and of the value of the rest by step, or,
\* in a gathering walk, by the union with base.
Earlier(l, n, stops, next) == \A s \in l..n : s \notin stops => next[s] \in l..(s - 1)
Stepping(l, n, stops, next, base, step, V) ==
  \E f : /\ f = [s \in l..n |-> IF s \in stops THEN base[s] ELSE step[s][f[next[s]]]]
         /\ \A s \in l..n : f[s] \in V
Trailing(l, n, stops, next, base) ==
  \E f : f = [s \in l..n |-> IF s \in stops THEN base[s] ELSE f[next[s]]]
Gathering(l, n, stops, next, base) ==
  \E f : f = [s \in l..n |-> base[s] \cup (IF s \in stops THEN {} ELSE f[next[s]])]

\* There is such a function.
LEMMA SteppingExists ==
  ASSUME NEW l \in {0, 1}, NEW n \in Nat, NEW stops, NEW next, Earlier(l, n, stops, next),
         NEW V, NEW base, NEW step,
         \A s \in l..n : s \in stops => base[s] \in V,
         \A s \in l..n : s \notin stops => \A v \in V : step[s][v] \in V
  PROVE  Stepping(l, n, stops, next, base, step, V)
<1> DEFINE Has(f, s) == IF s \in stops THEN base[s] ELSE step[s][f[next[s]]]
           M == {m \in Nat : m <= n + 1 => \E f : /\ f = [s \in l..(m - 1) |-> Has(f, s)]
                                                  /\ \A s \in l..(m - 1) : f[s] \in V}
<1>1. 0 \in M
  <2> DEFINE f == [s \in {} |-> 0]
  <2>1. l..(0 - 1) = {}
    OBVIOUS
  <2>2. f = [s \in l..(0 - 1) |-> Has(f, s)]
    BY <2>1
  <2> HIDE DEF f
  <2> QED
    BY <2>1, <2>2
<1>2. ASSUME NEW m \in Nat, m \in M PROVE m + 1 \in M
  <2>0. SUFFICES ASSUME m + 1 <= n + 1
                 PROVE  \E f : /\ f = [s \in l..m |-> Has(f, s)]
                               /\ \A s \in l..m : f[s] \in V
    <3>1. m + 1 - 1 = m
      OBVIOUS
    <3> HIDE DEF Has
    <3> QED
      BY <3>1
  <2>1. PICK f : f = [s \in l..(m - 1) |-> Has(f, s)] /\ \A s \in l..(m - 1) : f[s] \in V
    BY <1>2, <2>0
  <2> DEFINE h == [s \in l..m |-> Has(f, s)]
  <2>3. \A s \in l..(m - 1) : h[s] = f[s]
    <3> HIDE DEF Has
    <3> QED
      BY <2>1
  <2>4. ASSUME NEW s \in l..m PROVE h[s] = Has(h, s) /\ h[s] \in V
    <3>0. s \in l..n
      BY <2>0
    <3>1. CASE s \in stops
      BY <3>0, <3>1
    <3>2. CASE s \notin stops
      <4>1. next[s] \in l..(s - 1)
        BY <3>0, <3>2 DEF Earlier
      <4>2. next[s] \in l..(m - 1)
        BY <4>1
      <4>3. h[next[s]] = f[next[s]] /\ f[next[s]] \in V
        BY <2>1, <2>3, <4>2
      <4>4. h[s] = step[s][f[next[s]]]
        BY <3>2
      <4> HIDE DEF h
      <4> QED
        BY <3>0, <3>2, <4>3, <4>4
    <3> QED
      BY <3>1, <3>2
  <2>5. h = [s \in l..m |-> h[s]]
    OBVIOUS
  <2> HIDE DEF h, Has
  <2>6. h = [s \in l..m |-> Has(h, s)]
    BY <2>4, <2>5
  <2> QED
    BY <2>4, <2>6
<1> HIDE DEF M
<1>3. M \subseteq Nat
  BY DEF M
<1>4. n + 1 \in M
  <2>1. n + 1 \in Nat
    OBVIOUS
  <2> QED
    BY <1>1, <1>2, <1>3, <2>1, SetInduction
<1>5. n + 1 - 1 = n /\ n + 1 <= n + 1
  OBVIOUS
<1>6. \E f : f = [s \in l..n |-> Has(f, s)] /\ \A s \in l..n : f[s] \in V
  <2> HIDE DEF Has
  <2> QED
    BY <1>4, <1>5 DEF M
<1> QED
  BY <1>6 DEF Stepping

\* ... where the value is that of the scope it stops at,
LEMMA TrailingExists ==
  ASSUME NEW l \in {0, 1}, NEW n \in Nat, NEW stops, NEW next, Earlier(l, n, stops, next), NEW base
  PROVE  Trailing(l, n, stops, next, base)
<1> DEFINE V == {base[s] : s \in l..n}
           step == [s \in l..n |-> [v \in V |-> v]]
<1>1. \A s \in l..n : base[s] \in V
  OBVIOUS
<1>2. \A s \in l..n : \A v \in V : step[s][v] = v
  OBVIOUS
<1> HIDE DEF V, step
<1>3. Stepping(l, n, stops, next, base, step, V)
  BY <1>1, <1>2, SteppingExists
<1>4. PICK f : /\ f = [s \in l..n |-> IF s \in stops THEN base[s] ELSE step[s][f[next[s]]]]
               /\ \A s \in l..n : f[s] \in V
  BY <1>3 DEF Stepping
<1>5. ASSUME NEW s \in l..n, s \notin stops PROVE step[s][f[next[s]]] = f[next[s]]
  <2>1. next[s] \in l..n
    BY <1>5 DEF Earlier
  <2> QED
    BY <1>2, <1>4, <2>1
<1>6. f = [s \in l..n |-> IF s \in stops THEN base[s] ELSE f[next[s]]]
  BY <1>4, <1>5
<1> QED
  BY <1>6 DEF Trailing

\* ... and where it is a union.
LEMMA GatheringExists ==
  ASSUME NEW l \in {0, 1}, NEW n \in Nat, NEW stops, NEW next, Earlier(l, n, stops, next), NEW base
  PROVE  Gathering(l, n, stops, next, base)
<1> DEFINE V == SUBSET UNION {base[s] : s \in l..n}
           step == [s \in l..n |-> [X \in V |-> base[s] \cup X]]
<1>1. \A s \in l..n : base[s] \in V /\ \A X \in V : base[s] \cup X \in V
  OBVIOUS
<1>2. \A s \in l..n : \A X \in V : step[s][X] = base[s] \cup X
  OBVIOUS
<1> HIDE DEF V, step
<1>3. Stepping(l, n, stops, next, base, step, V)
  BY <1>1, <1>2, SteppingExists
<1>4. PICK f : /\ f = [s \in l..n |-> IF s \in stops THEN base[s] ELSE step[s][f[next[s]]]]
               /\ \A s \in l..n : f[s] \in V
  BY <1>3 DEF Stepping
<1>5. ASSUME NEW s \in l..n, s \notin stops PROVE step[s][f[next[s]]] = base[s] \cup f[next[s]]
  <2>1. next[s] \in l..n
    BY <1>5 DEF Earlier
  <2> QED
    BY <1>2, <1>4, <2>1
<1>6. f = [s \in l..n |-> base[s] \cup (IF s \in stops THEN {} ELSE f[next[s]])]
  BY <1>4, <1>5
<1> QED
  BY <1>6 DEF Gathering

-----------------------------------------------------------------------------
(* The walks of the lookups, one scope at a time.                          *)

\* Frame follows search to the frame of a scope.
LEMMA FrameUnfold ==
  ASSUME NEW all, Links(all), NEW s \in 1..Len(all)
  PROVE  FrameIn(all, s) =
       IF all[s].search = all[s].up THEN s ELSE FrameIn(all, all[s].search)
<1> DEFINE m == Len(all)
           stops == {t \in 1..m : all[t].search = all[t].up}
           next == [t \in 1..m |-> all[t].search]
           base == [t \in 1..m |-> t]
           IsWalk(f) == f = [t \in 1..m |-> IF all[t].search = all[t].up THEN t ELSE f[all[t].search]]
           walk == CHOOSE f : IsWalk(f)
<1>1. m \in Nat /\ DOMAIN all = 1..m
  BY SeqFacts DEF Links
<1>2. \E f : IsWalk(f)
  <2>1. Earlier(1, m, stops, next)
    <3>1. \A t \in 1..m : all[t].search \in 0..(t - 1) /\ (t # 1 => all[t].search # 0)
      BY DEF Links
    <3>2. \A t \in 1..m : t = 1 => all[t].search = all[t].up
      BY DEF Links
    <3> HIDE DEF m
    <3> QED
      BY <1>1, <3>1, <3>2 DEF Earlier
  <2> HIDE DEF stops, next, base, m
  <2>2. Trailing(1, m, stops, next, base)
    BY <1>1, <2>1, TrailingExists
  <2>3. PICK f : f = [t \in 1..m |-> IF t \in stops THEN base[t] ELSE f[next[t]]]
    BY <2>2 DEF Trailing
  <2>4. \A t \in 1..m : (IF t \in stops THEN base[t] ELSE f[next[t]]) = IF all[t].search = all[t].up THEN t ELSE f[all[t].search]
    BY DEF stops, next, base, NotFound
  <2>5. IsWalk(f)
    BY <2>3, <2>4
  <2> QED
    BY <2>5
<1>3. IsWalk(walk)
  BY <1>2
<1>4. \A t : FrameIn(all, t) = walk[t]
  BY <1>1 DEF FrameIn
<1> HIDE DEF walk
<1>5. walk[s] = IF all[s].search = all[s].up THEN s ELSE walk[all[s].search]
  BY <1>1, <1>3
<1> QED
  BY <1>4, <1>5

\* global_D_Scope follows search up to a top-level scope.
LEMMA GlobalUnfold ==
  ASSUME NEW all, Links(all), NEW s \in 1..Len(all)
  PROVE  GlobalIn(all, s) =
       IF all[s].up = 0 THEN s ELSE GlobalIn(all, all[s].search)
<1> DEFINE m == Len(all)
           stops == {t \in 1..m : all[t].up = 0}
           next == [t \in 1..m |-> all[t].search]
           base == [t \in 1..m |-> t]
           IsWalk(f) == f = [t \in 1..m |-> IF all[t].up = 0 THEN t ELSE f[all[t].search]]
           walk == CHOOSE f : IsWalk(f)
<1>1. m \in Nat /\ DOMAIN all = 1..m
  BY SeqFacts DEF Links
<1>2. \E f : IsWalk(f)
  <2>1. Earlier(1, m, stops, next)
    <3>1. \A t \in 1..m : all[t].search \in 0..(t - 1) /\ (t # 1 => all[t].search # 0)
      BY DEF Links
    <3>2. \A t \in 1..m : t = 1 => all[t].up = 0
      BY DEF Links
    <3> HIDE DEF m
    <3> QED
      BY <1>1, <3>1, <3>2 DEF Earlier
  <2> HIDE DEF stops, next, base, m
  <2>2. Trailing(1, m, stops, next, base)
    BY <1>1, <2>1, TrailingExists
  <2>3. PICK f : f = [t \in 1..m |-> IF t \in stops THEN base[t] ELSE f[next[t]]]
    BY <2>2 DEF Trailing
  <2>4. \A t \in 1..m : (IF t \in stops THEN base[t] ELSE f[next[t]]) = IF all[t].up = 0 THEN t ELSE f[all[t].search]
    BY DEF stops, next, base, NotFound
  <2>5. IsWalk(f)
    BY <2>3, <2>4
  <2> QED
    BY <2>5
<1>3. IsWalk(walk)
  BY <1>2
<1>4. \A t : GlobalIn(all, t) = walk[t]
  BY <1>1 DEF GlobalIn
<1> HIDE DEF walk
<1>5. walk[s] = IF all[s].up = 0 THEN s ELSE walk[all[s].search]
  BY <1>1, <1>3
<1> QED
  BY <1>4, <1>5

\* LevelIn looks at a scope, and then at the history before it.
LEMMA LevelUnfold ==
  ASSUME NEW all, Links(all), NEW d, NEW s \in 0..Len(all)
  PROVE  LevelIn(all, s, d) =
       IF s = 0 THEN 0 ELSE IF all[s].depth <= d THEN s ELSE LevelIn(all, all[s].upUpdates, d)
<1> DEFINE m == Len(all)
           stops == {t \in 0..m : t = 0 \/ all[t].depth <= d}
           next == [t \in 0..m |-> all[t].upUpdates]
           base == [t \in 0..m |-> t]
           IsWalk(f) == f = [t \in 0..m |-> IF t = 0 THEN 0 ELSE IF all[t].depth <= d THEN t ELSE f[all[t].upUpdates]]
           walk == CHOOSE f : IsWalk(f)
<1>1. m \in Nat /\ DOMAIN all = 1..m
  BY SeqFacts DEF Links
<1>2. \E f : IsWalk(f)
  <2>1. Earlier(0, m, stops, next)
    <3>1. \A t \in 1..m : all[t].upUpdates \in 0..(t - 1) /\ (t # 1 => all[t].upUpdates # 0)
      BY DEF Links
    <3> HIDE DEF m
    <3> QED
      BY <1>1, <3>1 DEF Earlier
  <2> HIDE DEF stops, next, base, m
  <2>2. Trailing(0, m, stops, next, base)
    BY <1>1, <2>1, TrailingExists
  <2>3. PICK f : f = [t \in 0..m |-> IF t \in stops THEN base[t] ELSE f[next[t]]]
    BY <2>2 DEF Trailing
  <2>4. \A t \in 0..m : (IF t \in stops THEN base[t] ELSE f[next[t]]) = IF t = 0 THEN 0 ELSE IF all[t].depth <= d THEN t ELSE f[all[t].upUpdates]
    BY DEF stops, next, base, NotFound
  <2>5. IsWalk(f)
    BY <2>3, <2>4
  <2> QED
    BY <2>5
<1>3. IsWalk(walk)
  BY <1>2
<1>4. \A t : LevelIn(all, t, d) = walk[t]
  BY <1>1 DEF LevelIn
<1> HIDE DEF walk
<1>5. walk[s] = IF s = 0 THEN 0 ELSE IF all[s].depth <= d THEN s ELSE walk[all[s].upUpdates]
  BY <1>1, <1>3
<1> QED
  BY <1>4, <1>5

\* current_D_Sym looks at the updates of a scope, and then at the history before it.
LEMMA VersionUnfold ==
  ASSUME NEW all, Links(all), NEW y, NEW o, NEW s \in 0..Len(all)
  PROVE  VersionIn(all, y, s, o) =
       IF s = 0 THEN o ELSE IF UpdateOf(all, y, s, o) # NotFound THEN UpdateOf(all, y, s, o) ELSE VersionIn(all, y, all[s].upUpdates, o)
<1> DEFINE m == Len(all)
           stops == {t \in 0..m : t = 0 \/ UpdateOf(all, y, t, o) # NotFound}
           next == [t \in 0..m |-> all[t].upUpdates]
           base == [t \in 0..m |-> IF t = 0 THEN o ELSE UpdateOf(all, y, t, o)]
           IsWalk(f) == f = [t \in 0..m |-> IF t = 0 THEN o ELSE IF UpdateOf(all, y, t, o) # NotFound THEN UpdateOf(all, y, t, o) ELSE f[all[t].upUpdates]]
           walk == CHOOSE f : IsWalk(f)
<1>1. m \in Nat /\ DOMAIN all = 1..m
  BY SeqFacts DEF Links
<1>2. \E f : IsWalk(f)
  <2>1. Earlier(0, m, stops, next)
    <3>1. \A t \in 1..m : all[t].upUpdates \in 0..(t - 1) /\ (t # 1 => all[t].upUpdates # 0)
      BY DEF Links
    <3> HIDE DEF m
    <3> QED
      BY <1>1, <3>1 DEF Earlier
  <2> HIDE DEF stops, next, base, m
  <2>2. Trailing(0, m, stops, next, base)
    BY <1>1, <2>1, TrailingExists
  <2>3. PICK f : f = [t \in 0..m |-> IF t \in stops THEN base[t] ELSE f[next[t]]]
    BY <2>2 DEF Trailing
  <2>4. \A t \in 0..m : (IF t \in stops THEN base[t] ELSE f[next[t]]) = IF t = 0 THEN o ELSE IF UpdateOf(all, y, t, o) # NotFound THEN UpdateOf(all, y, t, o) ELSE f[all[t].upUpdates]
    BY DEF stops, next, base, NotFound
  <2>5. IsWalk(f)
    BY <2>3, <2>4
  <2> QED
    BY <2>5
<1>3. IsWalk(walk)
  BY <1>2
<1>4. \A t : VersionIn(all, y, t, o) = walk[t]
  BY <1>1 DEF VersionIn
<1> HIDE DEF walk
<1>5. walk[s] = IF s = 0 THEN o ELSE IF UpdateOf(all, y, s, o) # NotFound THEN UpdateOf(all, y, s, o) ELSE walk[all[s].upUpdates]
  BY <1>1, <1>3
<1> QED
  BY <1>4, <1>5

\* find_D_Sym looks at the symbols of a scope, and then in the scope it searches.
LEMMA FindUnfold ==
  ASSUME NEW all, Links(all), NEW y, NEW n, NEW s \in 0..Len(all)
  PROVE  FindIn(all, y, s, n) =
       IF s = 0 THEN NotFound ELSE IF SymOf(all, y, s, n) # NotFound THEN SymOf(all, y, s, n) ELSE FindIn(all, y, all[s].search, n)
<1> DEFINE m == Len(all)
           stops == {t \in 0..m : t = 0 \/ SymOf(all, y, t, n) # NotFound}
           next == [t \in 0..m |-> all[t].search]
           base == [t \in 0..m |-> IF t = 0 THEN NotFound ELSE SymOf(all, y, t, n)]
           IsWalk(f) == f = [t \in 0..m |-> IF t = 0 THEN NotFound ELSE IF SymOf(all, y, t, n) # NotFound THEN SymOf(all, y, t, n) ELSE f[all[t].search]]
           walk == CHOOSE f : IsWalk(f)
<1>1. m \in Nat /\ DOMAIN all = 1..m
  BY SeqFacts DEF Links
<1>2. \E f : IsWalk(f)
  <2>1. Earlier(0, m, stops, next)
    <3>1. \A t \in 1..m : all[t].search \in 0..(t - 1) /\ (t # 1 => all[t].search # 0)
      BY DEF Links
    <3> HIDE DEF m
    <3> QED
      BY <1>1, <3>1 DEF Earlier
  <2> HIDE DEF stops, next, base, m
  <2>2. Trailing(0, m, stops, next, base)
    BY <1>1, <2>1, TrailingExists
  <2>3. PICK f : f = [t \in 0..m |-> IF t \in stops THEN base[t] ELSE f[next[t]]]
    BY <2>2 DEF Trailing
  <2>4. \A t \in 0..m : (IF t \in stops THEN base[t] ELSE f[next[t]]) = IF t = 0 THEN NotFound ELSE IF SymOf(all, y, t, n) # NotFound THEN SymOf(all, y, t, n) ELSE f[all[t].search]
    BY DEF stops, next, base, NotFound
  <2>5. IsWalk(f)
    BY <2>3, <2>4
  <2> QED
    BY <2>5
<1>3. IsWalk(walk)
  BY <1>2
<1>4. \A t : FindIn(all, y, t, n) = walk[t]
  BY <1>1 DEF FindIn
<1> HIDE DEF walk
<1>5. walk[s] = IF s = 0 THEN NotFound ELSE IF SymOf(all, y, s, n) # NotFound THEN SymOf(all, y, s, n) ELSE walk[all[s].search]
  BY <1>1, <1>3
<1> QED
  BY <1>4, <1>5

\* find_D_Sym_in_Scope stops where the enclosing scope changes.
LEMMA InScopeUnfold ==
  ASSUME NEW all, Links(all), NEW y, NEW n, NEW s \in 1..Len(all)
  PROVE  InScopeIn(all, y, s, n) =
       IF SymOf(all, y, s, n) # NotFound THEN SymOf(all, y, s, n)
       ELSE IF all[s].search = 0 THEN NotFound
       ELSE IF all[all[s].search].up # all[s].up THEN NotFound
       ELSE InScopeIn(all, y, all[s].search, n)
<1> DEFINE m == Len(all)
           stops == {t \in 1..m : SymOf(all, y, t, n) # NotFound \/ all[t].search = 0 \/ all[all[t].search].up # all[t].up}
           next == [t \in 1..m |-> all[t].search]
           base == [t \in 1..m |-> SymOf(all, y, t, n)]
           IsWalk(f) == f = [t \in 1..m |-> IF SymOf(all, y, t, n) # NotFound THEN SymOf(all, y, t, n)
       ELSE IF all[t].search = 0 THEN NotFound
       ELSE IF all[all[t].search].up # all[t].up THEN NotFound
       ELSE f[all[t].search]]
           walk == CHOOSE f : IsWalk(f)
<1>1. m \in Nat /\ DOMAIN all = 1..m
  BY SeqFacts DEF Links
<1>2. \E f : IsWalk(f)
  <2>1. Earlier(1, m, stops, next)
    <3>1. \A t \in 1..m : all[t].search \in 0..(t - 1) /\ (t # 1 => all[t].search # 0)
      BY DEF Links
    <3> HIDE DEF m
    <3> QED
      BY <1>1, <3>1 DEF Earlier
  <2> HIDE DEF stops, next, base, m
  <2>2. Trailing(1, m, stops, next, base)
    BY <1>1, <2>1, TrailingExists
  <2>3. PICK f : f = [t \in 1..m |-> IF t \in stops THEN base[t] ELSE f[next[t]]]
    BY <2>2 DEF Trailing
  <2>4. \A t \in 1..m : (IF t \in stops THEN base[t] ELSE f[next[t]]) = IF SymOf(all, y, t, n) # NotFound THEN SymOf(all, y, t, n)
       ELSE IF all[t].search = 0 THEN NotFound
       ELSE IF all[all[t].search].up # all[t].up THEN NotFound
       ELSE f[all[t].search]
    BY DEF stops, next, base, NotFound
  <2>5. IsWalk(f)
    BY <2>3, <2>4
  <2> QED
    BY <2>5
<1>3. IsWalk(walk)
  BY <1>2
<1>4. \A t : InScopeIn(all, y, t, n) = walk[t]
  BY <1>1 DEF InScopeIn
<1> HIDE DEF walk
<1>5. walk[s] = IF SymOf(all, y, s, n) # NotFound THEN SymOf(all, y, s, n)
       ELSE IF all[s].search = 0 THEN NotFound
       ELSE IF all[all[s].search].up # all[s].up THEN NotFound
       ELSE walk[all[s].search]
  BY <1>1, <1>3
<1> QED
  BY <1>4, <1>5

-----------------------------------------------------------------------------
(* Frames.                                                                 *)

IsFrame(all, f) == f \in 1..Len(all) /\ all[f].search = all[f].up

\* The frame of a scope is a frame of the same depth in the same enclosing scope.
LEMMA FrameFacts ==
  ASSUME NEW all, Links(all), Tree(all), NEW s \in 1..Len(all)
  PROVE  LET f == FrameIn(all, s)
         IN  /\ IsFrame(all, f) /\ f \in 1..s
             /\ all[f].up = all[s].up /\ all[f].depth = all[s].depth
<1> DEFINE n == Len(all)
           Good(x, f) == /\ IsFrame(all, f) /\ f \in 1..x
                         /\ all[f].up = all[x].up /\ all[f].depth = all[x].depth
           B == {x \in 1..n : Good(x, FrameIn(all, x))}
<1>1. n \in Nat
  BY SeqFacts DEF Links
<1>2. ASSUME NEW x \in 1..n, 1..(x - 1) \subseteq B PROVE x \in B
  <2>1. FrameIn(all, x) = IF all[x].search = all[x].up THEN x ELSE FrameIn(all, all[x].search)
    BY FrameUnfold
  <2>2. CASE all[x].search = all[x].up
    BY <2>1, <2>2 DEF IsFrame
  <2>3. CASE all[x].search # all[x].up
    <3>1. x # 1 /\ all[x].search \in 1..(x - 1)
      BY <2>3 DEF Links
    <3>2. all[x].up = all[all[x].search].up /\ all[x].depth = all[all[x].search].depth
      BY <2>3, <3>1 DEF Tree
    <3>3. all[x].search \in B
      BY <1>2, <3>1
    <3>4. Good(all[x].search, FrameIn(all, x))
      BY <2>1, <2>3, <3>3
    <3> HIDE DEF n
    <3> QED
      BY <1>1, <3>1, <3>2, <3>4
  <2> QED
    BY <2>2, <2>3
<1> HIDE DEF B, n
<1>3. 1..n \subseteq B
  BY <1>1, <1>2, CountingInduction
<1> QED
  BY <1>3 DEF B, n

\* A frame is its own frame, and only the top scope has no enclosing frame.
LEMMA OwnFrame ==
  ASSUME NEW all, Links(all), Tree(all), NEW f, IsFrame(all, f)
  PROVE  /\ FrameIn(all, f) = f
         /\ all[f].up = 0 <=> f = 1
         /\ f # 1 => /\ all[f].up \in 1..(f - 1) /\ all[f].upUpdates \in 1..(f - 1)
                     /\ all[f].depth = all[all[f].up].depth + 1
                     /\ FrameUpIn(all, f) \in 1..all[f].up /\ IsFrame(all, FrameUpIn(all, f))
                     /\ all[FrameUpIn(all, f)].depth = all[f].depth - 1
<1>1. Len(all) \in Nat /\ f \in 1..Len(all)
  BY SeqFacts DEF Links, IsFrame
<1>2. FrameIn(all, f) = f
  BY <1>1, FrameUnfold DEF IsFrame
<1>3. all[f].up = 0 <=> f = 1
  BY <1>1 DEF Links, IsFrame
<1>4. ASSUME f # 1
      PROVE  /\ all[f].up \in 1..(f - 1) /\ all[f].upUpdates \in 1..(f - 1)
             /\ all[f].depth = all[all[f].up].depth + 1
             /\ FrameUpIn(all, f) \in 1..all[f].up /\ IsFrame(all, FrameUpIn(all, f))
             /\ all[FrameUpIn(all, f)].depth = all[f].depth - 1
  <2>1. all[f].up \in 1..(f - 1) /\ all[f].upUpdates \in 1..(f - 1)
    BY <1>1, <1>4 DEF Links, IsFrame
  <2>2. all[f].up \in 1..Len(all) /\ all[all[f].up].depth \in Nat /\ all[f].depth \in Nat
    BY <1>1, <2>1 DEF Links
  <2>3. all[f].depth = all[all[f].up].depth + 1
    <3>1. \/ all[f].depth = all[all[f].up].depth + 1
          \/ all[f].up = all[all[f].search].up
      BY <1>1, <1>4 DEF Tree
    <3>2. all[all[f].up].up \in 0..(all[f].up - 1)
      BY <2>2 DEF Links
    <3>3. all[f].search = all[f].up
      BY DEF IsFrame
    <3> QED
      BY <2>1, <3>1, <3>2, <3>3
  <2>4. FrameUpIn(all, f) = FrameIn(all, all[f].up)
    BY <2>1 DEF FrameUpIn
  <2>5. /\ IsFrame(all, FrameUpIn(all, f)) /\ FrameUpIn(all, f) \in 1..all[f].up
        /\ all[FrameUpIn(all, f)].depth = all[all[f].up].depth
    BY <2>2, <2>4, FrameFacts
  <2> QED
    BY <2>1, <2>2, <2>3, <2>5
<1> QED
  BY <1>2, <1>3, <1>4

\* The frame that a scope is in is older.
LEMMA FrameUpEarlier ==
  ASSUME NEW all, Links(all), Tree(all), NEW s \in 1..Len(all)
  PROVE  FrameUpIn(all, s) \in 0..(s - 1)
<1>1. all[s].up \in 0..(s - 1) /\ Len(all) \in Nat
  BY SeqFacts DEF Links
<1>2. CASE all[s].up = 0
  BY <1>2 DEF FrameUpIn
<1>3. CASE all[s].up # 0
  <2>1. all[s].up \in 1..Len(all)
    BY <1>1, <1>3
  <2>2. FrameIn(all, all[s].up) \in 1..all[s].up
    BY <2>1, FrameFacts
  <2> QED
    BY <1>1, <1>3, <2>2 DEF FrameUpIn
<1> QED
  BY <1>2, <1>3

\* The frames around a frame are the frame and those around the one it is in.
LEMMA AroundUnfold ==
  ASSUME NEW all, Links(all), Tree(all), NEW s \in 0..Len(all)
  PROVE  AroundIn(all, s) = IF s = 0 THEN {} ELSE {s} \cup AroundIn(all, FrameUpIn(all, s))
<1> DEFINE m == Len(all)
           stops == {t \in 0..m : t = 0}
           next == [t \in 0..m |-> FrameUpIn(all, t)]
           base == [t \in 0..m |-> IF t = 0 THEN {} ELSE {t}]
           IsWalk(f) == f = [t \in 0..m |-> IF t = 0 THEN {} ELSE {t} \cup f[FrameUpIn(all, t)]]
           walk == CHOOSE f : IsWalk(f)
<1>1. m \in Nat /\ DOMAIN all = 1..m
  BY SeqFacts DEF Links
<1>2. \E f : IsWalk(f)
  <2>1. Earlier(0, m, stops, next)
    <3>1. \A t \in 1..m : t \notin stops => FrameUpIn(all, t) \in 0..(t - 1)
      BY FrameUpEarlier DEF Links
    <3> HIDE DEF m
    <3> QED
      BY <1>1, <3>1 DEF Earlier
  <2> HIDE DEF stops, next, base, m
  <2>2. Gathering(0, m, stops, next, base)
    BY <1>1, <2>1, GatheringExists
  <2>3. PICK f : f = [t \in 0..m |-> base[t] \cup (IF t \in stops THEN {} ELSE f[next[t]])]
    BY <2>2 DEF Gathering
  <2>4. ASSUME NEW t \in 0..m
        PROVE  base[t] \cup (IF t \in stops THEN {} ELSE f[next[t]]) = IF t = 0 THEN {} ELSE {t} \cup f[FrameUpIn(all, t)]
    BY DEF stops, next, base
  <2>5. IsWalk(f)
    BY <2>3, <2>4
  <2> QED
    BY <2>5
<1>3. IsWalk(walk)
  BY <1>2
<1>4. \A t : AroundIn(all, t) = walk[t]
  BY <1>1 DEF AroundIn
<1> HIDE DEF walk
<1>5. walk[s] = IF s = 0 THEN {} ELSE {s} \cup walk[FrameUpIn(all, s)]
  BY <1>1, <1>3
<1> QED
  BY <1>4, <1>5

\* The history of a scope is the scope and the history before it.
LEMMA HistoryUnfold ==
  ASSUME NEW all, Links(all), NEW s \in 0..Len(all)
  PROVE  HistoryIn(all, s) = IF s = 0 THEN {} ELSE {s} \cup HistoryIn(all, all[s].upUpdates)
<1> DEFINE m == Len(all)
           stops == {t \in 0..m : t = 0}
           next == [t \in 0..m |-> all[t].upUpdates]
           base == [t \in 0..m |-> IF t = 0 THEN {} ELSE {t}]
           IsWalk(f) == f = [t \in 0..m |-> IF t = 0 THEN {} ELSE {t} \cup f[all[t].upUpdates]]
           walk == CHOOSE f : IsWalk(f)
<1>1. m \in Nat /\ DOMAIN all = 1..m
  BY SeqFacts DEF Links
<1>2. \E f : IsWalk(f)
  <2>1. Earlier(0, m, stops, next)
    <3>1. \A t \in 1..m : t \notin stops => all[t].upUpdates \in 0..(t - 1)
      BY DEF Links
    <3> HIDE DEF m
    <3> QED
      BY <1>1, <3>1 DEF Earlier
  <2> HIDE DEF stops, next, base, m
  <2>2. Gathering(0, m, stops, next, base)
    BY <1>1, <2>1, GatheringExists
  <2>3. PICK f : f = [t \in 0..m |-> base[t] \cup (IF t \in stops THEN {} ELSE f[next[t]])]
    BY <2>2 DEF Gathering
  <2>4. ASSUME NEW t \in 0..m
        PROVE  base[t] \cup (IF t \in stops THEN {} ELSE f[next[t]]) = IF t = 0 THEN {} ELSE {t} \cup f[all[t].upUpdates]
    BY DEF stops, next, base
  <2>5. IsWalk(f)
    BY <2>3, <2>4
  <2> QED
    BY <2>5
<1>3. IsWalk(walk)
  BY <1>2
<1>4. \A t : HistoryIn(all, t) = walk[t]
  BY <1>1 DEF HistoryIn
<1> HIDE DEF walk
<1>5. walk[s] = IF s = 0 THEN {} ELSE {s} \cup walk[all[s].upUpdates]
  BY <1>1, <1>3
<1> QED
  BY <1>4, <1>5

\* The symbols of a scope, and those of the scope it searches, if that is of the same frame.
LEMMA DeclsUnfold ==
  ASSUME NEW all, Links(all), NEW s \in 1..Len(all)
  PROVE  DeclsIn(all, s) = ToSet(all[s].syms) \cup (IF all[s].search = 0 THEN {} ELSE IF all[all[s].search].up # all[s].up THEN {} ELSE DeclsIn(all, all[s].search))
<1> DEFINE m == Len(all)
           stops == {t \in 1..m : all[t].search = 0 \/ all[all[t].search].up # all[t].up}
           next == [t \in 1..m |-> all[t].search]
           base == [t \in 1..m |-> ToSet(all[t].syms)]
           IsWalk(f) == f = [t \in 1..m |-> ToSet(all[t].syms) \cup (IF all[t].search = 0 THEN {} ELSE IF all[all[t].search].up # all[t].up THEN {} ELSE f[all[t].search])]
           walk == CHOOSE f : IsWalk(f)
<1>1. m \in Nat /\ DOMAIN all = 1..m
  BY SeqFacts DEF Links
<1>2. \E f : IsWalk(f)
  <2>1. Earlier(1, m, stops, next)
    <3>1. \A t \in 1..m : t \notin stops => all[t].search \in 1..(t - 1)
      BY DEF Links
    <3> HIDE DEF m
    <3> QED
      BY <1>1, <3>1 DEF Earlier
  <2> HIDE DEF stops, next, base, m
  <2>2. Gathering(1, m, stops, next, base)
    BY <1>1, <2>1, GatheringExists
  <2>3. PICK f : f = [t \in 1..m |-> base[t] \cup (IF t \in stops THEN {} ELSE f[next[t]])]
    BY <2>2 DEF Gathering
  <2>4. ASSUME NEW t \in 1..m
        PROVE  base[t] \cup (IF t \in stops THEN {} ELSE f[next[t]]) = ToSet(all[t].syms) \cup (IF all[t].search = 0 THEN {} ELSE IF all[all[t].search].up # all[t].up THEN {} ELSE f[all[t].search])
    BY DEF stops, next, base
  <2>5. IsWalk(f)
    BY <2>3, <2>4
  <2> QED
    BY <2>5
<1>3. IsWalk(walk)
  BY <1>2
<1>4. \A t : DeclsIn(all, t) = walk[t]
  BY <1>1 DEF DeclsIn
<1> HIDE DEF walk
<1>5. walk[s] = ToSet(all[s].syms) \cup (IF all[s].search = 0 THEN {} ELSE IF all[all[s].search].up # all[s].up THEN {} ELSE walk[all[s].search])
  BY <1>1, <1>3
<1> QED
  BY <1>4, <1>5

\* The frames around a frame: from it up to the top frame, of less and less depth.
AroundOK(all, h, R) ==
  /\ h \in R /\ 1 \in R /\ R \subseteq 1..h
  /\ \A f \in R : /\ IsFrame(all, f) /\ AroundIn(all, f) \subseteq R
                  /\ f # 1 => FrameUpIn(all, f) \in R
                  /\ f # h => all[f].depth < all[h].depth

\* Those of any frame are so.
LEMMA AroundFacts ==
  ASSUME NEW all, Links(all), Tree(all), NEW h, IsFrame(all, h)
  PROVE  AroundOK(all, h, AroundIn(all, h))
<1> DEFINE n == Len(all)
           B == {x \in 1..n : IsFrame(all, x) => AroundOK(all, x, AroundIn(all, x))}
<1>1. n \in Nat /\ h \in 1..n
  BY SeqFacts DEF Links, IsFrame
<1>2. ASSUME NEW x \in 1..n, 1..(x - 1) \subseteq B, IsFrame(all, x)
      PROVE  AroundOK(all, x, AroundIn(all, x))
  <2> DEFINE u == FrameUpIn(all, x)
  <2>1. AroundIn(all, x) = {x} \cup AroundIn(all, u)
    BY <1>1, AroundUnfold
  <2>2. CASE x = 1
    <3>1. u = 0
      BY <1>2, <2>2, OwnFrame DEF FrameUpIn
    <3>2. AroundIn(all, 0) = {}
      BY <1>1, AroundUnfold
    <3>3. AroundIn(all, x) = {1}
      BY <2>1, <2>2, <3>1, <3>2
    <3> QED
      BY <1>2, <2>2, <3>3 DEF AroundOK
  <2>3. CASE x # 1
    <3>1. u \in 1..(x - 1) /\ IsFrame(all, u) /\ all[u].depth = all[x].depth - 1
      <4>1. /\ all[x].up \in 1..(x - 1) /\ u \in 1..all[x].up /\ IsFrame(all, u)
            /\ all[u].depth = all[x].depth - 1
        BY <1>2, <2>3, OwnFrame
      <4> HIDE DEF u
      <4> QED
        BY <1>1, <4>1
    <3>2. AroundOK(all, u, AroundIn(all, u))
      BY <1>2, <3>1
    <3>3. all[x].depth \in Nat /\ \A f \in AroundIn(all, u) : f \in 1..n
      <4>1. AroundIn(all, u) \subseteq 1..u
        BY <3>2 DEF AroundOK
      <4> HIDE DEF u
      <4> QED
        BY <1>1, <3>1, <4>1 DEF Links
    <3>4. \A f \in AroundIn(all, u) : all[f].depth \in Nat
      BY <3>3 DEF Links
    <3> HIDE DEF n, B
    <3>5. x \in AroundIn(all, x) /\ 1 \in AroundIn(all, x) /\ AroundIn(all, x) \subseteq 1..x
      <4>1. AroundIn(all, u) \subseteq 1..u /\ 1 \in AroundIn(all, u)
        BY <3>2 DEF AroundOK
      <4> HIDE DEF u
      <4> QED
        BY <1>1, <2>1, <3>1, <4>1
    <3>6. ASSUME NEW f \in AroundIn(all, x)
          PROVE  /\ IsFrame(all, f) /\ AroundIn(all, f) \subseteq AroundIn(all, x)
                 /\ f # 1 => FrameUpIn(all, f) \in AroundIn(all, x)
                 /\ f # x => all[f].depth < all[x].depth
      <4>1. CASE f = x
        <5>1. u \in AroundIn(all, u)
          BY <3>2 DEF AroundOK
        <5> QED
          BY <1>2, <2>1, <4>1, <5>1
      <4>2. CASE f # x
        <5>1. f \in AroundIn(all, u)
          BY <2>1, <4>2
        <5>2. /\ IsFrame(all, f) /\ AroundIn(all, f) \subseteq AroundIn(all, u)
              /\ f # 1 => FrameUpIn(all, f) \in AroundIn(all, u)
              /\ f = u \/ all[f].depth < all[u].depth
          BY <3>2, <5>1 DEF AroundOK
        <5>3. all[f].depth < all[x].depth
          BY <3>1, <3>3, <3>4, <5>1, <5>2
        <5> QED
          BY <2>1, <5>2, <5>3
      <4> QED
        BY <4>1, <4>2
    <3> QED
      BY <3>5, <3>6 DEF AroundOK
  <2> QED
    BY <2>2, <2>3
<1> HIDE DEF n
<1>3. \A x \in 1..n : 1..(x - 1) \subseteq B => x \in B
  BY <1>2
<1> HIDE DEF B
<1>4. 1..n \subseteq B
  BY <1>1, <1>3, CountingInduction
<1> QED
  BY <1>1, <1>4 DEF B

-----------------------------------------------------------------------------
(* The history of a scope.                                                 *)

\* The scopes of R lead to scopes of R.
Closed(all, R) ==
  /\ R \subseteq 1..Len(all)
  /\ \A s \in R : /\ s # 1 => all[s].search \in R /\ all[s].upUpdates \in R
                  /\ all[s].up # 0 => all[s].up \in R

\* The history of a scope goes back to the top scope.
LEMMA HistoryFacts ==
  ASSUME NEW all, Links(all), NEW s \in 1..Len(all)
  PROVE  /\ s \in HistoryIn(all, s) /\ HistoryIn(all, s) \subseteq 1..s
         /\ \A t \in HistoryIn(all, s) : /\ HistoryIn(all, t) \subseteq HistoryIn(all, s)
                                         /\ t # 1 => all[t].upUpdates \in HistoryIn(all, s)
<1> DEFINE n == Len(all)
           H(x) == HistoryIn(all, x)
           Good(x) == /\ x \in H(x) /\ H(x) \subseteq 1..x
                      /\ \A t \in H(x) : H(t) \subseteq H(x) /\ (t # 1 => all[t].upUpdates \in H(x))
           B == {x \in 1..n : Good(x)}
<1>1. n \in Nat
  BY SeqFacts DEF Links
<1>2. ASSUME NEW x \in 1..n, 1..(x - 1) \subseteq B PROVE Good(x)
  <2> DEFINE u == all[x].upUpdates
  <2>1. u \in 0..(x - 1) /\ (x # 1 => u # 0)
    BY DEF Links
  <2>2. H(x) = {x} \cup H(u)
    BY <1>1, HistoryUnfold
  <2> HIDE DEF H
  <2>3. CASE u = 0
    <3>1. H(0) = {} /\ x = 1
      BY <1>1, <2>1, <2>3, HistoryUnfold DEF H
    <3> QED
      BY <2>2, <2>3, <3>1
  <2>4. CASE u # 0
    <3>1. u \in 1..(x - 1)
      BY <2>1, <2>4
    <3>2. Good(u)
      BY <1>2, <3>1
    <3> QED
      BY <1>1, <2>2, <3>1, <3>2
  <2> QED
    BY <2>3, <2>4
<1> HIDE DEF n, Good
<1>3. \A x \in 1..n : 1..(x - 1) \subseteq B => x \in B
  BY <1>2
<1> HIDE DEF B
<1>4. 1..n \subseteq B
  BY <1>1, <1>3, CountingInduction
<1>5. Good(s)
  BY <1>4 DEF B, n
<1> QED
  BY <1>5 DEF Good

\* LevelIn finds a scope, in the history.
LEMMA LevelFacts ==
  ASSUME NEW all, Links(all), Tree(all), NEW s \in 1..Len(all), NEW d \in Nat
  PROVE  /\ LevelIn(all, s, d) \in HistoryIn(all, s) /\ LevelIn(all, s, d) \in 1..s
         /\ all[LevelIn(all, s, d)].depth <= d
         /\ all[s].depth <= d => LevelIn(all, s, d) = s
         /\ ~(all[s].depth <= d) => /\ all[s].upUpdates \in 1..(s - 1)
                                    /\ LevelIn(all, s, d) = LevelIn(all, all[s].upUpdates, d)
<1> DEFINE n == Len(all)
           Good(x) == /\ LevelIn(all, x, d) \in HistoryIn(all, x) /\ LevelIn(all, x, d) \in 1..x
                      /\ all[LevelIn(all, x, d)].depth <= d
                      /\ all[x].depth <= d => LevelIn(all, x, d) = x
                      /\ ~(all[x].depth <= d) => /\ all[x].upUpdates \in 1..(x - 1)
                                                 /\ LevelIn(all, x, d) = LevelIn(all, all[x].upUpdates, d)
           B == {x \in 1..n : Good(x)}
<1>1. n \in Nat
  BY SeqFacts DEF Links
<1>2. ASSUME NEW x \in 1..n, 1..(x - 1) \subseteq B PROVE Good(x)
  <2> DEFINE u == all[x].upUpdates
  <2>1. x # 0 /\ x \in 0..n /\ x \in HistoryIn(all, x)
    BY <1>1, HistoryFacts
  <2>2. LevelIn(all, x, d) = IF all[x].depth <= d THEN x ELSE LevelIn(all, u, d)
    BY <2>1, LevelUnfold
  <2>3. CASE all[x].depth <= d
    BY <1>1, <2>1, <2>2, <2>3
  <2>4. CASE ~(all[x].depth <= d)
    <3>1. x # 1
      BY <2>4 DEF Tree
    <3>2. u \in 1..(x - 1)
      BY <3>1 DEF Links
    <3>3. Good(u)
      BY <1>2, <3>2
    <3>4. HistoryIn(all, u) \subseteq HistoryIn(all, x)
      <4>1. HistoryIn(all, x) = {x} \cup HistoryIn(all, u)
        BY <2>1, HistoryUnfold
      <4> QED
        BY <4>1
    <3> HIDE DEF u, n
    <3>5. LevelIn(all, x, d) = LevelIn(all, u, d)
      BY <2>2, <2>4
    <3>6. LevelIn(all, u, d) \in 1..u
      BY <3>3
    <3>7. LevelIn(all, x, d) \in 1..x
      BY <1>1, <3>2, <3>5, <3>6
    <3> QED
      BY <2>4, <3>2, <3>3, <3>4, <3>5, <3>7 DEF u
  <2> QED
    BY <2>3, <2>4
<1> HIDE DEF n, Good
<1>3. \A x \in 1..n : 1..(x - 1) \subseteq B => x \in B
  BY <1>2
<1> HIDE DEF B
<1>4. 1..n \subseteq B
  BY <1>1, <1>3, CountingInduction
<1>5. Good(s)
  BY <1>4 DEF B, n
<1> QED
  BY <1>5 DEF Good

\* All links of the scopes of a history stay in it.
LEMMA HistoryClosed ==
  ASSUME NEW all, Links(all), Tree(all), NEW s \in 1..Len(all)
  PROVE  Closed(all, HistoryIn(all, s))
<1> DEFINE n == Len(all)
           H(x) == HistoryIn(all, x)
           Good(x) == /\ x # 1 => all[x].search \in H(x) /\ all[x].upUpdates \in H(x)
                      /\ all[x].up # 0 => all[x].up \in H(x)
           B == {x \in 1..n : Good(x)}
<1>1. n \in Nat
  BY SeqFacts DEF Links
<1>2. ASSUME NEW x \in 1..n, 1..(x - 1) \subseteq B PROVE Good(x)
  <2>1. CASE x = 1
    BY <2>1 DEF Links
  <2>2. CASE x # 1
    <3>1. all[x].upUpdates \in 1..(x - 1) /\ all[x].search \in 1..(x - 1) /\ all[x].depth \in Nat
      BY <2>2 DEF Links
    <3>2. x \in 2..n /\ all[x].upUpdates \in 1..n /\ all[x].search \in 1..n
      BY <1>1, <2>2, <3>1
    <3>3. all[x].upUpdates \in H(x) /\ H(all[x].upUpdates) \subseteq H(x)
      BY <2>2, HistoryFacts
    <3>4. LevelIn(all, all[x].upUpdates, all[x].depth) \in H(all[x].upUpdates)
      BY <3>1, <3>2, LevelFacts
    <3>5. all[x].search \in H(x)
      BY <3>2, <3>3, <3>4 DEF Tree
    <3>6. H(all[x].search) \subseteq H(x)
      BY <3>5, HistoryFacts
    <3>7. ASSUME all[x].up # 0 PROVE all[x].up \in H(x)
      <4>1. \/ all[x].search = all[x].up
            \/ all[x].up = all[all[x].search].up
        BY <3>2 DEF Tree
      <4>2. Good(all[x].search)
        BY <1>2, <3>1
      <4> QED
        BY <3>5, <3>6, <3>7, <4>1, <4>2
    <3> QED
      BY <3>3, <3>5, <3>7
  <2> QED
    BY <2>1, <2>2
<1> HIDE DEF n, Good
<1>3. \A x \in 1..n : 1..(x - 1) \subseteq B => x \in B
  BY <1>2
<1> HIDE DEF B
<1>4. 1..n \subseteq B
  BY <1>1, <1>3, CountingInduction
<1>5. H(s) \subseteq 1..n /\ \A x \in H(s) : H(x) \subseteq H(s)
  BY <1>1, HistoryFacts DEF n
<1>6. \A x \in H(s) : Good(x)
  BY <1>4, <1>5 DEF B
<1> HIDE DEF H
<1>7. Closed(all, H(s))
  BY <1>5, <1>6 DEF Closed, Good, n
<1> QED
  BY <1>7 DEF H

-----------------------------------------------------------------------------
(* Two tables that agree on the scopes of R give them the same walks.      *)

SameLinks(all, all2, R) ==
  /\ Closed(all, R) /\ R \subseteq 1..Len(all2)
  /\ \A s \in R : /\ all2[s].up = all[s].up /\ all2[s].search = all[s].search
                  /\ all2[s].upUpdates = all[s].upUpdates /\ all2[s].depth = all[s].depth


\* The last scope of a depth,
LEMMA SameLevel ==
  ASSUME NEW all, Links(all), NEW all2, Links(all2), NEW R, SameLinks(all, all2, R), NEW d,
         NEW s \in R
  PROVE  LevelIn(all2, s, d) = LevelIn(all, s, d)
<1> DEFINE n == Len(all)
           Good(x) == LevelIn(all2, x, d) = LevelIn(all, x, d)
           B == {x \in 1..n : x \in R => Good(x)}
<1>1. n \in Nat /\ Len(all2) \in Nat
  BY SeqFacts DEF Links
<1>2. ASSUME NEW x \in 1..n, 1..(x - 1) \subseteq B, x \in R PROVE Good(x)
  <2> DEFINE u == all[x].upUpdates
  <2>1. /\ x \in 1..Len(all2) /\ all2[x].up = all[x].up /\ all2[x].search = all[x].search
        /\ all2[x].upUpdates = all[x].upUpdates /\ all2[x].depth = all[x].depth
    BY <1>2 DEF SameLinks
  <2>2. u \in 0..(x - 1) /\ (u = 0 => x = 1) /\ (u # 0 => u \in R)
    BY <1>2 DEF Links, SameLinks, Closed
  <2>3. u # 0 => Good(u)
    BY <1>2, <2>2
  <2>4. /\ LevelIn(all, x, d) = IF x = 0 THEN 0 ELSE IF all[x].depth <= d THEN x ELSE LevelIn(all, u, d)
        /\ LevelIn(all2, x, d) = IF x = 0 THEN 0 ELSE IF all2[x].depth <= d THEN x ELSE LevelIn(all2, all2[x].upUpdates, d)
    <3>1. x \in 0..Len(all) /\ x \in 0..Len(all2)
      BY <1>1, <2>1
    <3> QED
      BY <3>1, LevelUnfold
  <2>5. LevelIn(all, 0, d) = 0 /\ LevelIn(all2, 0, d) = 0
    <3>1. 0 \in 0..Len(all) /\ 0 \in 0..Len(all2)
      BY <1>1
    <3> QED
      BY <3>1, LevelUnfold
  <2> HIDE DEF u, n
  <2> QED
    BY <2>1, <2>2, <2>3, <2>4, <2>5 DEF u

<1> HIDE DEF n, Good
<1>3. \A x \in 1..n : 1..(x - 1) \subseteq B => x \in B
  BY <1>2
<1> HIDE DEF B
<1>4. 1..n \subseteq B
  BY <1>1, <1>3, CountingInduction
<1>5. s \in 1..n
  BY DEF SameLinks, Closed, n
<1>6. Good(s)
  BY <1>4, <1>5 DEF B
<1> QED
  BY <1>6 DEF Good

\* ... the history,
LEMMA SameHistory ==
  ASSUME NEW all, Links(all), NEW all2, Links(all2), NEW R, SameLinks(all, all2, R),
         NEW s \in R
  PROVE  HistoryIn(all2, s) = HistoryIn(all, s)
<1> DEFINE n == Len(all)
           Good(x) == HistoryIn(all2, x) = HistoryIn(all, x)
           B == {x \in 1..n : x \in R => Good(x)}
<1>1. n \in Nat /\ Len(all2) \in Nat
  BY SeqFacts DEF Links
<1>2. ASSUME NEW x \in 1..n, 1..(x - 1) \subseteq B, x \in R PROVE Good(x)
  <2> DEFINE u == all[x].upUpdates
  <2>1. /\ x \in 1..Len(all2) /\ all2[x].up = all[x].up /\ all2[x].search = all[x].search
        /\ all2[x].upUpdates = all[x].upUpdates /\ all2[x].depth = all[x].depth
    BY <1>2 DEF SameLinks
  <2>2. u \in 0..(x - 1) /\ (u = 0 => x = 1) /\ (u # 0 => u \in R)
    BY <1>2 DEF Links, SameLinks, Closed
  <2>3. u # 0 => Good(u)
    BY <1>2, <2>2
  <2>4. /\ HistoryIn(all, x) = IF x = 0 THEN {} ELSE {x} \cup HistoryIn(all, u)
        /\ HistoryIn(all2, x) = IF x = 0 THEN {} ELSE {x} \cup HistoryIn(all2, all2[x].upUpdates)
    <3>1. x \in 0..Len(all) /\ x \in 0..Len(all2)
      BY <1>1, <2>1
    <3> QED
      BY <3>1, HistoryUnfold
  <2>5. HistoryIn(all, 0) = {} /\ HistoryIn(all2, 0) = {}
    <3>1. 0 \in 0..Len(all) /\ 0 \in 0..Len(all2)
      BY <1>1
    <3> QED
      BY <3>1, HistoryUnfold
  <2> HIDE DEF u, n
  <2> QED
    BY <2>1, <2>2, <2>3, <2>4, <2>5 DEF u

<1> HIDE DEF n, Good
<1>3. \A x \in 1..n : 1..(x - 1) \subseteq B => x \in B
  BY <1>2
<1> HIDE DEF B
<1>4. 1..n \subseteq B
  BY <1>1, <1>3, CountingInduction
<1>5. s \in 1..n
  BY DEF SameLinks, Closed, n
<1>6. Good(s)
  BY <1>4, <1>5 DEF B
<1> QED
  BY <1>6 DEF Good

\* ... the frame,
LEMMA SameFrame ==
  ASSUME NEW all, Links(all), NEW all2, Links(all2), NEW R, SameLinks(all, all2, R),
         NEW s \in R
  PROVE  FrameIn(all2, s) = FrameIn(all, s) /\ FrameIn(all, s) \in R
<1> DEFINE n == Len(all)
           Good(x) == FrameIn(all2, x) = FrameIn(all, x) /\ FrameIn(all, x) \in R
           B == {x \in 1..n : x \in R => Good(x)}
<1>1. n \in Nat /\ Len(all2) \in Nat
  BY SeqFacts DEF Links
<1>2. ASSUME NEW x \in 1..n, 1..(x - 1) \subseteq B, x \in R PROVE Good(x)
  <2> DEFINE u == all[x].search
  <2>1. /\ x \in 1..Len(all2) /\ all2[x].up = all[x].up /\ all2[x].search = all[x].search
        /\ all2[x].upUpdates = all[x].upUpdates /\ all2[x].depth = all[x].depth
    BY <1>2 DEF SameLinks
  <2>2. u \in 0..(x - 1) /\ (u = 0 => x = 1) /\ (u # 0 => u \in R)
    BY <1>2 DEF Links, SameLinks, Closed
  <2>3. u # 0 => Good(u)
    BY <1>2, <2>2
  <2>4. /\ FrameIn(all, x) = IF u = all[x].up THEN x ELSE FrameIn(all, u)
        /\ FrameIn(all2, x) = IF all2[x].search = all2[x].up THEN x ELSE FrameIn(all2, all2[x].search)
    BY <2>1, FrameUnfold
  <2>5. x = 1 => u = all[x].up
    BY DEF Links
  <2> HIDE DEF u, n
  <2> QED
    BY <1>2, <2>1, <2>2, <2>3, <2>4, <2>5 DEF u

<1> HIDE DEF n, Good
<1>3. \A x \in 1..n : 1..(x - 1) \subseteq B => x \in B
  BY <1>2
<1> HIDE DEF B
<1>4. 1..n \subseteq B
  BY <1>1, <1>3, CountingInduction
<1>5. s \in 1..n
  BY DEF SameLinks, Closed, n
<1>6. Good(s)
  BY <1>4, <1>5 DEF B
<1> QED
  BY <1>6 DEF Good

\* ... the top-level scope,
LEMMA SameGlobal ==
  ASSUME NEW all, Links(all), NEW all2, Links(all2), NEW R, SameLinks(all, all2, R),
         NEW s \in R
  PROVE  GlobalIn(all2, s) = GlobalIn(all, s)
<1> DEFINE n == Len(all)
           Good(x) == GlobalIn(all2, x) = GlobalIn(all, x)
           B == {x \in 1..n : x \in R => Good(x)}
<1>1. n \in Nat /\ Len(all2) \in Nat
  BY SeqFacts DEF Links
<1>2. ASSUME NEW x \in 1..n, 1..(x - 1) \subseteq B, x \in R PROVE Good(x)
  <2> DEFINE u == all[x].search
  <2>1. /\ x \in 1..Len(all2) /\ all2[x].up = all[x].up /\ all2[x].search = all[x].search
        /\ all2[x].upUpdates = all[x].upUpdates /\ all2[x].depth = all[x].depth
    BY <1>2 DEF SameLinks
  <2>2. u \in 0..(x - 1) /\ (u = 0 => x = 1) /\ (u # 0 => u \in R)
    BY <1>2 DEF Links, SameLinks, Closed
  <2>3. u # 0 => Good(u)
    BY <1>2, <2>2
  <2>4. /\ GlobalIn(all, x) = IF all[x].up = 0 THEN x ELSE GlobalIn(all, u)
        /\ GlobalIn(all2, x) = IF all2[x].up = 0 THEN x ELSE GlobalIn(all2, all2[x].search)
    BY <2>1, GlobalUnfold
  <2>5. x = 1 => all[x].up = 0
    BY DEF Links
  <2> HIDE DEF u, n
  <2> QED
    BY <1>2, <2>1, <2>2, <2>3, <2>4, <2>5 DEF u

<1> HIDE DEF n, Good
<1>3. \A x \in 1..n : 1..(x - 1) \subseteq B => x \in B
  BY <1>2
<1> HIDE DEF B
<1>4. 1..n \subseteq B
  BY <1>1, <1>3, CountingInduction
<1>5. s \in 1..n
  BY DEF SameLinks, Closed, n
<1>6. Good(s)
  BY <1>4, <1>5 DEF B
<1> QED
  BY <1>6 DEF Good

\* ... the version of a symbol, if each scope has the same update of it,
LEMMA SameVersion ==
  ASSUME NEW all, Links(all), NEW all2, Links(all2), NEW R, SameLinks(all, all2, R), NEW y, NEW y2, NEW o,
         \A t \in R : UpdateOf(all2, y2, t, o) = UpdateOf(all, y, t, o),
         NEW s \in R
  PROVE  VersionIn(all2, y2, s, o) = VersionIn(all, y, s, o)
<1> DEFINE n == Len(all)
           Good(x) == VersionIn(all2, y2, x, o) = VersionIn(all, y, x, o)
           B == {x \in 1..n : x \in R => Good(x)}
<1>1. n \in Nat /\ Len(all2) \in Nat
  BY SeqFacts DEF Links
<1>2. ASSUME NEW x \in 1..n, 1..(x - 1) \subseteq B, x \in R PROVE Good(x)
  <2> DEFINE u == all[x].upUpdates
  <2>1. /\ x \in 1..Len(all2) /\ all2[x].up = all[x].up /\ all2[x].search = all[x].search
        /\ all2[x].upUpdates = all[x].upUpdates /\ all2[x].depth = all[x].depth
    BY <1>2 DEF SameLinks
  <2>2. u \in 0..(x - 1) /\ (u = 0 => x = 1) /\ (u # 0 => u \in R)
    BY <1>2 DEF Links, SameLinks, Closed
  <2>3. u # 0 => Good(u)
    BY <1>2, <2>2
  <2>4. /\ VersionIn(all, y, x, o) = IF x = 0 THEN o ELSE
                 IF UpdateOf(all, y, x, o) # NotFound THEN UpdateOf(all, y, x, o) ELSE VersionIn(all, y, u, o)
        /\ VersionIn(all2, y2, x, o) = IF x = 0 THEN o ELSE
                 IF UpdateOf(all2, y2, x, o) # NotFound THEN UpdateOf(all2, y2, x, o)
                 ELSE VersionIn(all2, y2, all2[x].upUpdates, o)
    <3>1. x \in 0..Len(all) /\ x \in 0..Len(all2)
      BY <1>1, <2>1
    <3> QED
      BY <3>1, VersionUnfold
  <2>5. VersionIn(all, y, 0, o) = o /\ VersionIn(all2, y2, 0, o) = o
    <3>1. 0 \in 0..Len(all) /\ 0 \in 0..Len(all2)
      BY <1>1
    <3> QED
      BY <3>1, VersionUnfold
  <2> HIDE DEF u, n
  <2> QED
    BY <1>2, <2>1, <2>2, <2>3, <2>4, <2>5 DEF u

<1> HIDE DEF n, Good
<1>3. \A x \in 1..n : 1..(x - 1) \subseteq B => x \in B
  BY <1>2
<1> HIDE DEF B
<1>4. 1..n \subseteq B
  BY <1>1, <1>3, CountingInduction
<1>5. s \in 1..n
  BY DEF SameLinks, Closed, n
<1>6. Good(s)
  BY <1>4, <1>5 DEF B
<1> QED
  BY <1>6 DEF Good

\* ... what is found under a name, if each scope has the same symbol of that name,
LEMMA SameFind ==
  ASSUME NEW all, Links(all), NEW all2, Links(all2), NEW R, SameLinks(all, all2, R), NEW y, NEW y2, NEW nm,
         \A t \in R : SymOf(all2, y2, t, nm) = SymOf(all, y, t, nm),
         NEW s \in R
  PROVE  FindIn(all2, y2, s, nm) = FindIn(all, y, s, nm)
<1> DEFINE n == Len(all)
           Good(x) == FindIn(all2, y2, x, nm) = FindIn(all, y, x, nm)
           B == {x \in 1..n : x \in R => Good(x)}
<1>1. n \in Nat /\ Len(all2) \in Nat
  BY SeqFacts DEF Links
<1>2. ASSUME NEW x \in 1..n, 1..(x - 1) \subseteq B, x \in R PROVE Good(x)
  <2> DEFINE u == all[x].search
  <2>1. /\ x \in 1..Len(all2) /\ all2[x].up = all[x].up /\ all2[x].search = all[x].search
        /\ all2[x].upUpdates = all[x].upUpdates /\ all2[x].depth = all[x].depth
    BY <1>2 DEF SameLinks
  <2>2. u \in 0..(x - 1) /\ (u = 0 => x = 1) /\ (u # 0 => u \in R)
    BY <1>2 DEF Links, SameLinks, Closed
  <2>3. u # 0 => Good(u)
    BY <1>2, <2>2
  <2>4. /\ FindIn(all, y, x, nm) = IF x = 0 THEN NotFound ELSE
                 IF SymOf(all, y, x, nm) # NotFound THEN SymOf(all, y, x, nm) ELSE FindIn(all, y, u, nm)
        /\ FindIn(all2, y2, x, nm) = IF x = 0 THEN NotFound ELSE
                 IF SymOf(all2, y2, x, nm) # NotFound THEN SymOf(all2, y2, x, nm)
                 ELSE FindIn(all2, y2, all2[x].search, nm)
    <3>1. x \in 0..Len(all) /\ x \in 0..Len(all2)
      BY <1>1, <2>1
    <3> QED
      BY <3>1, FindUnfold
  <2>5. FindIn(all, y, 0, nm) = NotFound /\ FindIn(all2, y2, 0, nm) = NotFound
    <3>1. 0 \in 0..Len(all) /\ 0 \in 0..Len(all2)
      BY <1>1
    <3> QED
      BY <3>1, FindUnfold
  <2> HIDE DEF u, n
  <2> QED
    BY <1>2, <2>1, <2>2, <2>3, <2>4, <2>5 DEF u

<1> HIDE DEF n, Good
<1>3. \A x \in 1..n : 1..(x - 1) \subseteq B => x \in B
  BY <1>2
<1> HIDE DEF B
<1>4. 1..n \subseteq B
  BY <1>1, <1>3, CountingInduction
<1>5. s \in 1..n
  BY DEF SameLinks, Closed, n
<1>6. Good(s)
  BY <1>4, <1>5 DEF B
<1> QED
  BY <1>6 DEF Good

\* ... in the frame of the scope,
LEMMA SameInScope ==
  ASSUME NEW all, Links(all), NEW all2, Links(all2), NEW R, SameLinks(all, all2, R), NEW y, NEW y2, NEW nm,
         \A t \in R : SymOf(all2, y2, t, nm) = SymOf(all, y, t, nm),
         NEW s \in R
  PROVE  InScopeIn(all2, y2, s, nm) = InScopeIn(all, y, s, nm)
<1> DEFINE n == Len(all)
           Good(x) == InScopeIn(all2, y2, x, nm) = InScopeIn(all, y, x, nm)
           B == {x \in 1..n : x \in R => Good(x)}
<1>1. n \in Nat /\ Len(all2) \in Nat
  BY SeqFacts DEF Links
<1>2. ASSUME NEW x \in 1..n, 1..(x - 1) \subseteq B, x \in R PROVE Good(x)
  <2> DEFINE u == all[x].search
  <2>1. /\ x \in 1..Len(all2) /\ all2[x].up = all[x].up /\ all2[x].search = all[x].search
        /\ all2[x].upUpdates = all[x].upUpdates /\ all2[x].depth = all[x].depth
    BY <1>2 DEF SameLinks
  <2>2. u \in 0..(x - 1) /\ (u = 0 => x = 1) /\ (u # 0 => u \in R)
    BY <1>2 DEF Links, SameLinks, Closed
  <2>3. u # 0 => Good(u)
    BY <1>2, <2>2
  <2>4. /\ InScopeIn(all, y, x, nm) = IF SymOf(all, y, x, nm) # NotFound THEN SymOf(all, y, x, nm)
                 ELSE IF u = 0 THEN NotFound ELSE IF all[u].up # all[x].up THEN NotFound
                 ELSE InScopeIn(all, y, u, nm)
        /\ InScopeIn(all2, y2, x, nm) = IF SymOf(all2, y2, x, nm) # NotFound THEN SymOf(all2, y2, x, nm)
                 ELSE IF all2[x].search = 0 THEN NotFound
                 ELSE IF all2[all2[x].search].up # all2[x].up THEN NotFound
                 ELSE InScopeIn(all2, y2, all2[x].search, nm)
    BY <2>1, InScopeUnfold
  <2>5. u \in R => all2[u].up = all[u].up
    BY DEF SameLinks
  <2> HIDE DEF u, n
  <2> QED
    BY <1>2, <2>1, <2>2, <2>3, <2>4, <2>5 DEF u

<1> HIDE DEF n, Good
<1>3. \A x \in 1..n : 1..(x - 1) \subseteq B => x \in B
  BY <1>2
<1> HIDE DEF B
<1>4. 1..n \subseteq B
  BY <1>1, <1>3, CountingInduction
<1>5. s \in 1..n
  BY DEF SameLinks, Closed, n
<1>6. Good(s)
  BY <1>4, <1>5 DEF B
<1> QED
  BY <1>6 DEF Good

\* ... and the symbols declared in it, if each scope has the same symbols.
LEMMA SameDecls ==
  ASSUME NEW all, Links(all), NEW all2, Links(all2), NEW R, SameLinks(all, all2, R),
         \A t \in R : all2[t].syms = all[t].syms,
         NEW s \in R
  PROVE  DeclsIn(all2, s) = DeclsIn(all, s)
<1> DEFINE n == Len(all)
           Good(x) == DeclsIn(all2, x) = DeclsIn(all, x)
           B == {x \in 1..n : x \in R => Good(x)}
<1>1. n \in Nat /\ Len(all2) \in Nat
  BY SeqFacts DEF Links
<1>2. ASSUME NEW x \in 1..n, 1..(x - 1) \subseteq B, x \in R PROVE Good(x)
  <2> DEFINE u == all[x].search
  <2>1. /\ x \in 1..Len(all2) /\ all2[x].up = all[x].up /\ all2[x].search = all[x].search
        /\ all2[x].upUpdates = all[x].upUpdates /\ all2[x].depth = all[x].depth
    BY <1>2 DEF SameLinks
  <2>2. u \in 0..(x - 1) /\ (u = 0 => x = 1) /\ (u # 0 => u \in R)
    BY <1>2 DEF Links, SameLinks, Closed
  <2>3. u # 0 => Good(u)
    BY <1>2, <2>2
  <2>4. /\ DeclsIn(all, x) = ToSet(all[x].syms) \cup
                 (IF u = 0 THEN {} ELSE IF all[u].up # all[x].up THEN {} ELSE DeclsIn(all, u))
        /\ DeclsIn(all2, x) = ToSet(all2[x].syms) \cup
                 (IF all2[x].search = 0 THEN {} ELSE IF all2[all2[x].search].up # all2[x].up THEN {}
                  ELSE DeclsIn(all2, all2[x].search))
    BY <2>1, DeclsUnfold
  <2>5. u \in R => all2[u].up = all[u].up
    BY DEF SameLinks
  <2> HIDE DEF u, n
  <2> QED
    BY <1>2, <2>1, <2>2, <2>3, <2>4, <2>5 DEF u

<1> HIDE DEF n, Good
<1>3. \A x \in 1..n : 1..(x - 1) \subseteq B => x \in B
  BY <1>2
<1> HIDE DEF B
<1>4. 1..n \subseteq B
  BY <1>1, <1>3, CountingInduction
<1>5. s \in 1..n
  BY DEF SameLinks, Closed, n
<1>6. Good(s)
  BY <1>4, <1>5 DEF B
<1> QED
  BY <1>6 DEF Good

\* ... the frames around it.
LEMMA SameAround ==
  ASSUME NEW all, Links(all), Tree(all), NEW all2, Links(all2), Tree(all2), NEW R, SameLinks(all, all2, R),
         NEW s \in R
  PROVE  /\ FrameUpIn(all2, s) = FrameUpIn(all, s)
         /\ AroundIn(all2, s) = AroundIn(all, s)
<1> DEFINE n == Len(all)
           Good(x) == /\ FrameUpIn(all2, x) = FrameUpIn(all, x)
                      /\ AroundIn(all2, x) = AroundIn(all, x)
           B == {x \in 1..n : x \in R => Good(x)}
<1>1. n \in Nat /\ Len(all2) \in Nat
  BY SeqFacts DEF Links
<1>2. ASSUME NEW x \in 1..n, 1..(x - 1) \subseteq B, x \in R PROVE Good(x)
  <2> DEFINE u == FrameUpIn(all, x)
  <2>1. x \in 1..Len(all2) /\ all2[x].up = all[x].up /\ (all[x].up # 0 => all[x].up \in R)
    BY <1>2 DEF SameLinks, Closed
  <2>2. FrameUpIn(all2, x) = u /\ (u # 0 => u \in R)
    BY <2>1, SameFrame DEF FrameUpIn
  <2>3. u \in 0..(x - 1)
    BY FrameUpEarlier
  <2>4. /\ AroundIn(all, x) = IF x = 0 THEN {} ELSE {x} \cup AroundIn(all, u)
        /\ AroundIn(all2, x) = IF x = 0 THEN {} ELSE {x} \cup AroundIn(all2, u)
    <3>1. x \in 0..Len(all) /\ x \in 0..Len(all2)
      BY <1>1, <2>1
    <3> QED
      BY <2>2, <3>1, AroundUnfold
  <2>5. AroundIn(all, 0) = {} /\ AroundIn(all2, 0) = {}
    <3>1. 0 \in 0..Len(all) /\ 0 \in 0..Len(all2)
      BY <1>1
    <3> QED
      BY <3>1, AroundUnfold
  <2>6. u # 0 => Good(u)
    BY <1>2, <2>2, <2>3
  <2> HIDE DEF u, n
  <2> QED
    BY <2>2, <2>4, <2>5, <2>6 DEF u
<1> HIDE DEF n, Good
<1>3. \A x \in 1..n : 1..(x - 1) \subseteq B => x \in B
  BY <1>2
<1> HIDE DEF B
<1>4. 1..n \subseteq B
  BY <1>1, <1>3, CountingInduction
<1>5. s \in 1..n
  BY DEF SameLinks, Closed, n
<1>6. Good(s)
  BY <1>4, <1>5 DEF B
<1> QED
  BY <1>6 DEF Good

-----------------------------------------------------------------------------
(* The lists of a scope.                                                   *)

\* The first at one of some indices.
LEMMA EarliestFacts ==
  ASSUME NEW q, IsSeq(q), NEW I, I \subseteq DOMAIN q
  PROVE  /\ I = {} => Earliest(q, I) = NotFound
         /\ I # {} => \E k \in I : Earliest(q, I) = q[k]
<1>1. I \subseteq Nat
  BY SeqFacts
<1>2. I # {} => MinOf(I) \in I
  BY <1>1, MinExists
<1> QED
  BY <1>2 DEF Earliest

\* The list r is q with e more at its head.
Longer(r, e, q) ==
  IsSeq(r) /\ IsSeq(q) /\ Len(r) = 1 + Len(q) /\ r[1] = e /\ \A k \in 1..Len(q) : r[1 + k] = q[k]

\* A list with an element more put before it.
LEMMA PutFirst ==
  ASSUME NEW q, IsSeq(q), NEW e
  PROVE  Longer(<<e>> \o q, e, q) /\ ToSet(<<e>> \o q) = {e} \cup ToSet(q)
<1> DEFINE r == <<e>>
           u == r \o q
<1>1. IsSeq(r) /\ Len(r) = 1 /\ r[1] = e /\ ToSet(r) = {e}
  BY SingleFacts
<1>2. Len(q) \in Nat
  BY SeqFacts
<1> HIDE DEF r
<1>3. /\ IsSeq(u) /\ Len(u) = Len(r) + Len(q) /\ ToSet(u) = ToSet(r) \cup ToSet(q)
      /\ \A i \in 1..(Len(r) + Len(q)) : u[i] = IF i <= Len(r) THEN r[i] ELSE q[i - Len(r)]
  BY <1>1, ConcatFacts
<1> HIDE DEF u
<1>4. u[1] = e
  BY <1>1, <1>2, <1>3
<1>5. ASSUME NEW k \in 1..Len(q) PROVE u[1 + k] = q[k]
  <2>1. 1 + k \in 1..(Len(r) + Len(q)) /\ ~(1 + k <= Len(r)) /\ (1 + k) - Len(r) = k
    BY <1>1, <1>2
  <2> QED
    BY <1>3, <2>1
<1> QED
  BY <1>1, <1>3, <1>4, <1>5 DEF Longer, u, r

\* ... of a list with an element more at its head.
LEMMA EarliestOfLonger ==
  ASSUME NEW q, NEW e, NEW r, Longer(r, e, q), NEW I, I \subseteq DOMAIN q, NEW J, J \subseteq DOMAIN r,
         \A k \in DOMAIN q : k + 1 \in J <=> k \in I
  PROVE  Earliest(r, J) = IF 1 \in J THEN e ELSE Earliest(q, I)
<1>1. Len(q) \in Nat /\ DOMAIN q = 1..Len(q)
  BY SeqFacts DEF Longer
<1>3. IsSeq(r) /\ Len(r) = 1 + Len(q) /\ r[1] = e /\ \A k \in 1..Len(q) : r[1 + k] = q[k]
  BY DEF Longer
<1>4. DOMAIN r = 1..(Len(q) + 1)
  BY <1>1, <1>3, SeqFacts
<1>5. J \subseteq 1..(Len(q) + 1)
  BY <1>4
<1>6. J \subseteq Nat /\ I \subseteq Nat /\ \A k \in I : k \in 1..Len(q)
  BY <1>1, <1>5
<1>7. CASE 1 \in J
  <2>1. MinOf(J) \in J /\ \A k \in J : MinOf(J) <= k
    BY <1>6, <1>7, MinExists
  <2>2. MinOf(J) = 1
    <3>1. MinOf(J) \in 1..(Len(q) + 1) /\ MinOf(J) <= 1
      BY <1>5, <1>7, <2>1
    <3> QED
      BY <1>1, <3>1
  <2> QED
    BY <1>3, <1>7, <2>2 DEF Earliest
<1>8. CASE 1 \notin J
  <2>1. \A k \in J : k - 1 \in I /\ k = k - 1 + 1
    <3>1. \A k \in J : k - 1 \in 1..Len(q) /\ k = k - 1 + 1
      <4>1. \A k \in J : k \in 1..(Len(q) + 1) /\ k # 1
        BY <1>5, <1>8
      <4> QED
        BY <1>1, <4>1
    <3>2. TAKE k \in J
    <3>3. k - 1 \in DOMAIN q /\ k - 1 + 1 \in J
      BY <1>1, <3>1
    <3> QED
      BY <3>1, <3>3
  <2>2. \A k \in I : k + 1 \in J
    BY <1>1
  <2>3. CASE I = {}
    <3>1. J = {}
      BY <2>1, <2>3
    <3> QED
      BY <1>8, <2>3, <3>1 DEF Earliest
  <2>4. CASE I # {}
    <3>1. J # {}
      BY <2>2, <2>4
    <3>2. MinOf(J) \in J /\ \A k \in J : MinOf(J) <= k
      BY <1>6, <3>1, MinExists
    <3>3. MinOf(I) \in I /\ \A k \in I : MinOf(I) <= k
      BY <1>6, <2>4, MinExists
    <3>4. MinOf(I) = MinOf(J) - 1
      <4>1. MinOf(J) - 1 \in I /\ MinOf(I) + 1 \in J
        BY <2>1, <2>2, <3>2, <3>3
      <4>2. MinOf(I) <= MinOf(J) - 1 /\ MinOf(J) <= MinOf(I) + 1
        BY <3>2, <3>3, <4>1
      <4>3. MinOf(I) \in Nat /\ MinOf(J) \in Nat
        BY <1>6, <3>2, <3>3
      <4> QED
        BY <4>2, <4>3
    <3>5. r[MinOf(J)] = q[MinOf(I)]
      <4>0. MinOf(I) \in 1..Len(q) /\ MinOf(J) \in Nat
        BY <1>6, <3>2, <3>3
      <4>1. MinOf(I) \in 1..Len(q) /\ MinOf(J) = 1 + MinOf(I)
        BY <3>4, <4>0
      <4> QED
        BY <1>3, <4>1
    <3> QED
      BY <1>8, <2>4, <3>1, <3>5 DEF Earliest
  <2> QED
    BY <2>3, <2>4
<1> QED
  BY <1>7, <1>8

\* The symbol a scope has under a name,
LEMMA SymOfFacts ==
  ASSUME NEW all, NEW y, Content(all, y), NEW s \in 1..Len(all), NEW nm
  PROVE  LET x == SymOf(all, y, s, nm)
         IN  /\ x # NotFound => x \in ToSet(all[s].syms) /\ x \in 1..Len(y) /\ y[x].name = nm
             /\ x = NotFound => \A z \in ToSet(all[s].syms) : y[z].name # nm
<1> DEFINE q == all[s].syms
           I == {k \in DOMAIN q : y[q[k]].name = nm}
<1>1. IsSeq(q) /\ ToSet(q) \subseteq 1..Len(y) /\ I \subseteq DOMAIN q
  BY DEF Content
<1>2. SymOf(all, y, s, nm) = Earliest(q, I)
  BY DEF SymOf
<1> HIDE DEF I, q
<1>3. /\ I = {} => Earliest(q, I) = NotFound
      /\ I # {} => \E k \in I : Earliest(q, I) = q[k]
  BY <1>1, EarliestFacts
<1>4. CASE I = {}
  <2>1. \A z \in ToSet(q) : y[z].name # nm
    BY <1>4 DEF I, ToSet
  <2> QED
    BY <1>2, <1>3, <1>4, <2>1 DEF q
<1>5. CASE I # {}
  <2>1. PICK k \in I : Earliest(q, I) = q[k]
    BY <1>3, <1>5
  <2>2. k \in DOMAIN q /\ y[q[k]].name = nm
    BY DEF I
  <2>3. q[k] \in ToSet(q)
    BY <2>2 DEF ToSet
  <2>4. q[k] \in 1..Len(y) /\ q[k] # 0
    BY <1>1, <2>3
  <2> QED
    BY <1>2, <2>1, <2>2, <2>3, <2>4 DEF NotFound, q
<1> QED
  BY <1>4, <1>5

\* and the update it has of a symbol.
LEMMA UpdateOfFacts ==
  ASSUME NEW all, NEW y, Content(all, y), NEW s \in 1..Len(all), NEW o
  PROVE  LET u == UpdateOf(all, y, s, o)
         IN  /\ u # NotFound => u \in ToSet(all[s].updates) /\ u \in 1..Len(y) /\ y[u].of = o
             /\ u = NotFound => \A z \in ToSet(all[s].updates) : y[z].of # o
<1> DEFINE q == all[s].updates
           I == {k \in DOMAIN q : y[q[k]].of = o}
<1>1. IsSeq(q) /\ ToSet(q) \subseteq 1..Len(y) /\ I \subseteq DOMAIN q
  BY DEF Content
<1>2. UpdateOf(all, y, s, o) = Earliest(q, I)
  BY DEF UpdateOf
<1> HIDE DEF I, q
<1>3. /\ I = {} => Earliest(q, I) = NotFound
      /\ I # {} => \E k \in I : Earliest(q, I) = q[k]
  BY <1>1, EarliestFacts
<1>4. CASE I = {}
  <2>1. \A z \in ToSet(q) : y[z].of # o
    BY <1>4 DEF I, ToSet
  <2> QED
    BY <1>2, <1>3, <1>4, <2>1 DEF q
<1>5. CASE I # {}
  <2>1. PICK k \in I : Earliest(q, I) = q[k]
    BY <1>3, <1>5
  <2>2. k \in DOMAIN q /\ y[q[k]].of = o
    BY DEF I
  <2>3. q[k] \in ToSet(q)
    BY <2>2 DEF ToSet
  <2>4. q[k] \in 1..Len(y) /\ q[k] # 0
    BY <1>1, <2>3
  <2> QED
    BY <1>2, <2>1, <2>2, <2>3, <2>4 DEF NotFound, q
<1> QED
  BY <1>4, <1>5

\* A scope with the same symbols, of the same names, has the same symbol under each name,
LEMMA SameSymOf ==
  ASSUME NEW all, NEW y, Content(all, y), NEW s \in 1..Len(all), NEW all2, NEW y2, NEW nm,
         all2[s].syms = all[s].syms, \A x \in ToSet(all[s].syms) : y2[x].name = y[x].name
  PROVE  SymOf(all2, y2, s, nm) = SymOf(all, y, s, nm)
<1> DEFINE q == all[s].syms
<1>1. \A k \in DOMAIN q : y2[q[k]].name = y[q[k]].name
  BY DEF ToSet
<1>2. {k \in DOMAIN q : y2[q[k]].name = nm} = {k \in DOMAIN q : y[q[k]].name = nm}
  BY <1>1
<1> QED
  BY <1>2 DEF SymOf

\* and with the same updates the same update of each symbol.
LEMMA SameUpdateOf ==
  ASSUME NEW all, NEW y, Content(all, y), NEW s \in 1..Len(all), NEW all2, NEW y2, NEW o,
         all2[s].updates = all[s].updates, \A x \in ToSet(all[s].updates) : y2[x].of = y[x].of
  PROVE  UpdateOf(all2, y2, s, o) = UpdateOf(all, y, s, o)
<1> DEFINE q == all[s].updates
<1>1. \A k \in DOMAIN q : y2[q[k]].of = y[q[k]].of
  BY DEF ToSet
<1>2. {k \in DOMAIN q : y2[q[k]].of = o} = {k \in DOMAIN q : y[q[k]].of = o}
  BY <1>1
<1> QED
  BY <1>2 DEF UpdateOf

\* A scope with a symbol more has that one under its name.
LEMMA LongerSymOf ==
  ASSUME NEW all, NEW y, Content(all, y), NEW s \in 1..Len(all), NEW all2, NEW y2, NEW nm, NEW z,
         Longer(all2[s].syms, z, all[s].syms), \A x \in ToSet(all[s].syms) : y2[x].name = y[x].name
  PROVE  SymOf(all2, y2, s, nm) = IF y2[z].name = nm THEN z ELSE SymOf(all, y, s, nm)
<1> DEFINE q == all[s].syms
           r == all2[s].syms
           I == {k \in DOMAIN q : y[q[k]].name = nm}
           J == {k \in DOMAIN r : y2[r[k]].name = nm}
<1>1. IsSeq(q) /\ Len(q) \in Nat /\ DOMAIN q = 1..Len(q)
  BY SeqFacts DEF Content
<1>3. IsSeq(r) /\ Len(r) = 1 + Len(q) /\ r[1] = z /\ \A k \in 1..Len(q) : r[1 + k] = q[k]
  BY DEF Longer
<1> HIDE DEF q
<1>4. DOMAIN r = 1..(1 + Len(q))
  BY <1>3, SeqFacts
<1> HIDE DEF r
<1>5. \A k \in DOMAIN q : y2[q[k]].name = y[q[k]].name
  BY DEF ToSet, q
<1>6. \A k \in DOMAIN q : k + 1 \in J <=> k \in I
  <2>1. TAKE k \in DOMAIN q
  <2>2. k + 1 \in DOMAIN r /\ r[k + 1] = q[k]
    BY <1>1, <1>3, <1>4
  <2> QED
    BY <1>5, <2>2
<1>7. 1 \in J <=> y2[z].name = nm
  BY <1>1, <1>3, <1>4
<1>8. I \subseteq DOMAIN q /\ J \subseteq DOMAIN r
  OBVIOUS
<1>9. SymOf(all, y, s, nm) = Earliest(q, I) /\ SymOf(all2, y2, s, nm) = Earliest(r, J)
  BY DEF SymOf, q, r
<1> HIDE DEF I, J
<1>10. Earliest(r, J) = IF 1 \in J THEN z ELSE Earliest(q, I)
  <2>1. Longer(r, z, q)
    BY <1>1, <1>3 DEF Longer
  <2> QED
    BY <1>6, <1>8, <2>1, EarliestOfLonger
<1> QED
  BY <1>7, <1>9, <1>10

\* A scope with an update more has that one of its symbol.
LEMMA LongerUpdateOf ==
  ASSUME NEW all, NEW y, Content(all, y), NEW s \in 1..Len(all), NEW all2, NEW y2, NEW o, NEW z,
         Longer(all2[s].updates, z, all[s].updates), \A x \in ToSet(all[s].updates) : y2[x].of = y[x].of
  PROVE  UpdateOf(all2, y2, s, o) = IF y2[z].of = o THEN z ELSE UpdateOf(all, y, s, o)
<1> DEFINE q == all[s].updates
           r == all2[s].updates
           I == {k \in DOMAIN q : y[q[k]].of = o}
           J == {k \in DOMAIN r : y2[r[k]].of = o}
<1>1. IsSeq(q) /\ Len(q) \in Nat /\ DOMAIN q = 1..Len(q)
  BY SeqFacts DEF Content
<1>3. IsSeq(r) /\ Len(r) = 1 + Len(q) /\ r[1] = z /\ \A k \in 1..Len(q) : r[1 + k] = q[k]
  BY DEF Longer
<1> HIDE DEF q
<1>4. DOMAIN r = 1..(1 + Len(q))
  BY <1>3, SeqFacts
<1> HIDE DEF r
<1>5. \A k \in DOMAIN q : y2[q[k]].of = y[q[k]].of
  BY DEF ToSet, q
<1>6. \A k \in DOMAIN q : k + 1 \in J <=> k \in I
  <2>1. TAKE k \in DOMAIN q
  <2>2. k + 1 \in DOMAIN r /\ r[k + 1] = q[k]
    BY <1>1, <1>3, <1>4
  <2> QED
    BY <1>5, <2>2
<1>7. 1 \in J <=> y2[z].of = o
  BY <1>1, <1>3, <1>4
<1>8. I \subseteq DOMAIN q /\ J \subseteq DOMAIN r
  OBVIOUS
<1>9. UpdateOf(all, y, s, o) = Earliest(q, I) /\ UpdateOf(all2, y2, s, o) = Earliest(r, J)
  BY DEF UpdateOf, q, r
<1> HIDE DEF I, J
<1>10. Earliest(r, J) = IF 1 \in J THEN z ELSE Earliest(q, I)
  <2>1. Longer(r, z, q)
    BY <1>1, <1>3 DEF Longer
  <2> QED
    BY <1>6, <1>8, <2>1, EarliestOfLonger
<1> QED
  BY <1>7, <1>9, <1>10

-----------------------------------------------------------------------------
(* What the lookups find.                                                  *)

\* The chain within a frame ends at the frame.
LEMMA FrameEnds ==
  ASSUME NEW all, Links(all), Tree(all), NEW s \in 1..Len(all)
  PROVE  /\ IsFrame(all, s) => all[s].search = 0 \/ all[all[s].search].up # all[s].up
         /\ ~IsFrame(all, s) => /\ all[s].search \in 1..(s - 1) /\ all[s].search \in 1..Len(all)
                                /\ all[all[s].search].up = all[s].up
                                /\ FrameIn(all, s) = FrameIn(all, all[s].search)
<1>1. Len(all) \in Nat /\ all[s].search \in 0..(s - 1) /\ all[s].up \in 0..(s - 1)
  BY SeqFacts DEF Links
<1>2. FrameIn(all, s) = IF all[s].search = all[s].up THEN s ELSE FrameIn(all, all[s].search)
  BY FrameUnfold
<1>3. CASE IsFrame(all, s)
  <2>1. all[s].search # 0 => all[s].search \in 1..Len(all)
    BY <1>1
  <2>2. all[s].search # 0 => all[all[s].search].up \in 0..(all[s].search - 1)
    BY <2>1 DEF Links
  <2>3. all[s].search # 0 => all[all[s].search].up # all[s].search
    BY <1>1, <2>2
  <2> QED
    BY <1>3, <2>3 DEF IsFrame
<1>4. CASE ~IsFrame(all, s)
  <2>1. s # 1 /\ all[s].search # all[s].up
    BY <1>4 DEF Links, IsFrame
  <2>2. all[s].search \in 1..(s - 1) /\ all[s].search \in 1..Len(all) /\ s \in 2..Len(all)
    BY <1>1, <2>1 DEF Links
  <2>3. all[all[s].search].up = all[s].up
    BY <2>1, <2>2 DEF Tree
  <2> QED
    BY <1>2, <1>4, <2>1, <2>2, <2>3
<1> QED
  BY <1>3, <1>4

\* A symbol of the chain within a frame is declared in a scope of that frame.
LEMMA DeclsFacts ==
  ASSUME NEW all, Links(all), Tree(all), NEW s \in 1..Len(all), NEW x \in DeclsIn(all, s)
  PROVE  \E t \in 1..s : x \in ToSet(all[t].syms) /\ FrameIn(all, t) = FrameIn(all, s)
<1> DEFINE n == Len(all)
           Good(z) == \A e \in DeclsIn(all, z) :
                        \E t \in 1..z : e \in ToSet(all[t].syms) /\ FrameIn(all, t) = FrameIn(all, z)
           B == {z \in 1..n : Good(z)}
<1>1. n \in Nat
  BY SeqFacts DEF Links
<1>2. ASSUME NEW z \in 1..n, 1..(z - 1) \subseteq B PROVE Good(z)
  <2> DEFINE u == all[z].search
  <2>1. DeclsIn(all, z) = ToSet(all[z].syms) \cup
          (IF u = 0 THEN {} ELSE IF all[u].up # all[z].up THEN {} ELSE DeclsIn(all, u))
    BY DeclsUnfold
  <2>2. z \in 1..z
    BY <1>1
  <2>3. CASE IsFrame(all, z)
    <3>1. u = 0 \/ all[u].up # all[z].up
      BY <2>3, FrameEnds
    <3> QED
      BY <2>1, <2>2, <3>1
  <2>4. CASE ~IsFrame(all, z)
    <3>1. u \in 1..(z - 1) /\ FrameIn(all, z) = FrameIn(all, u)
      BY <2>4, FrameEnds
    <3>2. Good(u)
      BY <1>2, <3>1
    <3> HIDE DEF u, n
    <3>3. 1..u \subseteq 1..z
      BY <1>1, <3>1
    <3>4. TAKE e \in DeclsIn(all, z)
    <3>5. CASE e \in ToSet(all[z].syms)
      BY <2>2, <3>5
    <3>6. CASE e \in DeclsIn(all, u)
      BY <3>1, <3>2, <3>3, <3>6
    <3> QED
      BY <2>1, <3>5, <3>6
  <2> QED
    BY <2>3, <2>4
<1> HIDE DEF n, Good
<1>3. \A z \in 1..n : 1..(z - 1) \subseteq B => z \in B
  BY <1>2
<1> HIDE DEF B
<1>4. 1..n \subseteq B
  BY <1>1, <1>3, CountingInduction
<1>5. Good(s)
  BY <1>4 DEF B, n
<1> QED
  BY <1>5 DEF Good

\* find_D_Sym_in_Scope finds a symbol of the chain within the frame, if there is one of that
\* name,
LEMMA InScopeFacts ==
  ASSUME NEW all, Links(all), Tree(all), NEW y, Content(all, y), NEW s \in 1..Len(all), NEW nm
  PROVE  LET x == InScopeIn(all, y, s, nm)
         IN  /\ x # NotFound => x \in DeclsIn(all, s) /\ x \in 1..Len(y) /\ y[x].name = nm
             /\ x = NotFound => \A z \in DeclsIn(all, s) : y[z].name # nm
<1> DEFINE n == Len(all)
           Good(z) == LET x == InScopeIn(all, y, z, nm)
                      IN  /\ x # NotFound => x \in DeclsIn(all, z) /\ x \in 1..Len(y) /\ y[x].name = nm
                          /\ x = NotFound => \A e \in DeclsIn(all, z) : y[e].name # nm
           B == {z \in 1..n : Good(z)}
<1>1. n \in Nat
  BY SeqFacts DEF Links
<1>2. ASSUME NEW z \in 1..n, 1..(z - 1) \subseteq B PROVE Good(z)
  <2> DEFINE u == all[z].search
             own == SymOf(all, y, z, nm)
  <2>1. DeclsIn(all, z) = ToSet(all[z].syms) \cup
          (IF u = 0 THEN {} ELSE IF all[u].up # all[z].up THEN {} ELSE DeclsIn(all, u))
    BY DeclsUnfold
  <2>2. InScopeIn(all, y, z, nm) = IF own # NotFound THEN own
          ELSE IF u = 0 THEN NotFound ELSE IF all[u].up # all[z].up THEN NotFound
          ELSE InScopeIn(all, y, u, nm)
    BY InScopeUnfold
  <2>3. /\ own # NotFound => own \in ToSet(all[z].syms) /\ own \in 1..Len(y) /\ y[own].name = nm
        /\ own = NotFound => \A e \in ToSet(all[z].syms) : y[e].name # nm
    BY SymOfFacts
  <2>4. u \in 0..(z - 1)
    BY DEF Links
  <2>5. u # 0 => Good(u)
    BY <1>2, <2>4
  <2> HIDE DEF own, u, n
  <2> QED
    BY <2>1, <2>2, <2>3, <2>5
<1> HIDE DEF n, Good
<1>3. \A z \in 1..n : 1..(z - 1) \subseteq B => z \in B
  BY <1>2
<1> HIDE DEF B
<1>4. 1..n \subseteq B
  BY <1>1, <1>3, CountingInduction
<1>5. Good(s)
  BY <1>4 DEF B, n
<1> QED
  BY <1>5 DEF Good

\* and find_D_Sym goes on in the scope around the frame.
LEMMA FindByFrame ==
  ASSUME NEW all, Links(all), Tree(all), NEW y, NEW s \in 1..Len(all), NEW nm
  PROVE  FindIn(all, y, s, nm) = IF InScopeIn(all, y, s, nm) # NotFound THEN InScopeIn(all, y, s, nm)
                                 ELSE IF all[s].up = 0 THEN NotFound ELSE FindIn(all, y, all[s].up, nm)
<1> DEFINE n == Len(all)
           Good(z) == FindIn(all, y, z, nm) =
                        IF InScopeIn(all, y, z, nm) # NotFound THEN InScopeIn(all, y, z, nm)
                        ELSE IF all[z].up = 0 THEN NotFound ELSE FindIn(all, y, all[z].up, nm)
           B == {z \in 1..n : Good(z)}
<1>1. n \in Nat
  BY SeqFacts DEF Links
<1>2. ASSUME NEW z \in 1..n, 1..(z - 1) \subseteq B PROVE Good(z)
  <2> DEFINE u == all[z].search
             own == SymOf(all, y, z, nm)
  <2>1. z \in 0..n /\ z # 0 /\ 0 \in 0..n
    BY <1>1
  <2>2. InScopeIn(all, y, z, nm) = IF own # NotFound THEN own
          ELSE IF u = 0 THEN NotFound ELSE IF all[u].up # all[z].up THEN NotFound
          ELSE InScopeIn(all, y, u, nm)
    BY InScopeUnfold
  <2>3. FindIn(all, y, z, nm) = IF z = 0 THEN NotFound ELSE IF own # NotFound THEN own ELSE FindIn(all, y, u, nm)
    BY <2>1, FindUnfold
  <2>4. FindIn(all, y, 0, nm) = NotFound
    BY <2>1, FindUnfold
  <2>5. CASE IsFrame(all, z)
    <3>1. u = 0 \/ all[u].up # all[z].up
      BY <2>5, FrameEnds
    <3>2. u = all[z].up
      BY <2>5 DEF IsFrame
    <3> HIDE DEF own, u
    <3> QED
      BY <2>1, <2>2, <2>3, <2>4, <3>1, <3>2
  <2>6. CASE ~IsFrame(all, z)
    <3>1. u \in 1..(z - 1) /\ all[u].up = all[z].up
      BY <2>6, FrameEnds
    <3>2. Good(u) /\ u # 0
      BY <1>2, <3>1
    <3> HIDE DEF own, u
    <3> QED
      BY <2>1, <2>2, <2>3, <3>1, <3>2
  <2> QED
    BY <2>5, <2>6
<1> HIDE DEF n, Good
<1>3. \A z \in 1..n : 1..(z - 1) \subseteq B => z \in B
  BY <1>2
<1> HIDE DEF B
<1>4. 1..n \subseteq B
  BY <1>1, <1>3, CountingInduction
<1>5. Good(s)
  BY <1>4 DEF B, n
<1> QED
  BY <1>5 DEF Good

\* The version of a symbol is the symbol or an update of it.
LEMMA VersionFacts ==
  ASSUME NEW all, Links(all), NEW y, Content(all, y), NEW s \in 0..Len(all), NEW o \in 1..Len(y)
  PROVE  LET x == VersionIn(all, y, s, o) IN x \in 1..Len(y) /\ (x = o \/ y[x].of = o)
<1> DEFINE n == Len(all)
           Good(z) == LET x == VersionIn(all, y, z, o) IN x \in 1..Len(y) /\ (x = o \/ y[x].of = o)
           B == {z \in 1..n : Good(z)}
<1>1. n \in Nat
  BY SeqFacts DEF Links
<1>2. Good(0)
  <2>1. 0 \in 0..n
    BY <1>1
  <2>2. VersionIn(all, y, 0, o) = o
    BY <2>1, VersionUnfold
  <2> QED
    BY <2>2
<1>3. ASSUME NEW z \in 1..n, 1..(z - 1) \subseteq B PROVE Good(z)
  <2> DEFINE u == all[z].upUpdates
             own == UpdateOf(all, y, z, o)
  <2>1. z \in 0..n
    BY <1>1
  <2>2. VersionIn(all, y, z, o) = IF z = 0 THEN o ELSE IF own # NotFound THEN own ELSE VersionIn(all, y, u, o)
    BY <2>1, VersionUnfold
  <2>3. own # NotFound => own \in 1..Len(y) /\ y[own].of = o
    BY UpdateOfFacts
  <2>4. u \in 0..(z - 1)
    BY DEF Links
  <2>5. Good(u)
    BY SMTT(30), <1>2, <1>3, <2>4
  <2> HIDE DEF own, u, n
  <2> QED
    BY <2>2, <2>3, <2>5
<1> HIDE DEF n, Good
<1>4. \A z \in 1..n : 1..(z - 1) \subseteq B => z \in B
  BY <1>3
<1> HIDE DEF B
<1>5. 1..n \subseteq B
  BY <1>1, <1>4, CountingInduction
<1>6. Good(s)
  <2>1. s = 0 \/ s \in 1..n
    BY <1>1 DEF n
  <2> QED
    BY <1>2, <1>5, <2>1 DEF B
<1> QED
  BY <1>6 DEF Good

-----------------------------------------------------------------------------
(* The walks of View.                                                      *)

\* The frames of a view, numbered up to m, are in older ones.
Rooted(v, m) ==
  /\ DOMAIN v.parent \subseteq 1..m
  /\ \A h \in DOMAIN v.parent : v.parent[h] \in DOMAIN v.parent \cup {0} /\ v.parent[h] \in 0..(h - 1)

\* The innermost frame that declares a name is the first one from a frame outwards.
LEMMA DeclaringUnfold ==
  ASSUME NEW m \in Nat, NEW v, Rooted(v, m), NEW nm, NEW h \in DOMAIN v.parent \cup {0}
  PROVE  Views!Declaring(v, h, nm) =
           IF h = 0 THEN 0 ELSE IF v.vals[h][nm] # <<>> THEN h ELSE Views!Declaring(v, v.parent[h], nm)
<1> DEFINE D == DOMAIN v.parent
           stops == {t \in 0..m : t \notin D \/ v.vals[t][nm] # <<>>}
           next == [t \in 0..m |-> v.parent[t]]
           base == [t \in 0..m |-> t]
           IsWalk(f) == f = [t \in D \cup {0} |-> IF t = 0 \/ v.vals[t][nm] # <<>> THEN t ELSE f[v.parent[t]]]
           walk == CHOOSE f : IsWalk(f)
<1>1. D \subseteq 1..m /\ \A t \in D : v.parent[t] \in D \cup {0} /\ v.parent[t] \in 0..(t - 1)
  BY DEF Rooted
<1>2. \E f : IsWalk(f)
  <2>1. Earlier(0, m, stops, next)
    <3> HIDE DEF D
    <3>1. \A t \in 0..m : t \notin stops => t \in D
      OBVIOUS
    <3> HIDE DEF stops
    <3>2. \A t \in 0..m : t \notin stops => next[t] \in 0..(t - 1)
      BY <1>1, <3>1
    <3> HIDE DEF next
    <3> QED
      BY <3>2 DEF Earlier
  <2> HIDE DEF stops, next, base, D
  <2>2. Trailing(0, m, stops, next, base)
    BY <2>1, TrailingExists
  <2>3. PICK f : f = [t \in 0..m |-> IF t \in stops THEN base[t] ELSE f[next[t]]]
    BY <2>2 DEF Trailing
  <2> DEFINE g == [t \in D \cup {0} |-> f[t]]
  <2>4. D \cup {0} \subseteq 0..m /\ 0 \notin D
    BY <1>1
  <2>5. ASSUME NEW t \in D \cup {0}
        PROVE  g[t] = IF t = 0 \/ v.vals[t][nm] # <<>> THEN t ELSE g[v.parent[t]]
    <3>1. t \in 0..m
      BY <2>4
    <3>2. CASE t = 0 \/ v.vals[t][nm] # <<>>
      <4>1. t \in stops
        BY <2>4, <3>1, <3>2 DEF stops
      <4>2. f[t] = t
        BY <2>3, <3>1, <4>1 DEF base
      <4> QED
        BY <3>2, <4>2
    <3>3. CASE ~(t = 0 \/ v.vals[t][nm] # <<>>)
      <4>1. t \in D /\ t \notin stops
        BY <3>1, <3>3 DEF stops
      <4>2. f[t] = f[v.parent[t]]
        BY <2>3, <3>1, <4>1 DEF next
      <4>3. v.parent[t] \in D \cup {0}
        BY <1>1, <4>1
      <4> QED
        BY <3>3, <4>2, <4>3
    <3> QED
      BY <3>2, <3>3
  <2>6. g = [t \in D \cup {0} |-> g[t]]
    OBVIOUS
  <2> HIDE DEF g
  <2>7. IsWalk(g)
    BY <2>5, <2>6
  <2> QED
    BY <2>7
<1>3. IsWalk(walk)
  BY <1>2
<1>4. \A t : Views!Declaring(v, t, nm) = walk[t]
  BY DEF Views!Declaring, Views!None
<1> HIDE DEF walk
<1>5. walk[h] = IF h = 0 \/ v.vals[h][nm] # <<>> THEN h ELSE walk[v.parent[h]]
  BY <1>3
<1> QED
  BY <1>4, <1>5

\* The frames around a frame of a view.
LEMMA ViewAroundUnfold ==
  ASSUME NEW m \in Nat, NEW v, Rooted(v, m), NEW h \in DOMAIN v.parent \cup {0}
  PROVE  Views!Around(v, h) = IF h = 0 THEN {} ELSE {h} \cup Views!Around(v, v.parent[h])
<1> DEFINE D == DOMAIN v.parent
           stops == {t \in 0..m : t \notin D}
           next == [t \in 0..m |-> v.parent[t]]
           base == [t \in 0..m |-> IF t = 0 THEN {} ELSE {t}]
           IsWalk(f) == f = [t \in D \cup {0} |-> IF t = 0 THEN {} ELSE {t} \cup f[v.parent[t]]]
           walk == CHOOSE f : IsWalk(f)
<1>1. D \subseteq 1..m /\ \A t \in D : v.parent[t] \in D \cup {0} /\ v.parent[t] \in 0..(t - 1)
  BY DEF Rooted
<1>2. \E f : IsWalk(f)
  <2>1. Earlier(0, m, stops, next)
    <3> HIDE DEF D
    <3>1. \A t \in 0..m : t \notin stops => t \in D
      OBVIOUS
    <3> HIDE DEF stops
    <3>2. \A t \in 0..m : t \notin stops => next[t] \in 0..(t - 1)
      BY <1>1, <3>1
    <3> HIDE DEF next
    <3> QED
      BY <3>2 DEF Earlier
  <2> HIDE DEF stops, next, base, D
  <2>2. Gathering(0, m, stops, next, base)
    BY <2>1, GatheringExists
  <2>3. PICK f : f = [t \in 0..m |-> base[t] \cup (IF t \in stops THEN {} ELSE f[next[t]])]
    BY <2>2 DEF Gathering
  <2> DEFINE g == [t \in D \cup {0} |-> f[t]]
  <2>4. D \cup {0} \subseteq 0..m /\ 0 \notin D
    BY <1>1
  <2>5. ASSUME NEW t \in D \cup {0}
        PROVE  g[t] = IF t = 0 THEN {} ELSE {t} \cup g[v.parent[t]]
    <3>1. t \in 0..m /\ f[t] = base[t] \cup (IF t \in stops THEN {} ELSE f[next[t]])
      BY <2>3, <2>4
    <3>2. CASE t = 0
      <4>1. t \in stops /\ base[t] = {}
        BY <2>4, <3>1, <3>2 DEF stops, base
      <4>2. f[t] = {}
        BY <3>1, <4>1
      <4> QED
        BY <3>2, <4>2
    <3>3. CASE t # 0
      <4>1. t \in D /\ t \notin stops /\ base[t] = {t} /\ next[t] = v.parent[t]
        BY <3>1, <3>3 DEF stops, base, next
      <4>2. f[t] = {t} \cup f[v.parent[t]]
        BY <3>1, <4>1
      <4>3. v.parent[t] \in D \cup {0}
        BY <1>1, <4>1
      <4> QED
        BY <3>3, <4>2, <4>3
    <3> QED
      BY <3>2, <3>3
  <2>6. g = [t \in D \cup {0} |-> g[t]]
    OBVIOUS
  <2> HIDE DEF g
  <2>7. IsWalk(g)
    BY <2>5, <2>6
  <2> QED
    BY <2>7
<1>3. IsWalk(walk)
  BY <1>2
<1>4. \A t : Views!Around(v, t) = walk[t]
  BY DEF Views!Around
<1> HIDE DEF walk
<1>5. walk[h] = IF h = 0 THEN {} ELSE {h} \cup walk[v.parent[h]]
  BY <1>3
<1> QED
  BY <1>4, <1>5

-----------------------------------------------------------------------------
(* The operators of the actions, for the table of a state.                 *)

\* Nothing but the table is read by the lookups,
LEMMA LookupsOfTable ==
  /\ \A st : Frame(st) = FrameIn(sc, st)
  /\ \A f : FrameUp(f) = FrameUpIn(sc, f)
  /\ \A f : FramesAround(f) = AroundIn(sc, f)
  /\ \A st : GlobalScope(st) = GlobalIn(sc, st)
  /\ \A p : Reach(p) = HistoryIn(sc, at[p].cur)
  /\ \A st, n : FindInScope(st, n) = InScopeIn(sc, sy, st, n)
  /\ \A st, n : Find(st, n) = FindIn(sc, sy, st, n)
  /\ \A st, x : Current(st, x) = CurrentIn(sc, sy, st, x)
<1>1. \A st : Frame(st) = FrameIn(sc, st)
  BY DEF Frame, FrameIn
<1>2. \A f : FrameUp(f) = FrameUpIn(sc, f)
  BY <1>1 DEF FrameUp, FrameUpIn
<1>3. \A f : FramesAround(f) = AroundIn(sc, f)
  BY <1>2 DEF FramesAround, AroundIn
<1>4. \A st : GlobalScope(st) = GlobalIn(sc, st)
  BY DEF GlobalScope, GlobalIn
<1>5. \A p : Reach(p) = HistoryIn(sc, at[p].cur)
  BY DEF Reach, HistoryIn
<1>6. \A st, n : FindInScope(st, n) = InScopeIn(sc, sy, st, n)
  BY DEF FindInScope, InScopeIn, SymIn, SymOf
<1>7. \A st, n : Find(st, n) = FindIn(sc, sy, st, n)
  BY DEF Find, FindIn, SymIn, SymOf
<1>8. \A st, x : Current(st, x) = CurrentIn(sc, sy, st, x)
  BY DEF Current, CurrentIn, VersionIn, UpdateIn, UpdateOf
<1> QED
  BY <1>1, <1>2, <1>3, <1>4, <1>5, <1>6, <1>7, <1>8

\* What a path reads at a frame, and its view.
ValueIn(all, y, a, f, n) ==
  LET x == InScopeIn(all, y, a.saved[f], n)
  IN  IF x = NotFound THEN <<>> ELSE y[CurrentIn(all, y, a.cur, x)].val
ViewIn(all, y, a) ==
  [here   |-> FrameIn(all, a.cur),
   parent |-> [f \in DOMAIN a.saved |-> FrameUpIn(all, f)],
   vals   |-> [f \in DOMAIN a.saved |-> [n \in Names |-> ValueIn(all, y, a, f, n)]]]

\* nor by what a path reads, before a step and after it.
LEMMA ViewOfTable ==
  ASSUME NEW p
  PROVE  ViewOf(p) = ViewIn(sc, sy, at[p]) /\ ViewOf(p)' = ViewIn(sc', sy', at'[p])
<1>1. \A f, n : ValueAt(p, f, n) = ValueIn(sc, sy, at[p], f, n)
  BY LookupsOfTable DEF ValueAt, ValueIn
<1>2. ViewOf(p) = ViewIn(sc, sy, at[p])
  BY <1>1, LookupsOfTable DEF ViewOf, ViewIn
<1>3. /\ \A st : Frame(st)' = FrameIn(sc', st')
      /\ \A f : FrameUp(f)' = FrameUpIn(sc', f')
  <2>1. \A st : Frame(st)' = FrameIn(sc', st')
    BY DEF Frame, FrameIn
  <2> QED
    BY <2>1 DEF FrameUp, FrameUpIn, Frame, FrameIn
<1>4. \A f, n : ValueAt(p, f, n)' = ValueIn(sc', sy', at'[p], f', n')
  BY DEF ValueAt, ValueIn, FindInScope, InScopeIn, SymIn, SymOf, Current, CurrentIn, VersionIn, UpdateIn, UpdateOf
<1>5. ViewOf(p)' = ViewIn(sc', sy', at'[p])
  BY <1>3, <1>4 DEF ViewOf, ViewIn
<1> QED
  BY <1>2, <1>5

\* The view of a path has its frames, and a value where a lookup finds a symbol.
ViewOK(all, y, a) ==
  LET v == ViewIn(all, y, a)
      R == AroundIn(all, FrameIn(all, a.cur))
  IN  /\ v.here = FrameIn(all, a.cur) /\ DOMAIN v.parent = R /\ DOMAIN v.vals = R
      /\ v.here \in R /\ R \subseteq 1..Len(all) /\ 1 \in R
      /\ \A h \in R : /\ v.parent[h] = FrameUpIn(all, h)
                      /\ \A n \in Names : v.vals[h][n] = ValueIn(all, y, a, h, n)
      /\ \A h \in R : \A n :
           LET x == InScopeIn(all, y, a.saved[h], n)
           IN  /\ ValueIn(all, y, a, h, n) # <<>> <=> x # NotFound
               /\ x # NotFound => ValueIn(all, y, a, h, n) = y[CurrentIn(all, y, a.cur, x)].val
      /\ Rooted(v, Len(all))

\* The view of a path that keeps the invariant is such a view.
LEMMA ViewFacts ==
  ASSUME NEW all, Links(all), Tree(all), NEW y, Content(all, y), NEW a, PathOK(all, a)
  PROVE  ViewOK(all, y, a)
<1> DEFINE v == ViewIn(all, y, a)
           here == FrameIn(all, a.cur)
           R == AroundIn(all, here)
<1>1. a.cur \in 1..Len(all) /\ a.saved = [f \in R |-> a.saved[f]] /\ \A f \in R : a.saved[f] \in 1..Len(all)
  BY DEF PathOK
<1>2. IsFrame(all, here) /\ here \in 1..a.cur
  BY <1>1, FrameFacts
<1>3. AroundOK(all, here, R)
  BY <1>2, AroundFacts
<1>4. DOMAIN a.saved = R
  BY <1>1
<1>5. v.here = here /\ DOMAIN v.parent = R /\ DOMAIN v.vals = R
  BY <1>4 DEF ViewIn
<1>6. \A h \in R : v.parent[h] = FrameUpIn(all, h) /\ \A n \in Names : v.vals[h][n] = ValueIn(all, y, a, h, n)
  BY <1>4 DEF ViewIn
<1> HIDE DEF v, here, R
<1>7. here \in R /\ 1 \in R /\ R \subseteq 1..here
  BY <1>3 DEF AroundOK
<1>8. Len(all) \in Nat
  BY SeqFacts DEF Links
<1>9. R \subseteq 1..Len(all)
  BY <1>1, <1>2, <1>7, <1>8
<1>10. ASSUME NEW h \in R, NEW n
       PROVE  LET x == InScopeIn(all, y, a.saved[h], n)
              IN  /\ ValueIn(all, y, a, h, n) # <<>> <=> x # NotFound
                  /\ x # NotFound => ValueIn(all, y, a, h, n) = y[CurrentIn(all, y, a.cur, x)].val
  <2> DEFINE x == InScopeIn(all, y, a.saved[h], n)
             o == IF y[x].of # 0 THEN y[x].of ELSE x
  <2>1. ValueIn(all, y, a, h, n) = IF x = NotFound THEN <<>> ELSE y[CurrentIn(all, y, a.cur, x)].val
    BY DEF ValueIn
  <2>2. CurrentIn(all, y, a.cur, x) = VersionIn(all, y, a.cur, o)
    BY DEF CurrentIn
  <2>3. x # NotFound => x \in 1..Len(y)
    BY <1>1, InScopeFacts
  <2> HIDE DEF x
  <2>4. ASSUME x # NotFound PROVE y[CurrentIn(all, y, a.cur, x)].val # <<>>
    <3>1. Len(y) \in Nat
      BY SeqFacts DEF Content
    <3>2. y[x].of \in 0..Len(y)
      BY <2>3, <2>4 DEF Content
    <3>3. o \in 1..Len(y)
      BY <2>3, <2>4, <3>1, <3>2
    <3> HIDE DEF o
    <3>4. a.cur \in 0..Len(all)
      BY <1>1
    <3>5. VersionIn(all, y, a.cur, o) \in 1..Len(y)
      BY <3>3, <3>4, VersionFacts
    <3> QED
      BY <2>2, <3>5 DEF Content
  <2> QED
    BY <2>1, <2>4 DEF x
<1>11. Rooted(v, Len(all))
  <2>1. ASSUME NEW h \in R PROVE v.parent[h] \in R \cup {0} /\ v.parent[h] \in 0..(h - 1)
    <3>1. FrameUpIn(all, h) \in 0..(h - 1)
      BY <1>9, FrameUpEarlier
    <3>2. h # 1 => FrameUpIn(all, h) \in R
      BY <1>3 DEF AroundOK
    <3>3. h = 1 => FrameUpIn(all, h) = 0
      <4>1. 1 \in 1..Len(all)
        BY <1>7, <1>9
      <4>2. all[1].up \in 0..0
        <5>1. 0..(1 - 1) = 0..0
          OBVIOUS
        <5> QED
          BY <4>1, <5>1 DEF Links
      <4>3. all[1].up = 0
        BY <4>2
      <4> QED
        BY <4>3 DEF FrameUpIn
    <3> QED
      BY <1>6, <3>1, <3>2, <3>3
  <2> QED
    BY <1>5, <1>9, <2>1 DEF Rooted
<1> QED
  BY <1>5, <1>6, <1>7, <1>9, <1>10, <1>11 DEF ViewOK, v, here, R

\* The frames around a frame are those the view has around it,
LEMMA ViewAround ==
  ASSUME NEW all, Links(all), Tree(all), NEW y, NEW a, ViewOK(all, y, a),
         NEW f \in AroundIn(all, FrameIn(all, a.cur))
  PROVE  Views!Around(ViewIn(all, y, a), f) = AroundIn(all, f)
<1> DEFINE v == ViewIn(all, y, a)
           R == AroundIn(all, FrameIn(all, a.cur))
           n == Len(all)
           Good(h) == h \in R => Views!Around(v, h) = AroundIn(all, h)
           B == {h \in 1..n : Good(h)}
<1>1. /\ DOMAIN v.parent = R /\ R \subseteq 1..n /\ Rooted(v, n)
      /\ \A h \in R : v.parent[h] = FrameUpIn(all, h)
  BY DEF ViewOK
<1>2. n \in Nat
  BY SeqFacts DEF Links
<1> HIDE DEF v, R
<1>3. Views!Around(v, 0) = {} /\ AroundIn(all, 0) = {}
  <2>1. 0 \in DOMAIN v.parent \cup {0} /\ 0 \in 0..Len(all)
    BY <1>2
  <2> QED
    BY <1>1, <1>2, <2>1, ViewAroundUnfold, AroundUnfold
<1>4. ASSUME NEW h \in 1..n, 1..(h - 1) \subseteq B PROVE Good(h)
  <2> SUFFICES ASSUME h \in R PROVE Views!Around(v, h) = AroundIn(all, h)
    OBVIOUS
  <2>1. h \in DOMAIN v.parent \cup {0} /\ h \in 0..Len(all) /\ h # 0
    BY <1>1
  <2>2. Views!Around(v, h) = {h} \cup Views!Around(v, v.parent[h])
    BY <1>1, <1>2, <2>1, ViewAroundUnfold
  <2>3. AroundIn(all, h) = {h} \cup AroundIn(all, FrameUpIn(all, h))
    BY <2>1, AroundUnfold
  <2> DEFINE g == FrameUpIn(all, h)
  <2>4. g = v.parent[h] /\ g \in R \cup {0} /\ g \in 0..(h - 1)
    BY <1>1, <2>1 DEF Rooted
  <2> HIDE DEF g
  <2>5. CASE g = 0
    BY <1>3, <2>2, <2>3, <2>4, <2>5 DEF g
  <2>6. CASE g # 0
    <3>1. g \in 1..(h - 1) /\ g \in R
      BY <2>4, <2>6
    <3>2. g \in B
      BY <1>4, <3>1
    <3>3. Views!Around(v, g) = AroundIn(all, g)
      BY <3>1, <3>2
    <3> QED
      BY <2>2, <2>3, <2>4, <3>3 DEF g
  <2> QED
    BY <2>5, <2>6
<1> HIDE DEF n, Good
<1>5. \A h \in 1..n : 1..(h - 1) \subseteq B => h \in B
  BY <1>4
<1> HIDE DEF B
<1>6. 1..n \subseteq B
  BY <1>2, <1>5, CountingInduction
<1>7. f \in R /\ f \in 1..n
  BY <1>1 DEF R
<1>8. f \in B
  BY <1>6, <1>7
<1> QED
  BY <1>7, <1>8 DEF B, Good, v

\* and find_D_Sym, from the saved scope of a frame, finds the symbol of the innermost frame
\* that has a value in the view.
LEMMA FindsDeclaring ==
  ASSUME NEW all, Links(all), Tree(all), NEW y, NEW a, PathOK(all, a), ViewOK(all, y, a),
         NEW f \in AroundIn(all, FrameIn(all, a.cur)), NEW nm \in Names
  PROVE  LET g == Views!Declaring(ViewIn(all, y, a), f, nm)
             x == FindIn(all, y, a.saved[f], nm)
         IN  /\ g = 0 <=> x = NotFound
             /\ g # 0 => g \in AroundIn(all, FrameIn(all, a.cur)) /\ InScopeIn(all, y, a.saved[g], nm) = x
<1> DEFINE v == ViewIn(all, y, a)
           R == AroundIn(all, FrameIn(all, a.cur))
           n == Len(all)
           Holds(h) == LET g == Views!Declaring(v, h, nm)
                           x == FindIn(all, y, a.saved[h], nm)
                       IN  /\ g = 0 <=> x = NotFound
                           /\ g # 0 => g \in R /\ InScopeIn(all, y, a.saved[g], nm) = x
           Good(h) == h \in R => Holds(h)
           B == {h \in 1..n : Good(h)}
<1>1. /\ DOMAIN v.parent = R /\ R \subseteq 1..n /\ Rooted(v, n)
      /\ \A h \in R : /\ v.parent[h] = FrameUpIn(all, h)
                      /\ v.vals[h][nm] # <<>> <=> InScopeIn(all, y, a.saved[h], nm) # NotFound
  BY DEF ViewOK
<1>2. n \in Nat
  BY SeqFacts DEF Links
<1>3. \A h \in R : /\ a.saved[h] \in 1..n /\ FrameIn(all, a.saved[h]) = h
                   /\ h # 1 => all[h].up = a.saved[FrameUpIn(all, h)]
  BY DEF PathOK
<1> HIDE DEF v, R
<1>4. ASSUME NEW h \in 1..n, 1..(h - 1) \subseteq B, h \in R PROVE Holds(h)
  <2>1. h \in DOMAIN v.parent \cup {0} /\ h # 0 /\ a.saved[h] \in 1..Len(all)
    BY <1>1, <1>3, <1>4
  <2> DEFINE x == InScopeIn(all, y, a.saved[h], nm)
             p == v.parent[h]
  <2>2. Views!Declaring(v, h, nm) = IF v.vals[h][nm] # <<>> THEN h ELSE Views!Declaring(v, p, nm)
    BY <1>1, <1>2, <2>1, DeclaringUnfold
  <2>3. FindIn(all, y, a.saved[h], nm) = IF x # NotFound THEN x
                                         ELSE IF all[a.saved[h]].up = 0 THEN NotFound
                                         ELSE FindIn(all, y, all[a.saved[h]].up, nm)
    BY <2>1, FindByFrame
  <2>4. all[a.saved[h]].up = all[h].up /\ IsFrame(all, h)
    BY <1>3, <1>4, <2>1, FrameFacts
  <2>5. all[h].up = 0 <=> h = 1
    BY <2>4, OwnFrame
  <2>6. CASE x # NotFound
    BY <1>1, <1>4, <2>1, <2>2, <2>3, <2>6
  <2>7. CASE x = NotFound
    <3>1. Views!Declaring(v, h, nm) = Views!Declaring(v, p, nm)
      BY <1>1, <1>4, <2>2, <2>7
    <3>2. p = FrameUpIn(all, h) /\ p \in R \cup {0} /\ p \in 0..(h - 1)
      BY <1>1, <1>4 DEF Rooted
    <3> HIDE DEF x, p
    <3>3. CASE h = 1
      <4>1. p = 0
        BY <2>5, <3>2, <3>3 DEF FrameUpIn
      <4>2. 0 \in DOMAIN v.parent \cup {0}
        OBVIOUS
      <4>3. Views!Declaring(v, p, nm) = 0
        BY <1>1, <1>2, <4>1, <4>2, DeclaringUnfold
      <4> QED
        BY <2>3, <2>4, <2>5, <2>7, <3>1, <3>3, <4>3 DEF NotFound
    <3>4. CASE h # 1
      <4>1. FrameUpIn(all, h) \in 1..all[h].up /\ all[h].up \in 1..(h - 1)
        BY <2>4, <3>4, OwnFrame
      <4>2. p \in 1..(h - 1) /\ p \in R
        BY <3>2, <4>1
      <4>3. p \in B
        BY <1>4, <4>2
      <4>4. Holds(p)
        BY <4>2, <4>3
      <4>5. all[h].up = a.saved[p]
        BY <1>3, <1>4, <3>2, <3>4
      <4>6. FindIn(all, y, a.saved[h], nm) = FindIn(all, y, a.saved[p], nm)
        BY <2>3, <2>4, <2>5, <2>7, <3>4, <4>5
      <4> QED
        BY <3>1, <4>4, <4>6
    <3> QED
      BY <3>3, <3>4
  <2> QED
    BY <2>6, <2>7
<1> HIDE DEF n, Holds
<1>5. \A h \in 1..n : 1..(h - 1) \subseteq B => h \in B
  BY <1>4
<1> HIDE DEF B
<1>6. 1..n \subseteq B
  BY <1>2, <1>5, CountingInduction
<1>7. f \in R /\ f \in 1..n
  BY <1>1 DEF R
<1>8. f \in B
  BY <1>6, <1>7
<1> QED
  BY <1>7, <1>8 DEF B, Good, Holds, v, R

\* The last scope of a depth, from the last scope of a greater one.
LEMMA LevelOfLevel ==
  ASSUME NEW all, Links(all), Tree(all), NEW d \in Nat, NEW e \in 0..d, NEW s \in 1..Len(all)
  PROVE  LevelIn(all, LevelIn(all, s, d), e) = LevelIn(all, s, e)
<1> DEFINE n == Len(all)
           Good(t) == LevelIn(all, LevelIn(all, t, d), e) = LevelIn(all, t, e)
           B == {t \in 1..n : Good(t)}
<1>1. n \in Nat
  BY SeqFacts DEF Links
<1>2. ASSUME NEW t \in 1..n, 1..(t - 1) \subseteq B PROVE Good(t)
  <2>1. t \in 1..Len(all) /\ all[t].depth \in Nat
    BY DEF Links
  <2>2. CASE all[t].depth <= d
    BY <2>1, <2>2, LevelFacts
  <2>3. CASE ~(all[t].depth <= d)
    <3>1. ~(all[t].depth <= e) /\ e \in Nat
      BY <2>1, <2>3
    <3>2. all[t].upUpdates \in 1..(t - 1) /\ LevelIn(all, t, d) = LevelIn(all, all[t].upUpdates, d)
      BY <2>1, <2>3, LevelFacts
    <3>3. LevelIn(all, t, e) = LevelIn(all, all[t].upUpdates, e)
      BY <2>1, <3>1, LevelFacts
    <3>4. all[t].upUpdates \in B
      BY <1>2, <3>2
    <3> QED
      BY <3>2, <3>3, <3>4
  <2> QED
    BY <2>2, <2>3
<1> HIDE DEF n, Good
<1>3. \A t \in 1..n : 1..(t - 1) \subseteq B => t \in B
  BY <1>2
<1> HIDE DEF B
<1>4. 1..n \subseteq B
  BY <1>1, <1>3, CountingInduction
<1>5. s \in B
  BY <1>4 DEF n
<1> QED
  BY <1>5 DEF B, Good

\* global_D_Scope finds the last top-level scope of the history.
LEMMA GlobalIsLevel ==
  ASSUME NEW all, Links(all), Tree(all), NEW s \in 1..Len(all)
  PROVE  GlobalIn(all, s) = LevelIn(all, s, 0)
<1> DEFINE n == Len(all)
           Good(t) == GlobalIn(all, t) = LevelIn(all, t, 0)
           B == {t \in 1..n : Good(t)}
<1>1. n \in Nat
  BY SeqFacts DEF Links
<1>2. ASSUME NEW t \in 1..n, 1..(t - 1) \subseteq B PROVE Good(t)
  <2> DEFINE f == FrameIn(all, t)
  <2>1. t \in 1..Len(all) /\ all[t].depth \in Nat
    BY DEF Links
  <2>2. GlobalIn(all, t) = IF all[t].up = 0 THEN t ELSE GlobalIn(all, all[t].search)
    BY <2>1, GlobalUnfold
  <2>3. IsFrame(all, f) /\ all[f].up = all[t].up /\ all[f].depth = all[t].depth
    BY <2>1, FrameFacts
  <2> HIDE DEF f
  <2>4. CASE all[t].up = 0
    <3>1. f = 1
      BY <2>3, <2>4, OwnFrame
    <3>2. all[t].depth <= 0
      BY <2>3, <3>1 DEF Tree
    <3>3. LevelIn(all, t, 0) = t
      <4>1. 0 \in Nat
        OBVIOUS
      <4> QED
        BY <2>1, <3>2, <4>1, LevelFacts
    <3> QED
      BY <2>2, <2>4, <3>3
  <2>5. CASE all[t].up # 0
    <3>1. f # 1
      BY <2>3, <2>5, OwnFrame
    <3>2. f \in 1..Len(all) /\ all[f].up \in 1..(f - 1) /\ all[f].depth = all[all[f].up].depth + 1
      BY <2>3, <3>1, OwnFrame DEF IsFrame
    <3>3. all[f].up \in 1..Len(all)
      BY <1>1, <3>2
    <3>4. all[all[f].up].depth \in Nat
      BY <3>3 DEF Links
    <3>5. ~(all[t].depth <= 0)
      BY <2>1, <2>3, <3>2, <3>4
    <3>6. all[t].upUpdates \in 1..(t - 1) /\ LevelIn(all, t, 0) = LevelIn(all, all[t].upUpdates, 0)
      BY <2>1, <3>5, LevelFacts
    <3>7. t \in 2..Len(all) /\ t # 1
      BY <2>1, <3>6
    <3>8. LevelIn(all, all[t].upUpdates, all[t].depth) = all[t].search
      BY <3>7 DEF Tree
    <3>9. all[t].upUpdates \in 1..Len(all)
      BY <1>1, <3>6
    <3>10. LevelIn(all, all[t].search, 0) = LevelIn(all, all[t].upUpdates, 0)
      <4>1. 0 \in 0..all[t].depth
        BY <2>1
      <4> QED
        BY <2>1, <3>8, <3>9, <4>1, LevelOfLevel
    <3>11. all[t].search \in 1..(t - 1)
      BY <2>1, <3>7 DEF Links
    <3>12. all[t].search \in B
      BY <1>2, <3>11
    <3> QED
      BY <2>2, <2>5, <3>6, <3>10, <3>12
  <2> QED
    BY <2>4, <2>5
<1> HIDE DEF n, Good
<1>3. \A t \in 1..n : 1..(t - 1) \subseteq B => t \in B
  BY <1>2
<1> HIDE DEF B
<1>4. 1..n \subseteq B
  BY <1>1, <1>3, CountingInduction
<1>5. s \in B
  BY <1>4 DEF n
<1> QED
  BY <1>5 DEF B, Good

\* The current scope is the last of its frame, and global_D_Scope finds the last of the top frame.
LEMMA SavedFacts ==
  ASSUME NEW all, Links(all), Tree(all), NEW a, PathOK(all, a)
  PROVE  /\ a.cur \in 1..Len(all) /\ DOMAIN a.saved = AroundIn(all, FrameIn(all, a.cur))
         /\ FrameIn(all, a.cur) \in DOMAIN a.saved /\ a.saved[FrameIn(all, a.cur)] = a.cur
         /\ 1 \in DOMAIN a.saved /\ a.saved[1] = GlobalIn(all, a.cur)
<1> DEFINE here == FrameIn(all, a.cur)
           R == AroundIn(all, here)
<1>1. /\ a.cur \in 1..Len(all) /\ a.saved = [f \in R |-> a.saved[f]]
      /\ \A f \in R : a.saved[f] = LevelIn(all, a.cur, all[f].depth)
  BY DEF PathOK
<1>2. IsFrame(all, here) /\ all[here].depth = all[a.cur].depth
  BY <1>1, FrameFacts
<1>3. DOMAIN a.saved = R
  BY <1>1
<1> HIDE DEF here, R
<1>4. here \in R /\ 1 \in R
  BY <1>2, AroundFacts DEF AroundOK, R
<1>5. all[a.cur].depth \in Nat /\ all[1].depth = 0
  BY <1>1 DEF Links, Tree
<1>6. LevelIn(all, a.cur, all[a.cur].depth) = a.cur
  BY SMTT(30), <1>1, <1>5, LevelFacts
<1>7. a.saved[1] = LevelIn(all, a.cur, 0)
  BY <1>1, <1>4, <1>5
<1> QED
  BY <1>1, <1>2, <1>3, <1>4, <1>6, <1>7, GlobalIsLevel DEF here, R

\* So the lookups read the innermost declarations.
LEMMA InnermostRead ==
  ASSUME TableOK, PathsOK
  PROVE  ReadsInnermost
<1> SUFFICES ASSUME NEW p \in Live, NEW n \in Names
             PROVE  LET x == FindSym(at[p].cur, n)
                        y == Find(GlobalScope(at[p].cur), n)
                    IN  /\ Views!Read(ViewOf(p), Frame(at[p].cur), n) = IF x = NotFound THEN <<>> ELSE sy[x].val
                        /\ Views!Read(ViewOf(p), 1, n) = IF y = NotFound THEN <<>> ELSE sy[Current(at[p].cur, y)].val
  BY DEF ReadsInnermost
<1> DEFINE a == at[p]
           v == ViewIn(sc, sy, a)
           R == AroundIn(sc, FrameIn(sc, a.cur))
<1>1. Links(sc) /\ Tree(sc) /\ Content(sc, sy) /\ PathOK(sc, a)
  BY DEF TableOK, PathsOK
<1>2. ViewOf(p) = v
  BY ViewOfTable
<1> HIDE DEF a
<1>3. ViewOK(sc, sy, a)
  BY <1>1, ViewFacts
<1>4. /\ a.cur \in 1..Len(sc) /\ FrameIn(sc, a.cur) \in R /\ a.saved[FrameIn(sc, a.cur)] = a.cur
      /\ 1 \in R /\ a.saved[1] = GlobalIn(sc, a.cur)
  BY <1>1, SavedFacts
<1>5. /\ \A h \in R : v.vals[h][n] = ValueIn(sc, sy, a, h, n)
      /\ \A h \in R : InScopeIn(sc, sy, a.saved[h], n) # NotFound =>
                        ValueIn(sc, sy, a, h, n) = sy[CurrentIn(sc, sy, a.cur, InScopeIn(sc, sy, a.saved[h], n))].val
  BY <1>3 DEF ViewOK
<1>6. ASSUME NEW f \in R
      PROVE  LET x == FindIn(sc, sy, a.saved[f], n)
             IN  Views!Read(v, f, n) = IF x = NotFound THEN <<>> ELSE sy[CurrentIn(sc, sy, a.cur, x)].val
  <2> DEFINE g == Views!Declaring(v, f, n)
             x == FindIn(sc, sy, a.saved[f], n)
  <2>1. /\ g = 0 <=> x = NotFound
        /\ g # 0 => g \in R /\ InScopeIn(sc, sy, a.saved[g], n) = x
    BY <1>1, <1>3, FindsDeclaring
  <2>2. Views!Read(v, f, n) = IF g = 0 THEN <<>> ELSE v.vals[g][n]
    BY DEF Views!Read, Views!None
  <2> HIDE DEF v, R, g, x
  <2>3. CASE g = 0
    BY <2>1, <2>2, <2>3 DEF x
  <2>4. CASE g # 0
    BY <1>5, <2>1, <2>2, <2>4 DEF x
  <2> QED
    BY <2>3, <2>4
<1>7. /\ Find(GlobalScope(at[p].cur), n) = FindIn(sc, sy, GlobalIn(sc, a.cur), n)
      /\ \A x : Current(at[p].cur, x) = CurrentIn(sc, sy, a.cur, x)
      /\ Find(at[p].cur, n) = FindIn(sc, sy, a.cur, n) /\ Frame(at[p].cur) = FrameIn(sc, a.cur)
  BY LookupsOfTable DEF a
<1> HIDE DEF v, R
<1>8. Views!Read(v, 1, n) = IF FindIn(sc, sy, GlobalIn(sc, a.cur), n) = NotFound THEN <<>>
                            ELSE sy[CurrentIn(sc, sy, a.cur, FindIn(sc, sy, GlobalIn(sc, a.cur), n))].val
  BY <1>4, <1>6
<1>9. Views!Read(v, FrameIn(sc, a.cur), n) = IF FindIn(sc, sy, a.cur, n) = NotFound THEN <<>>
                            ELSE sy[CurrentIn(sc, sy, a.cur, FindIn(sc, sy, a.cur, n))].val
  BY <1>4, <1>6
<1>10. FindSym(at[p].cur, n) = IF FindIn(sc, sy, a.cur, n) = NotFound THEN NotFound
                                ELSE CurrentIn(sc, sy, a.cur, FindIn(sc, sy, a.cur, n))
  BY <1>7 DEF FindSym
<1>11. FindIn(sc, sy, a.cur, n) # NotFound => CurrentIn(sc, sy, a.cur, FindIn(sc, sy, a.cur, n)) # NotFound
  <2> DEFINE f == FrameIn(sc, a.cur)
             g == Views!Declaring(v, f, n)
             x == FindIn(sc, sy, a.saved[f], n)
             o == IF sy[x].of # 0 THEN sy[x].of ELSE x
  <2>1. g # 0 \/ x = NotFound
    BY <1>1, <1>3, <1>4, FindsDeclaring DEF v, R
  <2>2. g # 0 => g \in R /\ InScopeIn(sc, sy, a.saved[g], n) = x
    BY <1>1, <1>3, <1>4, FindsDeclaring DEF v, R
  <2> HIDE DEF g
  <2>3. x = FindIn(sc, sy, a.cur, n)
    BY <1>4
  <2>4. g \in R => a.saved[g] \in 1..Len(sc)
    BY <1>1 DEF PathOK, R
  <2> HIDE DEF x
  <2>5. ASSUME x # NotFound PROVE CurrentIn(sc, sy, a.cur, x) # NotFound
    <3>1. x \in 1..Len(sy)
      BY <1>1, <2>1, <2>2, <2>4, <2>5, InScopeFacts
    <3>2. Len(sy) \in Nat /\ sy[x].of \in 0..Len(sy)
      BY <1>1, <3>1, SeqFacts DEF Content
    <3>3. o \in 1..Len(sy)
      BY <3>1, <3>2
    <3>4. CurrentIn(sc, sy, a.cur, x) = VersionIn(sc, sy, a.cur, o)
      BY DEF CurrentIn
    <3> HIDE DEF o
    <3>5. a.cur \in 0..Len(sc)
      BY <1>4
    <3>6. VersionIn(sc, sy, a.cur, o) \in 1..Len(sy)
      BY <1>1, <3>3, <3>5, VersionFacts
    <3> QED
      BY <3>4, <3>6 DEF NotFound
  <2> QED
    BY <2>3, <2>5
<1> QED
  BY <1>2, <1>7, <1>8, <1>9, <1>10, <1>11

-----------------------------------------------------------------------------
(* What a step leaves alone.                                               *)

\* What a path saved is in its history,
LEMMA SavedInHistory ==
  ASSUME NEW all, Links(all), Tree(all), NEW a, PathOK(all, a), NEW f \in AroundIn(all, FrameIn(all, a.cur))
  PROVE  /\ f \in 1..Len(all) /\ a.saved[f] \in HistoryIn(all, a.cur)
         /\ f \in HistoryIn(all, a.cur) /\ AroundIn(all, f) \subseteq AroundIn(all, FrameIn(all, a.cur))
<1> DEFINE here == FrameIn(all, a.cur)
           R == AroundIn(all, here)
           H == HistoryIn(all, a.cur)
<1>1. /\ a.cur \in 1..Len(all) /\ a.saved[f] \in 1..Len(all) /\ FrameIn(all, a.saved[f]) = f
      /\ a.saved[f] = LevelIn(all, a.cur, all[f].depth)
  BY DEF PathOK
<1>2. IsFrame(all, here)
  BY <1>1, FrameFacts
<1> HIDE DEF here
<1>3. IsFrame(all, f) /\ AroundIn(all, f) \subseteq R
  BY <1>2, AroundFacts DEF AroundOK, here
<1>4. f \in 1..Len(all)
  BY <1>3 DEF IsFrame
<1>5. all[f].depth \in Nat
  BY <1>4 DEF Links
<1>6. a.saved[f] \in H
  <2> DEFINE d == all[f].depth
  <2>1. d \in Nat /\ a.saved[f] = LevelIn(all, a.cur, d)
    BY <1>1, <1>5
  <2> HIDE DEF d
  <2> QED
    BY SMTT(30), <1>1, <2>1, LevelFacts
<1>7. Closed(all, H)
  BY <1>1, HistoryClosed
<1> HIDE DEF H
<1>8. SameLinks(all, all, H)
  BY <1>7 DEF SameLinks, Closed
<1>9. f \in H
  BY <1>1, <1>6, <1>8, SameFrame
<1> QED
  BY <1>3, <1>4, <1>6, <1>9 DEF H, R, here

\* and stays so when the links of the history do.
LEMMA PathKept ==
  ASSUME NEW all, Links(all), Tree(all), NEW all2, Links(all2), Tree(all2), NEW a, PathOK(all, a),
         NEW R, SameLinks(all, all2, R), HistoryIn(all, a.cur) \subseteq R
  PROVE  /\ PathOK(all2, a)
         /\ a.cur \in R /\ FrameIn(all2, a.cur) = FrameIn(all, a.cur)
         /\ AroundIn(all2, FrameIn(all, a.cur)) = AroundIn(all, FrameIn(all, a.cur))
         /\ \A f \in AroundIn(all, FrameIn(all, a.cur)) :
              a.saved[f] \in R /\ f \in R /\ FrameUpIn(all2, f) = FrameUpIn(all, f)
<1> DEFINE here == FrameIn(all, a.cur)
           S == AroundIn(all, here)
<1>1. /\ a = [cur |-> a.cur, saved |-> a.saved, trail |-> a.trail]
      /\ a.cur \in 1..Len(all) /\ a.saved = [f \in S |-> a.saved[f]]
      /\ \A f \in S : /\ a.saved[f] \in 1..Len(all) /\ FrameIn(all, a.saved[f]) = f
                      /\ a.saved[f] = LevelIn(all, a.cur, all[f].depth)
                      /\ f # 1 => all[f].up = a.saved[FrameUpIn(all, f)]
  BY DEF PathOK
<1>2. a.cur \in R
  BY <1>1, HistoryFacts
<1>3. FrameIn(all2, a.cur) = here /\ here \in R
  BY <1>2, SameFrame
<1> HIDE DEF here
<1>4. AroundIn(all2, here) = S
  BY <1>3, SameAround
<1>5. ASSUME NEW f \in S
      PROVE  /\ a.saved[f] \in R /\ f \in R /\ FrameUpIn(all2, f) = FrameUpIn(all, f)
             /\ a.saved[f] \in 1..Len(all2) /\ FrameIn(all2, a.saved[f]) = f
             /\ a.saved[f] = LevelIn(all2, a.cur, all2[f].depth)
             /\ f # 1 => all2[f].up = a.saved[FrameUpIn(all2, f)]
  <2>1. a.saved[f] \in R /\ f \in R
    BY <1>5, SavedInHistory DEF S, here
  <2>2. FrameUpIn(all2, f) = FrameUpIn(all, f)
    BY <2>1, SameAround
  <2>3. FrameIn(all2, a.saved[f]) = f
    BY <1>1, <2>1, SameFrame
  <2>4. all2[f].depth = all[f].depth /\ all2[f].up = all[f].up /\ a.saved[f] \in 1..Len(all2)
    BY <2>1 DEF SameLinks
  <2>5. LevelIn(all2, a.cur, all[f].depth) = LevelIn(all, a.cur, all[f].depth)
    BY <1>2, SameLevel
  <2> QED
    BY <1>1, <2>1, <2>2, <2>3, <2>4, <2>5
<1>6. a.cur \in 1..Len(all2)
  BY <1>2 DEF SameLinks
<1> HIDE DEF S
<1>7. PathOK(all2, a)
  BY <1>1, <1>3, <1>4, <1>5, <1>6 DEF PathOK
<1> QED
  BY <1>2, <1>3, <1>4, <1>5, <1>7 DEF S, here

\* Two tables that agree on what the scopes of R hold, and on the symbols of the first.
SameContent(all, y, all2, y2, R) ==
  /\ \A s \in R : all2[s].syms = all[s].syms /\ all2[s].updates = all[s].updates
  /\ Len(y2) \in Nat /\ Len(y) <= Len(y2) /\ \A x \in 1..Len(y) : y2[x] = y[x]

\* Then each path whose history is in R reads the same.
LEMMA ViewKept ==
  ASSUME NEW all, Links(all), Tree(all), NEW y, Content(all, y), NEW all2, Links(all2), Tree(all2),
         NEW y2, NEW a, PathOK(all, a),
         NEW R, SameLinks(all, all2, R), HistoryIn(all, a.cur) \subseteq R, SameContent(all, y, all2, y2, R)
  PROVE  /\ ViewIn(all2, y2, a) = ViewIn(all, y, a)
         /\ \A s \in R : \A n : InScopeIn(all2, y2, s, n) = InScopeIn(all, y, s, n)
         /\ \A s \in R : \A o : VersionIn(all2, y2, s, o) = VersionIn(all, y, s, o)
         /\ \A s \in R : DeclsIn(all2, s) = DeclsIn(all, s)
         /\ \A s \in R : Distinct(all, y, s) => Distinct(all2, y2, s)
<1> DEFINE here == FrameIn(all, a.cur)
           S == AroundIn(all, here)
<1>0. Links(all) /\ Links(all2) /\ SameLinks(all, all2, R)
  OBVIOUS
<1>10. R \subseteq 1..Len(all)
  BY DEF SameLinks, Closed
<1>1. /\ FrameIn(all2, a.cur) = here /\ a.cur \in R
      /\ \A f \in S : a.saved[f] \in R /\ FrameUpIn(all2, f) = FrameUpIn(all, f)
  BY PathKept
<1>2. DOMAIN a.saved = S
  BY DEF PathOK
<1>3. /\ \A s \in R : all2[s].syms = all[s].syms /\ all2[s].updates = all[s].updates
      /\ \A x \in 1..Len(y) : y2[x] = y[x]
      /\ \A s \in R : ToSet(all[s].syms) \subseteq 1..Len(y) /\ ToSet(all[s].updates) \subseteq 1..Len(y)
  BY <1>10 DEF SameContent, Content
<1> HIDE DEF here, S
<1>4. ASSUME NEW n, NEW s \in R PROVE InScopeIn(all2, y2, s, n) = InScopeIn(all, y, s, n)
  <2>1. ASSUME NEW t \in R PROVE SymOf(all2, y2, t, n) = SymOf(all, y, t, n)
    <3>1. t \in 1..Len(all) /\ all2[t].syms = all[t].syms /\ \A x \in ToSet(all[t].syms) : y2[x].name = y[x].name
      BY <1>3, <1>10
    <3> QED
      BY <3>1, SameSymOf
  <2>2. \A t \in R : SymOf(all2, y2, t, n) = SymOf(all, y, t, n)
    BY <2>1
  <2> QED
    BY ONLY <1>0, <1>4, <2>2, SameInScope
<1>5. ASSUME NEW o, NEW s \in R PROVE VersionIn(all2, y2, s, o) = VersionIn(all, y, s, o)
  <2>1. ASSUME NEW t \in R PROVE UpdateOf(all2, y2, t, o) = UpdateOf(all, y, t, o)
    <3>1. t \in 1..Len(all) /\ all2[t].updates = all[t].updates /\ \A x \in ToSet(all[t].updates) : y2[x].of = y[x].of
      BY <1>3, <1>10
    <3> QED
      BY <3>1, SameUpdateOf
  <2>2. \A t \in R : UpdateOf(all2, y2, t, o) = UpdateOf(all, y, t, o)
    BY <2>1
  <2> QED
    BY ONLY <1>0, <1>5, <2>2, SameVersion
<1>6. ASSUME NEW s \in R PROVE DeclsIn(all2, s) = DeclsIn(all, s)
  <2>1. \A t \in R : all2[t].syms = all[t].syms
    BY <1>3, <1>10
  <2> QED
    BY ONLY <1>0, <1>6, <2>1, SameDecls
<1>7. ASSUME NEW s \in R, Distinct(all, y, s) PROVE Distinct(all2, y2, s)
  <2>1. \A x \in DeclsIn(all, s) : x \in 1..Len(y)
    <3> SUFFICES ASSUME NEW x \in DeclsIn(all, s) PROVE x \in 1..Len(y)
      OBVIOUS
    <3>1. s \in 1..Len(all) /\ Len(all) \in Nat
      BY <1>10, SeqFacts DEF Links
    <3>2. PICK t \in 1..s : x \in ToSet(all[t].syms)
      BY <3>1, DeclsFacts
    <3>3. t \in 1..Len(all)
      BY <3>1, <3>2
    <3> QED
      BY <3>2, <3>3 DEF Content
  <2> QED
    BY <1>3, <1>6, <1>7, <2>1 DEF Distinct
<1>8. ASSUME NEW f \in S, NEW n PROVE ValueIn(all2, y2, a, f, n) = ValueIn(all, y, a, f, n)
  <2> DEFINE x == InScopeIn(all, y, a.saved[f], n)
             o == IF y[x].of # 0 THEN y[x].of ELSE x
             z == VersionIn(all, y, a.cur, o)
  <2>1. a.saved[f] \in R
    BY <1>1
  <2>2. InScopeIn(all2, y2, a.saved[f], n) = x
    BY <1>4, <2>1
  <2>3. x # NotFound => x \in 1..Len(y)
    <3>1. a.saved[f] \in 1..Len(all)
      BY <1>10, <2>1
    <3> QED
      BY <3>1, InScopeFacts
  <2> HIDE DEF x
  <2>4. ASSUME x # NotFound PROVE y2[CurrentIn(all2, y2, a.cur, x)].val = y[CurrentIn(all, y, a.cur, x)].val
    <3>1. x \in 1..Len(y) /\ y2[x] = y[x] /\ y[x].of \in 0..Len(y) /\ Len(y) \in Nat
      BY <1>3, <2>3, <2>4, SeqFacts DEF Content
    <3>2. o \in 1..Len(y)
      BY <3>1
    <3>3. CurrentIn(all2, y2, a.cur, x) = VersionIn(all2, y2, a.cur, o)
      BY <3>1 DEF CurrentIn
    <3>4. CurrentIn(all, y, a.cur, x) = z
      BY DEF CurrentIn
    <3> HIDE DEF o
    <3>5. VersionIn(all2, y2, a.cur, o) = z
      BY <1>1, <1>5
    <3>6. a.cur \in 0..Len(all)
      <4>1. a.cur \in 1..Len(all)
        BY <1>1, <1>10
      <4> QED
        BY <4>1
    <3>7. z \in 1..Len(y)
      BY <3>2, <3>6, VersionFacts
    <3> HIDE DEF z
    <3> QED
      BY <1>3, <3>3, <3>4, <3>5, <3>7
  <2> QED
    BY <2>2, <2>4 DEF ValueIn, x
<1>9. ViewIn(all2, y2, a) = ViewIn(all, y, a)
  BY <1>1, <1>2, <1>8 DEF ViewIn, here
<1> QED
  BY <1>4, <1>5, <1>6, <1>7, <1>9

-----------------------------------------------------------------------------
(* A scope more.                                                           *)

\* all2 is all with the scope e at its end, a new frame or a copy of a scope in the
\* history of the scope it comes after.
Extended(all, all2, e) ==
  /\ IsSeq(all2) /\ Len(all2) = Len(all) + 1 /\ all2[Len(all) + 1] = e
  /\ \A s \in 1..Len(all) : all2[s] = all[s]
Fits(all, e) ==
  /\ e.depth \in Nat /\ e.up \in 0..Len(all)
  /\ e.search \in 1..Len(all) /\ e.upUpdates \in 1..Len(all)
  /\ \/ e.search = e.up /\ e.depth = all[e.up].depth + 1
     \/ e.up = all[e.search].up /\ e.depth = all[e.search].depth
  /\ LevelIn(all, e.upUpdates, e.depth) = e.search

\* The links of the others stay.
LEMMA ScopeLinks ==
  ASSUME NEW all, Links(all), Tree(all), NEW e, Fits(all, e), NEW all2, Extended(all, all2, e)
  PROVE  /\ Links(all2) /\ Tree(all2) /\ SameLinks(all, all2, 1..Len(all))
         /\ Len(all) \in Nat /\ Len(all) >= 1 /\ Len(all2) = Len(all) + 1
<1> DEFINE n == Len(all)
<1>1. n \in Nat /\ n >= 1
  BY SeqFacts DEF Links
<1>2. IsSeq(all2) /\ Len(all2) = n + 1 /\ all2[n + 1] = e /\ \A s \in 1..n : all2[s] = all[s]
  BY DEF Extended
<1>3. \A s \in 1..n : /\ all[s].depth \in Nat
                      /\ all[s].up \in 0..(s - 1) /\ all[s].search \in 0..(s - 1) /\ all[s].upUpdates \in 0..(s - 1)
                      /\ s # 1 => all[s].search # 0 /\ all[s].upUpdates # 0
  BY DEF Links
<1>4. /\ e.depth \in Nat /\ e.up \in 0..n /\ e.search \in 1..n /\ e.upUpdates \in 1..n
      /\ \/ e.search = e.up /\ e.depth = all[e.up].depth + 1
         \/ e.up = all[e.search].up /\ e.depth = all[e.search].depth
      /\ LevelIn(all, e.upUpdates, e.depth) = e.search
  BY DEF Fits
<1>5. all[1].depth = 0
  BY DEF Tree
<1>6. \A s \in 2..n :
       /\ \/ all[s].search = all[s].up /\ all[s].depth = all[all[s].up].depth + 1
          \/ all[s].up = all[all[s].search].up /\ all[s].depth = all[all[s].search].depth
       /\ LevelIn(all, all[s].upUpdates, all[s].depth) = all[s].search
  BY DEF Tree
<1>7. Closed(all, 1..n)
  <2>1. \A s \in 1..n : (s # 1 => all[s].search \in 1..n /\ all[s].upUpdates \in 1..n) /\ (all[s].up # 0 => all[s].up \in 1..n)
    BY <1>1, <1>3
  <2> QED
    BY <2>1 DEF Closed
<1> HIDE DEF n
<1>8. \A s \in 1..(n + 1) : s \in 1..n \/ s = n + 1
  BY <1>1
<1>9. Links(all2)
  <2>1. ASSUME NEW s \in 1..(n + 1)
        PROVE  /\ all2[s].depth \in Nat
               /\ all2[s].up \in 0..(s - 1) /\ all2[s].search \in 0..(s - 1) /\ all2[s].upUpdates \in 0..(s - 1)
               /\ s # 1 => all2[s].search # 0 /\ all2[s].upUpdates # 0
    <3>1. CASE s \in 1..n
      BY <1>2, <1>3, <3>1
    <3>2. CASE s = n + 1
      BY <1>1, <1>2, <1>4, <3>2
    <3> QED
      BY <1>8, <3>1, <3>2
  <2> QED
    BY <1>1, <1>2, <2>1 DEF Links
<1>10. SameLinks(all, all2, 1..n)
  BY <1>1, <1>2, <1>7 DEF SameLinks
<1>11. ASSUME NEW s \in 1..n, NEW d PROVE LevelIn(all2, s, d) = LevelIn(all, s, d)
  <2> DEFINE R == 1..n
  <2>1. SameLinks(all, all2, R) /\ s \in R
    BY <1>10
  <2> HIDE DEF R
  <2> QED
    BY <1>9, <2>1, SameLevel
<1>12. Tree(all2)
  <2>1. all2[1].depth = 0
    <3>1. 1 \in 1..n
      BY <1>1
    <3> QED
      BY <1>2, <1>5, <3>1
  <2>2. ASSUME NEW s \in 2..(n + 1)
        PROVE  /\ \/ all2[s].search = all2[s].up /\ all2[s].depth = all2[all2[s].up].depth + 1
                  \/ all2[s].up = all2[all2[s].search].up /\ all2[s].depth = all2[all2[s].search].depth
               /\ LevelIn(all2, all2[s].upUpdates, all2[s].depth) = all2[s].search
    <3>1. CASE s \in 2..n
      <4>1. s \in 1..n /\ all[s].search \in 1..n /\ all[s].upUpdates \in 1..n /\ all2[s] = all[s]
        BY <1>1, <1>2, <1>3, <3>1
      <4> QED
        BY <1>2, <1>6, <1>11, <3>1, <4>1
    <3>2. CASE s = n + 1
      BY <1>2, <1>4, <1>11, <3>2
    <3>3. s \in 2..n \/ s = n + 1
      BY <1>1
    <3> QED
      BY <3>1, <3>2, <3>3
  <2> QED
    BY <1>2, <2>1, <2>2 DEF Tree
<1> QED
  BY <1>1, <1>2, <1>9, <1>10, <1>12 DEF n

\* The new scope is a frame, or in the frame of the scope it searches.
LEMMA NewScopeFrame ==
  ASSUME NEW all, Links(all), Tree(all), NEW e, Fits(all, e), NEW all2, Extended(all, all2, e)
  PROVE  LET m == Len(all) + 1
         IN  /\ FrameIn(all2, m) = IF e.search = e.up THEN m ELSE FrameIn(all, e.search)
             /\ \A d : LevelIn(all2, m, d) = IF e.depth <= d THEN m ELSE LevelIn(all, e.upUpdates, d)
             /\ \A y, o : VersionIn(all2, y, m, o) = IF UpdateOf(all2, y, m, o) # NotFound THEN UpdateOf(all2, y, m, o)
                                                     ELSE VersionIn(all2, y, e.upUpdates, o)
             /\ HistoryIn(all2, m) = {m} \cup HistoryIn(all, e.upUpdates)
<1> DEFINE m == Len(all) + 1
           R == 1..Len(all)
<1>1. /\ Links(all2) /\ Tree(all2) /\ SameLinks(all, all2, R)
      /\ Len(all) \in Nat /\ Len(all) >= 1 /\ Len(all2) = Len(all) + 1
  BY ScopeLinks
<1>2. m \in 1..Len(all2) /\ m \in 0..Len(all2) /\ m # 0 /\ all2[m] = e
  BY <1>1 DEF Extended
<1>3. e.search \in R /\ e.upUpdates \in R
  BY DEF Fits
<1> HIDE DEF m, R
<1>4. FrameIn(all2, m) = IF e.search = e.up THEN m ELSE FrameIn(all, e.search)
  <2>1. FrameIn(all2, m) = IF e.search = e.up THEN m ELSE FrameIn(all2, e.search)
    BY <1>1, <1>2, FrameUnfold
  <2>2. FrameIn(all2, e.search) = FrameIn(all, e.search)
    BY <1>1, <1>3, SameFrame
  <2> QED
    BY <2>1, <2>2
<1>5. ASSUME NEW d PROVE LevelIn(all2, m, d) = IF e.depth <= d THEN m ELSE LevelIn(all, e.upUpdates, d)
  <2>1. LevelIn(all2, m, d) = IF e.depth <= d THEN m ELSE LevelIn(all2, e.upUpdates, d)
    BY <1>1, <1>2, LevelUnfold
  <2>2. LevelIn(all2, e.upUpdates, d) = LevelIn(all, e.upUpdates, d)
    BY <1>1, <1>3, SameLevel
  <2> QED
    BY <2>1, <2>2
<1>6. \A y, o : VersionIn(all2, y, m, o) = IF UpdateOf(all2, y, m, o) # NotFound THEN UpdateOf(all2, y, m, o)
                                           ELSE VersionIn(all2, y, e.upUpdates, o)
  BY <1>1, <1>2, VersionUnfold
<1>7. HistoryIn(all2, m) = {m} \cup HistoryIn(all, e.upUpdates)
  <2>1. HistoryIn(all2, m) = {m} \cup HistoryIn(all2, e.upUpdates)
    BY <1>1, <1>2, HistoryUnfold
  <2>2. HistoryIn(all2, e.upUpdates) = HistoryIn(all, e.upUpdates)
    BY <1>1, <1>3, SameHistory
  <2> QED
    BY <2>1, <2>2
<1> QED
  BY <1>4, <1>5, <1>6, <1>7 DEF m

\* A scope that holds nothing, and a symbol that is new in y.
Empty(e) == e = [depth |-> e.depth, up |-> e.up, search |-> e.search, upUpdates |-> e.upUpdates,
                 syms |-> <<>>, updates |-> <<>>]
Symbol(y, w) ==
  /\ w = [name |-> w.name, scope |-> w.scope, of |-> w.of, val |-> w.val]
  /\ w.of \in 0..Len(y) /\ IsSeq(w.val) /\ w.val # <<>>

\* What the scopes hold is as before when there is one more that holds nothing,
LEMMA ScopeContent ==
  ASSUME NEW all, Links(all), NEW y, Content(all, y), NEW e, Empty(e), NEW all2, Extended(all, all2, e)
  PROVE  /\ Content(all2, y)
         /\ Declared(all, y) => Declared(all2, y)
<1> DEFINE n == Len(all)
<1>1. n \in Nat /\ n >= 1
  BY SeqFacts DEF Links
<1>2. IsSeq(all2) /\ Len(all2) = n + 1 /\ all2[n + 1] = e /\ \A s \in 1..n : all2[s] = all[s]
  BY DEF Extended
<1>3. \A s \in 1..n :
       /\ all[s] = [depth |-> all[s].depth, up |-> all[s].up, search |-> all[s].search,
                    upUpdates |-> all[s].upUpdates, syms |-> all[s].syms, updates |-> all[s].updates]
       /\ IsSeq(all[s].syms) /\ ToSet(all[s].syms) \subseteq 1..Len(y)
       /\ IsSeq(all[s].updates) /\ ToSet(all[s].updates) \subseteq 1..Len(y)
  BY DEF Content
<1>4. e.syms = <<>> /\ e.updates = <<>>
  BY DEF Empty
<1> HIDE DEF n
<1>5. \A s \in 1..(n + 1) : s \in 1..n \/ s = n + 1
  BY <1>1
<1>6. ASSUME NEW s \in 1..(n + 1)
      PROVE  /\ all2[s] = [depth |-> all2[s].depth, up |-> all2[s].up, search |-> all2[s].search,
                           upUpdates |-> all2[s].upUpdates, syms |-> all2[s].syms, updates |-> all2[s].updates]
             /\ IsSeq(all2[s].syms) /\ ToSet(all2[s].syms) \subseteq 1..Len(y)
             /\ IsSeq(all2[s].updates) /\ ToSet(all2[s].updates) \subseteq 1..Len(y)
  <2>1. CASE s \in 1..n
    BY <1>2, <1>3, <2>1
  <2>2. CASE s = n + 1
    <3>1. all2[s] = e
      BY <1>2, <2>2
    <3> QED
      BY <1>4, <3>1, EmptyFacts DEF Empty
  <2> QED
    BY <1>5, <2>1, <2>2
<1>7. all2[1].updates = <<>>
  <2>1. 1 \in 1..n
    BY <1>1
  <2> QED
    BY <1>2, <2>1 DEF Content
<1>8. Content(all2, y)
  BY <1>2, <1>6, <1>7 DEF Content
<1>9. ASSUME Declared(all, y) PROVE Declared(all2, y)
  <2>1. \A x \in 1..Len(y) : y[x].scope \in 1..(n + 1)
    <3>1. \A x \in 1..Len(y) : y[x].scope \in 1..n
      BY <1>9 DEF Declared, n
    <3> QED
      BY <1>1, <3>1
  <2>2. ASSUME NEW s \in 1..(n + 1)
        PROVE  /\ \A x \in ToSet(all2[s].syms) : y[x].of = 0 /\ y[x].scope = s
               /\ \A x \in ToSet(all2[s].updates) : y[x].of # 0
    <3>1. CASE s \in 1..n
      BY <1>2, <1>9, <3>1 DEF Declared, n
    <3>2. CASE s = n + 1
      BY <1>2, <1>4, <3>2, EmptyFacts
    <3> QED
      BY <1>5, <3>1, <3>2
  <2>3. \A x \in 1..Len(y) : y[x].of # 0 => y[y[x].of].of = 0 /\ y[y[x].of].scope = y[x].scope
    BY <1>9 DEF Declared
  <2> QED
    BY <1>2, <2>1, <2>2, <2>3 DEF Declared
<1> QED
  BY <1>8, <1>9

\* and when there is a symbol more that no scope holds.
LEMMA SymbolContent ==
  ASSUME NEW all, NEW y, Content(all, y), NEW w, Symbol(y, w), NEW y2, Extended(y, y2, w)
  PROVE  /\ Content(all, y2)
         /\ Len(y) \in Nat /\ Len(y2) = Len(y) + 1 /\ y2[Len(y) + 1] = w /\ \A x \in 1..Len(y) : y2[x] = y[x]
         /\ Declared(all, y) /\ w.scope \in 1..Len(all)
              /\ (w.of # 0 => y[w.of].of = 0 /\ y[w.of].scope = w.scope) => Declared(all, y2)
<1> DEFINE n == Len(y)
<1>1. IsSeq(y2) /\ Len(y2) = n + 1 /\ y2[n + 1] = w /\ \A x \in 1..n : y2[x] = y[x]
  BY DEF Extended
<1>2. n \in Nat
  BY SeqFacts DEF Content
<1>3. \A s \in 1..Len(all) :
       /\ all[s] = [depth |-> all[s].depth, up |-> all[s].up, search |-> all[s].search,
                    upUpdates |-> all[s].upUpdates, syms |-> all[s].syms, updates |-> all[s].updates]
       /\ IsSeq(all[s].syms) /\ ToSet(all[s].syms) \subseteq 1..n
       /\ IsSeq(all[s].updates) /\ ToSet(all[s].updates) \subseteq 1..n
  BY DEF Content
<1>4. \A x \in 1..n :
       /\ y[x] = [name |-> y[x].name, scope |-> y[x].scope, of |-> y[x].of, val |-> y[x].val]
       /\ y[x].of \in 0..n /\ IsSeq(y[x].val) /\ y[x].val # <<>>
  BY DEF Content
<1>5. all[1].updates = <<>>
  BY DEF Content
<1>6. /\ w = [name |-> w.name, scope |-> w.scope, of |-> w.of, val |-> w.val]
      /\ w.of \in 0..n /\ IsSeq(w.val) /\ w.val # <<>>
  BY DEF Symbol
<1> HIDE DEF n
<1>7. /\ \A x \in 1..(n + 1) : x \in 1..n \/ x = n + 1
      /\ 1..n \subseteq 1..(n + 1) /\ 0..n \subseteq 0..(n + 1)
  BY <1>2
<1>8. \A s \in 1..Len(all) :
       /\ all[s] = [depth |-> all[s].depth, up |-> all[s].up, search |-> all[s].search,
                    upUpdates |-> all[s].upUpdates, syms |-> all[s].syms, updates |-> all[s].updates]
       /\ IsSeq(all[s].syms) /\ ToSet(all[s].syms) \subseteq 1..(n + 1)
       /\ IsSeq(all[s].updates) /\ ToSet(all[s].updates) \subseteq 1..(n + 1)
  <2> SUFFICES ASSUME NEW s \in 1..Len(all)
               PROVE  /\ ToSet(all[s].syms) \subseteq 1..(n + 1)
                      /\ ToSet(all[s].updates) \subseteq 1..(n + 1)
    BY <1>3
  <2>1. ToSet(all[s].syms) \subseteq 1..n /\ ToSet(all[s].updates) \subseteq 1..n
    BY <1>3
  <2> QED
    BY <1>7, <2>1
<1>9. ASSUME NEW x \in 1..(n + 1)
      PROVE  /\ y2[x] = [name |-> y2[x].name, scope |-> y2[x].scope, of |-> y2[x].of, val |-> y2[x].val]
             /\ y2[x].of \in 0..(n + 1) /\ IsSeq(y2[x].val) /\ y2[x].val # <<>>
  <2>1. y2[x] = w \/ (x \in 1..n /\ y2[x] = y[x])
    BY <1>1, <1>7
  <2>2. CASE y2[x] = w
    BY <1>6, <1>7, <2>2
  <2>3. CASE x \in 1..n /\ y2[x] = y[x]
    BY <1>4, <1>7, <2>3
  <2> QED
    BY <2>1, <2>2, <2>3
<1>10. Content(all, y2)
  BY <1>1, <1>5, <1>8, <1>9 DEF Content
<1>11. ASSUME Declared(all, y), w.scope \in 1..Len(all), w.of # 0 => y[w.of].of = 0 /\ y[w.of].scope = w.scope
       PROVE  Declared(all, y2)
  <2>1. ASSUME NEW x \in 1..(n + 1)
        PROVE  /\ y2[x].scope \in 1..Len(all)
               /\ y2[x].of # 0 => y2[y2[x].of].of = 0 /\ y2[y2[x].of].scope = y2[x].scope
    <3>1. CASE x \in 1..n
      <4>1. /\ y[x].scope \in 1..Len(all)
            /\ y[x].of # 0 => y[y[x].of].of = 0 /\ y[y[x].of].scope = y[x].scope
        BY <1>11, <3>1 DEF Declared, n
      <4>2. y[x].of # 0 => y[x].of \in 1..n
        <5>1. y[x].of \in 0..n
          BY <1>4, <3>1
        <5> QED
          BY <1>2, <5>1
      <4> QED
        BY <1>1, <3>1, <4>1, <4>2
    <3>2. CASE x = n + 1
      <4>1. w.of # 0 => w.of \in 1..n
        BY <1>2, <1>6
      <4> QED
        BY <1>1, <1>11, <3>2, <4>1
    <3> QED
      BY <1>7, <3>1, <3>2
  <2>2. \A s \in 1..Len(all) :
          /\ \A x \in ToSet(all[s].syms) : y2[x].of = 0 /\ y2[x].scope = s
          /\ \A x \in ToSet(all[s].updates) : y2[x].of # 0
    <3>1. \A s \in 1..Len(all) :
          /\ \A x \in ToSet(all[s].syms) : y[x].of = 0 /\ y[x].scope = s
          /\ \A x \in ToSet(all[s].updates) : y[x].of # 0
      BY <1>11 DEF Declared
    <3> QED
      BY ZenonT(40), <1>1, <1>3, <3>1
  <2> QED
    BY <1>1, <2>1, <2>2 DEF Declared
<1> QED
  BY <1>1, <1>2, <1>10, <1>11 DEF n

-----------------------------------------------------------------------------
(* An entry more in a list of a scope.                                     *)

\* all2 is all with the symbol z put first in a list of the scope c, its symbols or its updates.
SymPut(all, all2, c, z) ==
  /\ IsSeq(all2) /\ Len(all2) = Len(all)
  /\ \A s \in 1..Len(all) : s # c => all2[s] = all[s]
  /\ all2[c] = [depth |-> all[c].depth, up |-> all[c].up, search |-> all[c].search,
                upUpdates |-> all[c].upUpdates, syms |-> <<z>> \o all[c].syms, updates |-> all[c].updates]
UpdatePut(all, all2, c, z) ==
  /\ IsSeq(all2) /\ Len(all2) = Len(all)
  /\ \A s \in 1..Len(all) : s # c => all2[s] = all[s]
  /\ all2[c] = [depth |-> all[c].depth, up |-> all[c].up, search |-> all[c].search,
                upUpdates |-> all[c].upUpdates, syms |-> all[c].syms, updates |-> <<z>> \o all[c].updates]

\* The links stay,
LEMMA PutLinks ==
  ASSUME NEW all, Links(all), Tree(all), NEW c \in 1..Len(all), NEW z, NEW all2,
         SymPut(all, all2, c, z) \/ UpdatePut(all, all2, c, z)
  PROVE  /\ Links(all2) /\ Tree(all2) /\ Len(all2) = Len(all)
         /\ \A R : Closed(all, R) => SameLinks(all, all2, R)
<1> DEFINE n == Len(all)
<1>1. IsSeq(all2) /\ Len(all2) = n
  BY DEF SymPut, UpdatePut
<1>2. \A s \in 1..n : /\ all2[s].up = all[s].up /\ all2[s].search = all[s].search
                      /\ all2[s].upUpdates = all[s].upUpdates /\ all2[s].depth = all[s].depth
  <2> SUFFICES ASSUME NEW s \in 1..n
               PROVE  /\ all2[s].up = all[s].up /\ all2[s].search = all[s].search
                      /\ all2[s].upUpdates = all[s].upUpdates /\ all2[s].depth = all[s].depth
    OBVIOUS
  <2>1. CASE s = c
    BY <2>1 DEF SymPut, UpdatePut
  <2>2. CASE s # c
    BY <2>2 DEF SymPut, UpdatePut
  <2> QED
    BY <2>1, <2>2
<1>3. n \in Nat /\ n >= 1
  BY SeqFacts DEF Links
<1>4. \A s \in 1..n : /\ all[s].depth \in Nat
                      /\ all[s].up \in 0..(s - 1) /\ all[s].search \in 0..(s - 1) /\ all[s].upUpdates \in 0..(s - 1)
                      /\ s # 1 => all[s].search # 0 /\ all[s].upUpdates # 0
  BY DEF Links
<1>5. \A R : Closed(all, R) => SameLinks(all, all2, R)
  BY <1>1, <1>2 DEF SameLinks, Closed
<1> DEFINE R == 1..n
<1>6. SameLinks(all, all2, R)
  <2>1. \A s \in 1..n : (s # 1 => all[s].search \in 1..n /\ all[s].upUpdates \in 1..n) /\ (all[s].up # 0 => all[s].up \in 1..n)
    BY SMTT(30), <1>3, <1>4
  <2> QED
    BY <1>5, <2>1 DEF Closed
<1>7. /\ all[1].depth = 0
      /\ \A s \in 2..n :
           /\ \/ all[s].search = all[s].up /\ all[s].depth = all[all[s].up].depth + 1
              \/ all[s].up = all[all[s].search].up /\ all[s].depth = all[all[s].search].depth
           /\ LevelIn(all, all[s].upUpdates, all[s].depth) = all[s].search
  BY DEF Tree
<1>8. Links(all2)
  BY <1>1, <1>2, <1>3, <1>4 DEF Links
<1> HIDE DEF n
<1>9. Tree(all2)
  <2>1. 1 \in 1..n
    BY <1>3
  <2>2. ASSUME NEW s \in 2..n
        PROVE  /\ \/ all2[s].search = all2[s].up /\ all2[s].depth = all2[all2[s].up].depth + 1
                  \/ all2[s].up = all2[all2[s].search].up /\ all2[s].depth = all2[all2[s].search].depth
               /\ LevelIn(all2, all2[s].upUpdates, all2[s].depth) = all2[s].search
    <3>1. s \in 1..n /\ all[s].search \in 1..n /\ all[s].upUpdates \in 1..n
      BY SMTT(30), <1>3, <1>4
    <3>2. /\ all2[s].up = all[s].up /\ all2[s].search = all[s].search
          /\ all2[s].upUpdates = all[s].upUpdates /\ all2[s].depth = all[s].depth
          /\ all2[all[s].search].up = all[all[s].search].up
          /\ all2[all[s].search].depth = all[all[s].search].depth
      BY <1>2, <3>1
    <3> DEFINE d == all[s].depth
    <3>3. all[s].upUpdates \in R
      BY <3>1
    <3> HIDE DEF R, d
    <3>4. LevelIn(all2, all[s].upUpdates, d) = LevelIn(all, all[s].upUpdates, d)
      BY <1>6, <1>8, <3>3, SameLevel
    <3> QED
      BY <1>7, <3>2, <3>4 DEF d
  <2> QED
    BY <1>1, <1>2, <1>7, <2>1, <2>2 DEF Tree
<1> QED
  BY <1>1, <1>5, <1>8, <1>9 DEF n

\* and the scopes hold symbols, and updates, as before.
LEMMA SymPutContent ==
  ASSUME NEW all, NEW y, Content(all, y), NEW c \in 1..Len(all), NEW z \in 1..Len(y),
         NEW all2, SymPut(all, all2, c, z)
  PROVE  /\ Content(all2, y)
         /\ Declared(all, y) /\ y[z].of = 0 /\ y[z].scope = c => Declared(all2, y)
<1> DEFINE n == Len(all)
<1>1. /\ IsSeq(all2) /\ Len(all2) = n
      /\ \A s \in 1..n : s # c => all2[s] = all[s]
      /\ all2[c] = [depth |-> all[c].depth, up |-> all[c].up, search |-> all[c].search,
                    upUpdates |-> all[c].upUpdates, syms |-> <<z>> \o all[c].syms, updates |-> all[c].updates]
  BY DEF SymPut
<1>2. \A s \in 1..n :
       /\ all[s] = [depth |-> all[s].depth, up |-> all[s].up, search |-> all[s].search,
                    upUpdates |-> all[s].upUpdates, syms |-> all[s].syms, updates |-> all[s].updates]
       /\ IsSeq(all[s].syms) /\ ToSet(all[s].syms) \subseteq 1..Len(y)
       /\ IsSeq(all[s].updates) /\ ToSet(all[s].updates) \subseteq 1..Len(y)
  BY DEF Content
<1> DEFINE q == <<z>> \o all[c].syms
<1>3. IsSeq(q) /\ ToSet(q) = {z} \cup ToSet(all[c].syms)
  <2> DEFINE r == <<z>>
             t == all[c].syms
  <2>1. IsSeq(r) /\ ToSet(r) = {z} /\ IsSeq(t)
    BY <1>2, SingleFacts
  <2> HIDE DEF r, t
  <2>2. IsSeq(r \o t) /\ ToSet(r \o t) = ToSet(r) \cup ToSet(t)
    BY <2>1, ConcatFacts
  <2> QED
    BY <2>1, <2>2 DEF r, t
<1> HIDE DEF n, q
<1>4. all2[c].syms = q /\ all2[c].updates = all[c].updates
  BY SMTT(30), <1>1 DEF q
<1>5. ASSUME NEW s \in 1..n
      PROVE  /\ all2[s] = [depth |-> all2[s].depth, up |-> all2[s].up, search |-> all2[s].search,
                           upUpdates |-> all2[s].upUpdates, syms |-> all2[s].syms, updates |-> all2[s].updates]
             /\ IsSeq(all2[s].syms) /\ ToSet(all2[s].syms) \subseteq 1..Len(y)
             /\ IsSeq(all2[s].updates) /\ ToSet(all2[s].updates) \subseteq 1..Len(y)
  <2>1. CASE s = c
    <3>1. ToSet(q) \subseteq 1..Len(y)
      BY <1>2, <1>3 DEF n
    <3>2. IsSeq(all[c].updates) /\ ToSet(all[c].updates) \subseteq 1..Len(y)
      BY <1>2 DEF n
    <3>3. all2[c] = [depth |-> all2[c].depth, up |-> all2[c].up, search |-> all2[c].search,
                     upUpdates |-> all2[c].upUpdates, syms |-> all2[c].syms, updates |-> all2[c].updates]
      BY <1>1
    <3> QED
      BY <1>3, <1>4, <2>1, <3>1, <3>2, <3>3
  <2>2. CASE s # c
    BY <1>1, <1>2, <2>2
  <2> QED
    BY <2>1, <2>2
<1>6. all2[1].updates = <<>>
  <2>1. all[1].updates = <<>>
    BY DEF Content
  <2>2. 1 \in 1..n
    BY DEF n
  <2> QED
    BY <1>1, <1>4, <2>1, <2>2
<1>7. Content(all2, y)
  BY <1>1, <1>5, <1>6 DEF Content
<1>8. ASSUME Declared(all, y), y[z].of = 0, y[z].scope = c PROVE Declared(all2, y)
  <2>1. ASSUME NEW s \in 1..n
        PROVE  /\ \A x \in ToSet(all2[s].syms) : y[x].of = 0 /\ y[x].scope = s
               /\ \A x \in ToSet(all2[s].updates) : y[x].of # 0
    <3>1. /\ \A x \in ToSet(all[s].syms) : y[x].of = 0 /\ y[x].scope = s
          /\ \A x \in ToSet(all[s].updates) : y[x].of # 0
      BY <1>8 DEF Declared, n
    <3> QED
      BY ZenonT(40), <1>1, <1>3, <1>4, <1>8, <3>1
  <2> QED
    BY <1>1, <1>8, <2>1 DEF Declared, n
<1> QED
  BY <1>7, <1>8

\* An update more in the list of a scope leaves the content of the table as it should be.
LEMMA UpdatePutContent ==
  ASSUME NEW all, NEW y, Content(all, y), NEW c \in 1..Len(all), c # 1, NEW z \in 1..Len(y),
         NEW all2, UpdatePut(all, all2, c, z)
  PROVE  /\ Content(all2, y)
         /\ Declared(all, y) /\ y[z].of # 0 => Declared(all2, y)
<1> DEFINE n == Len(all)
<1>1. /\ IsSeq(all2) /\ Len(all2) = n
      /\ \A s \in 1..n : s # c => all2[s] = all[s]
      /\ all2[c] = [depth |-> all[c].depth, up |-> all[c].up, search |-> all[c].search,
                    upUpdates |-> all[c].upUpdates, syms |-> all[c].syms, updates |-> <<z>> \o all[c].updates]
  BY DEF UpdatePut
<1>2. \A s \in 1..n :
       /\ all[s] = [depth |-> all[s].depth, up |-> all[s].up, search |-> all[s].search,
                    upUpdates |-> all[s].upUpdates, syms |-> all[s].syms, updates |-> all[s].updates]
       /\ IsSeq(all[s].syms) /\ ToSet(all[s].syms) \subseteq 1..Len(y)
       /\ IsSeq(all[s].updates) /\ ToSet(all[s].updates) \subseteq 1..Len(y)
  BY DEF Content
<1> DEFINE q == <<z>> \o all[c].updates
<1>3. IsSeq(q) /\ ToSet(q) = {z} \cup ToSet(all[c].updates)
  <2> DEFINE r == <<z>>
             t == all[c].updates
  <2>1. IsSeq(r) /\ ToSet(r) = {z} /\ IsSeq(t)
    BY <1>2, SingleFacts
  <2> HIDE DEF r, t
  <2>2. IsSeq(r \o t) /\ ToSet(r \o t) = ToSet(r) \cup ToSet(t)
    BY <2>1, ConcatFacts
  <2> QED
    BY <2>1, <2>2 DEF r, t
<1> HIDE DEF n, q
<1>4. all2[c].updates = q /\ all2[c].syms = all[c].syms
  BY <1>1 DEF q
<1>5. ASSUME NEW s \in 1..n
      PROVE  /\ all2[s] = [depth |-> all2[s].depth, up |-> all2[s].up, search |-> all2[s].search,
                           upUpdates |-> all2[s].upUpdates, syms |-> all2[s].syms, updates |-> all2[s].updates]
             /\ IsSeq(all2[s].syms) /\ ToSet(all2[s].syms) \subseteq 1..Len(y)
             /\ IsSeq(all2[s].updates) /\ ToSet(all2[s].updates) \subseteq 1..Len(y)
  <2>1. CASE s = c
    <3>1. ToSet(q) \subseteq 1..Len(y)
      BY <1>2, <1>3 DEF n
    <3>2. IsSeq(all[c].syms) /\ ToSet(all[c].syms) \subseteq 1..Len(y)
      BY <1>2 DEF n
    <3>3. all2[c] = [depth |-> all2[c].depth, up |-> all2[c].up, search |-> all2[c].search,
                     upUpdates |-> all2[c].upUpdates, syms |-> all2[c].syms, updates |-> all2[c].updates]
      BY <1>1
    <3> QED
      BY <1>3, <1>4, <2>1, <3>1, <3>2, <3>3
  <2>2. CASE s # c
    BY <1>1, <1>2, <2>2
  <2> QED
    BY <2>1, <2>2
<1>6. all2[1].updates = <<>>
  <2>1. all[1].updates = <<>>
    BY DEF Content
  <2>2. 1 \in 1..n
    BY DEF n
  <2> QED
    BY <1>1, <2>1, <2>2
<1>7. Content(all2, y)
  BY <1>1, <1>5, <1>6 DEF Content
<1>8. ASSUME Declared(all, y), y[z].of # 0 PROVE Declared(all2, y)
  <2>1. ASSUME NEW s \in 1..n
        PROVE  /\ \A x \in ToSet(all2[s].syms) : y[x].of = 0 /\ y[x].scope = s
               /\ \A x \in ToSet(all2[s].updates) : y[x].of # 0
    <3>1. /\ \A x \in ToSet(all[s].syms) : y[x].of = 0 /\ y[x].scope = s
          /\ \A x \in ToSet(all[s].updates) : y[x].of # 0
      BY <1>8 DEF Declared, n
    <3> QED
      BY <1>1, <1>3, <1>4, <1>8, <3>1
  <2> QED
    BY <1>1, <1>8, <2>1 DEF Declared, n
<1> QED
  BY <1>7, <1>8

-----------------------------------------------------------------------------
(* Entering a scope again.                                                 *)

\* The scope e that enter_D_Scope makes for a path back in frame f, and the path a2 that goes
\* on in scope m of f with the frames S.
Copies(all, a, f, e) ==
  /\ Empty(e) /\ e.search = a.saved[f] /\ e.up = all[a.saved[f]].up
  /\ e.depth = all[a.saved[f]].depth /\ e.upUpdates = a.cur
Goes(a, f, S, m, a2) ==
  a2 = [cur |-> m, saved |-> [h \in S |-> IF h = f THEN m ELSE a.saved[h]], trail |-> a.trail]

\* The copy fits,
LEMMA CopyFits ==
  ASSUME NEW all, Links(all), Tree(all), NEW a, PathOK(all, a), NEW f \in AroundIn(all, FrameIn(all, a.cur)),
         NEW e, Copies(all, a, f, e)
  PROVE  Fits(all, e) /\ e.search # e.up /\ FrameIn(all, e.search) = f /\ e.depth = all[f].depth
<1> DEFINE s == a.saved[f]
<1>1. /\ s \in 1..Len(all) /\ FrameIn(all, s) = f /\ s = LevelIn(all, a.cur, all[f].depth)
      /\ a.cur \in 1..Len(all)
  BY DEF PathOK
<1>2. Len(all) \in Nat
  BY SeqFacts DEF Links
<1>3. all[f].depth = all[s].depth
  BY <1>1, FrameFacts
<1>4. e.search = s /\ e.up = all[s].up /\ e.depth = all[s].depth /\ e.upUpdates = a.cur
  BY DEF Copies
<1> HIDE DEF s
<1>5. all[s].depth \in Nat /\ all[s].up \in 0..(s - 1)
  BY <1>1 DEF Links
<1>6. e.up \in 0..Len(all) /\ e.up # s
  BY <1>1, <1>2, <1>4, <1>5
<1> QED
  BY <1>1, <1>3, <1>4, <1>5, <1>6 DEF Fits

\* and the path that goes on in it has the frames around f, and finds there what it found.
Reentered(all, a, all2, a2, f) ==
  /\ PathOK(all2, a2) /\ FrameIn(all2, a2.cur) = f /\ AroundIn(all2, f) = AroundIn(all, f)
  /\ AroundIn(all, f) \subseteq AroundIn(all, FrameIn(all, a.cur))
  /\ \A h \in AroundIn(all, f) : FrameUpIn(all2, h) = FrameUpIn(all, h)

\* This holds of the path after the step.
LEMMA CopyPath ==
  ASSUME NEW all, Links(all), Tree(all), NEW a, PathOK(all, a), NEW f \in AroundIn(all, FrameIn(all, a.cur)),
         NEW e, Copies(all, a, f, e), NEW all2, Extended(all, all2, e),
         NEW a2, Goes(a, f, AroundIn(all, f), Len(all) + 1, a2)
  PROVE  Reentered(all, a, all2, a2, f)
<1> DEFINE m == Len(all) + 1
           R == 1..Len(all)
           here == FrameIn(all, a.cur)
           S == AroundIn(all, here)
           T == AroundIn(all, f)
<1>1. Fits(all, e) /\ e.search # e.up /\ FrameIn(all, e.search) = f /\ e.depth = all[f].depth
  BY CopyFits
<1>2. /\ Links(all2) /\ Tree(all2) /\ SameLinks(all, all2, R)
      /\ Len(all) \in Nat /\ Len(all) >= 1 /\ Len(all2) = m
  BY <1>1, ScopeLinks
<1>3. e.upUpdates = a.cur
  BY DEF Copies
<1>4. /\ FrameIn(all2, m) = f
      /\ \A d : LevelIn(all2, m, d) = IF e.depth <= d THEN m ELSE LevelIn(all, a.cur, d)
  BY <1>1, <1>3, NewScopeFrame
<1>5. /\ a.cur \in R
      /\ \A h \in S : /\ a.saved[h] \in R /\ FrameIn(all, a.saved[h]) = h
                      /\ a.saved[h] = LevelIn(all, a.cur, all[h].depth)
                      /\ h # 1 => all[h].up = a.saved[FrameUpIn(all, h)]
  BY DEF PathOK
<1>6. T \subseteq S /\ IsFrame(all, f) /\ f \in R
  <2>1. IsFrame(all, here)
    BY <1>5, FrameFacts
  <2> HIDE DEF here
  <2>2. AroundOK(all, here, S) /\ f \in S
    BY <2>1, AroundFacts DEF here
  <2> HIDE DEF S
  <2>3. IsFrame(all, f) /\ T \subseteq S
    BY <2>2 DEF AroundOK
  <2> QED
    BY <2>3 DEF IsFrame
<1>7. AroundOK(all, f, T)
  BY <1>6, AroundFacts
<1>8. /\ f \in T /\ T \subseteq 1..f
      /\ \A h \in T : IsFrame(all, h) /\ (h # 1 => FrameUpIn(all, h) \in T) /\ (h # f => all[h].depth < all[f].depth)
  BY <1>7 DEF AroundOK
<1>9. a2.cur = m /\ a2.saved = [h \in T |-> IF h = f THEN m ELSE a.saved[h]]
      /\ a2 = [cur |-> a2.cur, saved |-> a2.saved, trail |-> a2.trail]
  BY DEF Goes
<1> HIDE DEF m, S, T, here
<1>10. ASSUME NEW h \in T PROVE h \in R
  BY <1>2, <1>6, <1>8
<1>11. AroundIn(all2, f) = T
  BY <1>2, <1>6, SameAround DEF T
<1>12. ASSUME NEW h \in R PROVE FrameUpIn(all2, h) = FrameUpIn(all, h) /\ FrameIn(all2, h) = FrameIn(all, h)
  <2> HIDE DEF R
  <2> QED
    BY <1>2, SameAround, SameFrame
<1>13. \A h \in R : all2[h] = all[h]
  BY DEF Extended
<1>14. ASSUME NEW h \in T
       PROVE  /\ a2.saved[h] \in 1..Len(all2) /\ FrameIn(all2, a2.saved[h]) = h
              /\ a2.saved[h] = LevelIn(all2, a2.cur, all2[h].depth)
              /\ h # 1 => all2[h].up = a2.saved[FrameUpIn(all2, h)]
  <2>1. h \in S /\ h \in R /\ all2[h] = all[h] /\ all[h].depth \in Nat /\ all[f].depth \in Nat
    BY <1>6, <1>10, <1>13 DEF Links
  <2>2. ASSUME h # 1 PROVE all2[h].up = a2.saved[FrameUpIn(all2, h)]
    <3> DEFINE g == FrameUpIn(all, h)
    <3>1. all[g].depth = all[h].depth - 1 /\ g \in T
      BY <1>8, <2>2, OwnFrame
    <3>2. all[h].up = a.saved[g]
      BY <1>5, <2>1, <2>2
    <3>3. FrameUpIn(all2, h) = g
      BY <1>12, <2>1
    <3> HIDE DEF g
    <3>4. g # f
      <4>1. CASE h = f
        BY <2>1, <3>1, <4>1
      <4>2. CASE h # f
        BY <1>8, <2>1, <3>1, <4>2
      <4> QED
        BY <4>1, <4>2
    <3> QED
      BY <1>9, <2>1, <3>1, <3>2, <3>3, <3>4
  <2>3. CASE h = f
    <3>1. a2.saved[h] = m
      BY <1>9, <2>3
    <3>2. m \in 1..Len(all2)
      BY <1>2 DEF m
    <3>3. LevelIn(all2, m, all2[h].depth) = m
      <4>1. e.depth <= all2[h].depth
        BY <1>1, <2>1, <2>3
      <4> QED
        BY <1>4, <4>1
    <3> QED
      BY <1>4, <1>9, <2>2, <2>3, <3>1, <3>2, <3>3
  <2>4. CASE h # f
    <3>1. a2.saved[h] = a.saved[h] /\ a.saved[h] \in R /\ FrameIn(all, a.saved[h]) = h
      BY <1>5, <1>9, <2>1, <2>4
    <3>2. a.saved[h] \in 1..Len(all2)
      BY <1>2, <3>1 DEF m
    <3>3. FrameIn(all2, a.saved[h]) = h
      BY <1>12, <3>1
    <3>4. LevelIn(all2, m, all2[h].depth) = LevelIn(all, a.cur, all[h].depth)
      <4>1. ~(e.depth <= all2[h].depth)
        BY <1>1, <1>8, <2>1, <2>4
      <4> QED
        BY <1>4, <2>1, <4>1
    <3> QED
      BY <1>5, <1>9, <2>1, <2>2, <3>1, <3>2, <3>3, <3>4
  <2> QED
    BY <2>3, <2>4
<1>15. a2.saved = [h \in T |-> a2.saved[h]]
  BY <1>9
<1>16. m \in 1..Len(all2)
  BY <1>2 DEF m
<1>17. PathOK(all2, a2)
  BY <1>4, <1>9, <1>11, <1>14, <1>15, <1>16 DEF PathOK
<1> QED
  BY <1>4, <1>6, <1>9, <1>10, <1>11, <1>12, <1>17 DEF Reentered, S, T, here

\* The copy gives every name, and every symbol, what the scope it copies gives it there and
\* what the path gave it.
LEMMA CopyReads ==
  ASSUME NEW all, Links(all), Tree(all), NEW y, Content(all, y), NEW a, PathOK(all, a),
         NEW f \in AroundIn(all, FrameIn(all, a.cur)),
         NEW e, Copies(all, a, f, e), NEW all2, Extended(all, all2, e)
  PROVE  LET m == Len(all) + 1
         IN  /\ \A n : /\ InScopeIn(all2, y, m, n) = InScopeIn(all, y, a.saved[f], n)
                       /\ FindIn(all2, y, m, n) = FindIn(all, y, a.saved[f], n)
             /\ \A o : VersionIn(all2, y, m, o) = VersionIn(all, y, a.cur, o)
             /\ DeclsIn(all2, m) = DeclsIn(all, a.saved[f])
             /\ \A s \in 1..Len(all) :
                  /\ \A n : InScopeIn(all2, y, s, n) = InScopeIn(all, y, s, n)
                  /\ DeclsIn(all2, s) = DeclsIn(all, s)
<1> DEFINE m == Len(all) + 1
           R == 1..Len(all)
           t == a.saved[f]
<1>1. Fits(all, e) /\ e.search # e.up
  BY CopyFits
<1>2. /\ Links(all2) /\ Tree(all2) /\ SameLinks(all, all2, R)
      /\ Len(all) \in Nat /\ Len(all) >= 1 /\ Len(all2) = m
  BY <1>1, ScopeLinks
<1>3. m \in 1..Len(all2) /\ m \in 0..Len(all2) /\ m # 0 /\ all2[m] = e /\ R \subseteq 1..Len(all2)
  BY <1>2 DEF Extended
<1>4. /\ e.search = t /\ e.up = all[t].up /\ e.upUpdates = a.cur
      /\ e.syms = <<>> /\ e.updates = <<>>
  BY DEF Copies, Empty
<1>5. t \in R /\ a.cur \in R
  BY DEF PathOK
<1>6. \A s \in R : all2[s] = all[s]
  BY DEF Extended
<1> HIDE DEF m, R, t
<1>7. \A s \in R : s \in 1..Len(all)
  BY DEF R
<1>8. /\ \A n : \A s \in R : SymOf(all2, y, s, n) = SymOf(all, y, s, n)
      /\ \A o : \A s \in R : UpdateOf(all2, y, s, o) = UpdateOf(all, y, s, o)
  BY <1>6 DEF SymOf, UpdateOf
<1>9. ASSUME NEW s \in R, NEW n
      PROVE  InScopeIn(all2, y, s, n) = InScopeIn(all, y, s, n) /\ FindIn(all2, y, s, n) = FindIn(all, y, s, n)
  <2>1. \A r \in R : SymOf(all2, y, r, n) = SymOf(all, y, r, n)
    BY <1>8
  <2>2. Links(all)
    OBVIOUS
  <2> QED
    BY ONLY <1>2, <1>9, <2>1, <2>2, SameInScope, SameFind
<1>10. ASSUME NEW o PROVE VersionIn(all2, y, a.cur, o) = VersionIn(all, y, a.cur, o)
  <2>1. \A r \in R : UpdateOf(all2, y, r, o) = UpdateOf(all, y, r, o)
    BY <1>8
  <2>2. Links(all)
    OBVIOUS
  <2> QED
    BY ONLY <1>2, <1>5, <2>1, <2>2, SameVersion
<1>11. ASSUME NEW s \in R PROVE DeclsIn(all2, s) = DeclsIn(all, s)
  <2>1. \A r \in R : all2[r].syms = all[r].syms
    BY <1>6
  <2>2. Links(all)
    OBVIOUS
  <2> QED
    BY ONLY <1>2, <1>11, <2>1, <2>2, SameDecls
<1>12. ASSUME NEW n
       PROVE  /\ InScopeIn(all2, y, m, n) = InScopeIn(all, y, t, n)
              /\ FindIn(all2, y, m, n) = FindIn(all, y, t, n)
  <2>1. SymOf(all2, y, m, n) = NotFound
    BY <1>3, <1>4, EmptyFacts, EarliestFacts DEF SymOf
  <2>2. all2[t].up = all[t].up /\ t # 0
    BY <1>5, <1>6 DEF R
  <2>3. InScopeIn(all2, y, m, n) = InScopeIn(all2, y, t, n)
    BY <1>2, <1>3, <1>4, <2>1, <2>2, InScopeUnfold
  <2>4. FindIn(all2, y, m, n) = FindIn(all2, y, t, n)
    BY <1>2, <1>3, <1>4, <2>1, FindUnfold
  <2> QED
    BY <1>5, <1>9, <2>3, <2>4
<1>13. ASSUME NEW o PROVE VersionIn(all2, y, m, o) = VersionIn(all, y, a.cur, o)
  <2>1. UpdateOf(all2, y, m, o) = NotFound
    BY <1>3, <1>4, EmptyFacts, EarliestFacts DEF UpdateOf
  <2>2. VersionIn(all2, y, m, o) = VersionIn(all2, y, a.cur, o)
    BY <1>2, <1>3, <1>4, <2>1, VersionUnfold
  <2> QED
    BY <1>10, <2>2
<1>14. DeclsIn(all2, m) = DeclsIn(all, t)
  <2>1. all2[t].up = all[t].up /\ t # 0
    BY <1>5, <1>6 DEF R
  <2>2. DeclsIn(all2, m) = DeclsIn(all2, t)
    <3>1. DeclsIn(all2, m) = ToSet(e.syms) \cup (IF t = 0 THEN {} ELSE IF all2[t].up # e.up THEN {} ELSE DeclsIn(all2, t))
      BY <1>2, <1>3, <1>4, DeclsUnfold
    <3>2. ToSet(e.syms) = {}
      BY <1>4, EmptyFacts
    <3> QED
      BY <1>4, <2>1, <3>1, <3>2
  <2> QED
    BY <1>5, <1>11, <2>2
<1> QED
  BY <1>9, <1>11, <1>12, <1>13, <1>14 DEF m, R, t

\* So the path reads what it read, in fewer frames.
LEMMA CopyViews ==
  ASSUME NEW all, Links(all), Tree(all), NEW y, Content(all, y), NEW a, PathOK(all, a),
         NEW f \in AroundIn(all, FrameIn(all, a.cur)),
         NEW e, Copies(all, a, f, e), NEW all2, Extended(all, all2, e),
         NEW a2, Goes(a, f, AroundIn(all, f), Len(all) + 1, a2)
  PROVE  /\ DOMAIN a2.saved = AroundIn(all, f)
         /\ \A h \in AroundIn(all, f) : \A n : ValueIn(all2, y, a2, h, n) = ValueIn(all, y, a, h, n)
         /\ Distinct(all, y, a.saved[1]) => Distinct(all2, y, a2.saved[1])
<1> DEFINE m == Len(all) + 1
           R == 1..Len(all)
           S == AroundIn(all, FrameIn(all, a.cur))
           T == AroundIn(all, f)
<1>1. a2.cur = m /\ a2.saved = [h \in T |-> IF h = f THEN m ELSE a.saved[h]]
  BY DEF Goes
<1>2. /\ \A n : InScopeIn(all2, y, m, n) = InScopeIn(all, y, a.saved[f], n)
      /\ \A o : VersionIn(all2, y, m, o) = VersionIn(all, y, a.cur, o)
      /\ DeclsIn(all2, m) = DeclsIn(all, a.saved[f])
      /\ \A s \in R : /\ \A n : InScopeIn(all2, y, s, n) = InScopeIn(all, y, s, n)
                      /\ DeclsIn(all2, s) = DeclsIn(all, s)
  BY CopyReads
<1>3. T \subseteq S /\ 1 \in T
  <2> DEFINE here == FrameIn(all, a.cur)
  <2>1. a.cur \in 1..Len(all)
    BY DEF PathOK
  <2>2. IsFrame(all, here)
    BY <2>1, FrameFacts
  <2> HIDE DEF here
  <2>3. AroundOK(all, here, AroundIn(all, here)) /\ f \in AroundIn(all, here)
    BY <2>2, AroundFacts DEF here
  <2>4. IsFrame(all, f) /\ T \subseteq AroundIn(all, here)
    BY <2>3 DEF AroundOK
  <2>5. AroundOK(all, f, T)
    BY <2>4, AroundFacts
  <2> HIDE DEF T
  <2> QED
    BY <2>4, <2>5 DEF AroundOK, here
<1>4. \A h \in S : a.saved[h] \in R
  BY DEF PathOK
<1> HIDE DEF m, R, S, T
<1>5. ASSUME NEW h \in T, NEW n PROVE ValueIn(all2, y, a2, h, n) = ValueIn(all, y, a, h, n)
  <2> DEFINE x == InScopeIn(all, y, a.saved[h], n)
  <2>1. InScopeIn(all2, y, a2.saved[h], n) = x
    BY <1>1, <1>2, <1>3, <1>4
  <2>2. CurrentIn(all2, y, a2.cur, x) = CurrentIn(all, y, a.cur, x)
    BY <1>1, <1>2 DEF CurrentIn
  <2> QED
    BY <2>1, <2>2 DEF ValueIn
<1>6. DeclsIn(all2, a2.saved[1]) = DeclsIn(all, a.saved[1])
  BY <1>1, <1>2, <1>3, <1>4
<1>7. DOMAIN a2.saved = T
  BY <1>1
<1> QED
  BY <1>5, <1>6, <1>7 DEF Distinct, T

-----------------------------------------------------------------------------
(* Opening a scope.                                                        *)

\* The scope e that new_D_Scope makes in the current scope of a path.
Opens(all, a, e) ==
  /\ Empty(e) /\ e.search = a.cur /\ e.up = a.cur /\ e.upUpdates = a.cur
  /\ e.depth = all[a.cur].depth + 1

\* It fits, as a new frame in the frame of that scope,
LEMMA OpenFits ==
  ASSUME NEW all, Links(all), Tree(all), NEW a, PathOK(all, a), NEW e, Opens(all, a, e)
  PROVE  Fits(all, e) /\ all[a.cur].depth \in Nat /\ e.depth = all[a.cur].depth + 1
<1> DEFINE s == a.cur
           d == all[s].depth
<1>1. s \in 1..Len(all)
  BY DEF PathOK
<1>2. Len(all) \in Nat
  BY SeqFacts DEF Links
<1>3. e.search = s /\ e.up = s /\ e.upUpdates = s /\ e.depth = d + 1
  BY DEF Opens
<1> HIDE DEF s, d
<1>4. d \in Nat
  BY <1>1 DEF Links, d
<1>5. d + 1 \in Nat /\ d <= d + 1 /\ s \in 0..Len(all)
  BY <1>1, <1>2, <1>4
<1>6. LevelIn(all, s, d + 1) = s
  <2> DEFINE k == d + 1
  <2>1. k \in Nat /\ all[s].depth <= k
    BY <1>4, <1>5 DEF d
  <2> HIDE DEF k
  <2>2. LevelIn(all, s, k) = s
    BY <1>1, <2>1, LevelFacts
  <2> QED
    BY <2>2 DEF k
<1> QED
  BY <1>1, <1>3, <1>4, <1>5, <1>6 DEF Fits, s, d

\* where the path finds nothing, and elsewhere what it found.
Opened(all, a, all2, a2) ==
  LET m == Len(all) + 1
      here == FrameIn(all, a.cur)
  IN  /\ PathOK(all2, a2) /\ FrameIn(all2, a2.cur) = m
      /\ AroundIn(all2, m) = {m} \cup AroundIn(all, here)
      /\ FrameUpIn(all2, m) = here
      /\ \A h \in AroundIn(all, here) : FrameUpIn(all2, h) = FrameUpIn(all, h) /\ h \in 1..Len(all)

\* This holds of the path after the step.
LEMMA OpenPath ==
  ASSUME NEW all, Links(all), Tree(all), NEW a, PathOK(all, a), NEW e, Opens(all, a, e),
         NEW all2, Extended(all, all2, e),
         NEW a2, Goes(a, Len(all) + 1, AroundIn(all, FrameIn(all, a.cur)) \cup {Len(all) + 1}, Len(all) + 1, a2)
  PROVE  Opened(all, a, all2, a2)
<1> DEFINE m == Len(all) + 1
           R == 1..Len(all)
           here == FrameIn(all, a.cur)
           S == AroundIn(all, here)
<1>1. Fits(all, e) /\ all[a.cur].depth \in Nat /\ e.depth = all[a.cur].depth + 1
  BY OpenFits
<1>2. /\ Links(all2) /\ Tree(all2) /\ SameLinks(all, all2, R)
      /\ Len(all) \in Nat /\ Len(all) >= 1 /\ Len(all2) = m
  BY <1>1, ScopeLinks
<1>3. e.search = e.up /\ e.up = a.cur /\ e.upUpdates = a.cur
  BY DEF Opens
<1>4. /\ FrameIn(all2, m) = m
      /\ \A d : LevelIn(all2, m, d) = IF e.depth <= d THEN m ELSE LevelIn(all, a.cur, d)
  BY <1>1, <1>3, NewScopeFrame
<1>5. /\ a.cur \in R
      /\ \A h \in S : /\ a.saved[h] \in R /\ FrameIn(all, a.saved[h]) = h
                      /\ a.saved[h] = LevelIn(all, a.cur, all[h].depth)
                      /\ h # 1 => all[h].up = a.saved[FrameUpIn(all, h)]
  BY DEF PathOK
<1>6. IsFrame(all, here) /\ here \in R /\ all[here].depth = all[a.cur].depth
  BY <1>5, FrameFacts DEF IsFrame
<1> HIDE DEF here
<1>7. AroundOK(all, here, S)
  BY <1>6, AroundFacts
<1> HIDE DEF S
<1>8. /\ here \in S /\ S \subseteq 1..here
      /\ \A h \in S : IsFrame(all, h) /\ (h # 1 => FrameUpIn(all, h) \in S) /\ (h # here => all[h].depth < all[here].depth)
  BY <1>7 DEF AroundOK
<1>9. a2.cur = m /\ a2.saved = [h \in S \cup {m} |-> IF h = m THEN m ELSE a.saved[h]]
      /\ a2 = [cur |-> a2.cur, saved |-> a2.saved, trail |-> a2.trail]
  BY DEF Goes, S, here
<1>10. ASSUME NEW h \in S PROVE h \in R /\ h # m
  BY <1>2, <1>6, <1>8
<1>11. \A h \in R : all2[h] = all[h] /\ h # m
  BY <1>2 DEF Extended
<1>12. all2[m] = e /\ m \in 1..Len(all2) /\ m \in 0..Len(all2) /\ m # 0 /\ m # 1
  BY <1>2 DEF Extended
<1> HIDE DEF m
<1>13. ASSUME NEW h \in R
       PROVE  /\ FrameUpIn(all2, h) = FrameUpIn(all, h) /\ FrameIn(all2, h) = FrameIn(all, h)
              /\ AroundIn(all2, h) = AroundIn(all, h)
  <2> HIDE DEF R
  <2> QED
    BY <1>2, SameAround, SameFrame
<1>14. FrameUpIn(all2, m) = here
  <2>1. a.cur # 0
    BY <1>5
  <2> QED
    BY <1>3, <1>5, <1>12, <1>13, <2>1 DEF FrameUpIn, here
<1>15. AroundIn(all2, m) = {m} \cup S
  <2>1. AroundIn(all2, m) = {m} \cup AroundIn(all2, here)
    BY <1>2, <1>12, <1>14, AroundUnfold
  <2> QED
    BY <1>6, <1>13, <2>1 DEF S
<1>16. a.saved[here] = a.cur
  BY SavedFacts DEF here
<1>17. ASSUME NEW h \in S \cup {m}
       PROVE  /\ a2.saved[h] \in 1..Len(all2) /\ FrameIn(all2, a2.saved[h]) = h
              /\ a2.saved[h] = LevelIn(all2, a2.cur, all2[h].depth)
              /\ h # 1 => all2[h].up = a2.saved[FrameUpIn(all2, h)]
  <2>1. CASE h = m
    <3>1. a2.saved[h] = m
      BY <1>9, <2>1
    <3>2. LevelIn(all2, m, all2[h].depth) = m
      <4>1. e.depth <= all2[h].depth
        BY <1>1, <1>12, <2>1
      <4> QED
        BY <1>4, <4>1
    <3>3. all2[h].up = a2.saved[FrameUpIn(all2, h)]
      BY <1>3, <1>8, <1>9, <1>10, <1>12, <1>14, <1>16, <2>1
    <3> QED
      BY <1>4, <1>9, <1>12, <2>1, <3>1, <3>2, <3>3
  <2>2. CASE h \in S
    <3>1. h \in R /\ h # m /\ all2[h] = all[h]
      BY <1>10, <1>11, <2>2
    <3>2. a2.saved[h] = a.saved[h] /\ a.saved[h] \in R /\ FrameIn(all, a.saved[h]) = h
      BY <1>5, <1>9, <2>2, <3>1
    <3>3. a.saved[h] \in 1..Len(all2)
      BY <1>2, <3>2 DEF SameLinks
    <3>4. FrameIn(all2, a.saved[h]) = h
      BY <1>13, <3>2
    <3>5. LevelIn(all2, m, all2[h].depth) = LevelIn(all, a.cur, all[h].depth)
      <4>1. all[h].depth \in Nat
        BY <3>1 DEF Links
      <4>2. all[h].depth <= all[here].depth
        <5>1. CASE h = here
          BY <4>1, <5>1
        <5>2. CASE h # here
          <6>1. all[h].depth < all[here].depth
            BY <1>8, <2>2, <5>2
          <6> QED
            BY <1>1, <1>6, <4>1, <6>1
        <5> QED
          BY <5>1, <5>2
      <4>3. ~(e.depth <= all2[h].depth)
        BY <1>1, <1>6, <3>1, <4>1, <4>2
      <4> QED
        BY <1>4, <3>1, <4>3
    <3>6. ASSUME h # 1 PROVE all2[h].up = a2.saved[FrameUpIn(all2, h)]
      <4>1. FrameUpIn(all2, h) = FrameUpIn(all, h) /\ FrameUpIn(all, h) \in S
        BY <1>8, <1>13, <2>2, <3>1, <3>6
      <4>2. FrameUpIn(all, h) # m
        BY <1>10, <4>1
      <4> QED
        BY <1>5, <1>9, <2>2, <3>1, <3>6, <4>1, <4>2
    <3> QED
      BY <1>5, <1>9, <2>2, <3>2, <3>3, <3>4, <3>5, <3>6
  <2> QED
    BY <2>1, <2>2
<1>18. a2.saved = [h \in S \cup {m} |-> a2.saved[h]]
  BY <1>9
<1>19. PathOK(all2, a2)
  BY <1>4, <1>9, <1>12, <1>15, <1>17, <1>18 DEF PathOK
<1>20. FrameIn(all2, a2.cur) = m
  BY <1>4, <1>9
<1> QED
  BY <1>10, <1>13, <1>14, <1>15, <1>19, <1>20 DEF Opened, S, here, m, R

\* In the new frame no name has a value; in the others each has the one it had.
LEMMA OpenViews ==
  ASSUME NEW all, Links(all), Tree(all), NEW y, Content(all, y), NEW a, PathOK(all, a),
         NEW e, Opens(all, a, e), NEW all2, Extended(all, all2, e),
         NEW a2, Goes(a, Len(all) + 1, AroundIn(all, FrameIn(all, a.cur)) \cup {Len(all) + 1}, Len(all) + 1, a2)
  PROVE  /\ DOMAIN a2.saved = AroundIn(all, FrameIn(all, a.cur)) \cup {Len(all) + 1}
         /\ \A n : ValueIn(all2, y, a2, Len(all) + 1, n) = <<>>
         /\ \A h \in AroundIn(all, FrameIn(all, a.cur)) : \A n : ValueIn(all2, y, a2, h, n) = ValueIn(all, y, a, h, n)
         /\ Distinct(all, y, a.saved[1]) => Distinct(all2, y, a2.saved[1])
<1> DEFINE m == Len(all) + 1
           R == 1..Len(all)
           S == AroundIn(all, FrameIn(all, a.cur))
<1>1. Fits(all, e)
  BY OpenFits
<1>2. /\ Links(all2) /\ Tree(all2) /\ SameLinks(all, all2, R)
      /\ Len(all) \in Nat /\ Len(all) >= 1 /\ Len(all2) = m
  BY <1>1, ScopeLinks
<1>3. m \in 1..Len(all2) /\ m \in 0..Len(all2) /\ m # 0 /\ m # 1 /\ all2[m] = e /\ m \notin R
  BY <1>2 DEF Extended
<1>4. /\ e.search = a.cur /\ e.up = a.cur /\ e.upUpdates = a.cur
      /\ e.syms = <<>> /\ e.updates = <<>>
  BY DEF Opens, Empty
<1>5. a.cur \in R /\ \A h \in S : a.saved[h] \in R
  BY DEF PathOK
<1>6. \A s \in R : all2[s] = all[s]
  BY DEF Extended
<1>7. a2.cur = m /\ a2.saved = [h \in S \cup {m} |-> IF h = m THEN m ELSE a.saved[h]]
  BY DEF Goes
<1>8. 1 \in S /\ \A h \in S : h \in R
  BY SavedFacts, SavedInHistory DEF PathOK
<1>9. all[a.cur].up # a.cur /\ a.cur # 0
  <2>1. all[a.cur].up \in 0..(a.cur - 1)
    BY <1>5 DEF Links
  <2> QED
    BY <1>5, <2>1
<1> HIDE DEF m, R, S
<1>10. \A s \in R : s \in 1..Len(all)
  BY DEF R
<1>11. /\ \A n : \A s \in R : SymOf(all2, y, s, n) = SymOf(all, y, s, n)
       /\ \A o : \A s \in R : UpdateOf(all2, y, s, o) = UpdateOf(all, y, s, o)
  BY <1>6 DEF SymOf, UpdateOf
<1>12. ASSUME NEW s \in R, NEW n PROVE InScopeIn(all2, y, s, n) = InScopeIn(all, y, s, n)
  <2>1. \A r \in R : SymOf(all2, y, r, n) = SymOf(all, y, r, n)
    BY <1>11
  <2>2. Links(all)
    OBVIOUS
  <2> QED
    BY ONLY <1>2, <1>12, <2>1, <2>2, SameInScope
<1>13. ASSUME NEW o PROVE VersionIn(all2, y, m, o) = VersionIn(all, y, a.cur, o)
  <2>1. \A r \in R : UpdateOf(all2, y, r, o) = UpdateOf(all, y, r, o)
    BY <1>11
  <2>2. Links(all)
    OBVIOUS
  <2>3. VersionIn(all2, y, a.cur, o) = VersionIn(all, y, a.cur, o)
    BY ONLY <1>2, <1>5, <2>1, <2>2, SameVersion
  <2>4. UpdateOf(all2, y, m, o) = NotFound
    BY <1>3, <1>4, EmptyFacts, EarliestFacts DEF UpdateOf
  <2>5. VersionIn(all2, y, m, o) = VersionIn(all2, y, a.cur, o)
    BY <1>2, <1>3, <1>4, <2>4, VersionUnfold
  <2> QED
    BY <2>3, <2>5
<1>14. ASSUME NEW n PROVE ValueIn(all2, y, a2, m, n) = <<>>
  <2>1. SymOf(all2, y, m, n) = NotFound
    BY <1>3, <1>4, EmptyFacts, EarliestFacts DEF SymOf
  <2>2. InScopeIn(all2, y, m, n) = NotFound
    BY <1>2, <1>3, <1>4, <1>5, <1>6, <1>9, <2>1, InScopeUnfold
  <2> QED
    BY <1>7, <2>2 DEF ValueIn
<1>15. ASSUME NEW h \in S, NEW n PROVE ValueIn(all2, y, a2, h, n) = ValueIn(all, y, a, h, n)
  <2> DEFINE x == InScopeIn(all, y, a.saved[h], n)
  <2>1. a2.saved[h] = a.saved[h] /\ a.saved[h] \in R
    BY <1>3, <1>5, <1>7, <1>8
  <2>2. InScopeIn(all2, y, a2.saved[h], n) = x
    BY <1>12, <2>1
  <2>3. CurrentIn(all2, y, a2.cur, x) = CurrentIn(all, y, a.cur, x)
    BY <1>7, <1>13 DEF CurrentIn
  <2> QED
    BY <2>2, <2>3 DEF ValueIn
<1>16. DeclsIn(all2, a2.saved[1]) = DeclsIn(all, a.saved[1])
  <2>1. a2.saved[1] = a.saved[1] /\ a.saved[1] \in R
    BY <1>3, <1>5, <1>7, <1>8
  <2>2. \A r \in R : all2[r].syms = all[r].syms
    BY <1>6
  <2>3. Links(all)
    OBVIOUS
  <2>4. \A s \in R : DeclsIn(all2, s) = DeclsIn(all, s)
    BY ONLY <1>2, <2>2, <2>3, SameDecls
  <2> QED
    BY <2>1, <2>4
<1>17. DOMAIN a2.saved = S \cup {m}
  BY <1>7
<1> QED
  BY <1>14, <1>15, <1>16, <1>17 DEF Distinct, S, m

-----------------------------------------------------------------------------
(* Declaring a symbol.                                                     *)

\* The older scopes are closed under the links.
LEMMA OlderClosed ==
  ASSUME NEW all, Links(all), NEW c \in 1..Len(all)
  PROVE  Closed(all, 1..(c - 1))
<1>1. Len(all) \in Nat
  BY SeqFacts DEF Links
<1>2. ASSUME NEW s \in 1..(c - 1)
      PROVE  /\ s # 1 => all[s].search \in 1..(c - 1) /\ all[s].upUpdates \in 1..(c - 1)
             /\ all[s].up # 0 => all[s].up \in 1..(c - 1)
  <2>1. s \in 1..Len(all)
    BY <1>1
  <2>2. /\ all[s].up \in 0..(s - 1) /\ all[s].search \in 0..(s - 1) /\ all[s].upUpdates \in 0..(s - 1)
        /\ s # 1 => all[s].search # 0 /\ all[s].upUpdates # 0
    BY <2>1 DEF Links
  <2> QED
    BY <2>2
<1>3. 1..(c - 1) \subseteq 1..Len(all)
  BY <1>1
<1> QED
  BY <1>2, <1>3 DEF Closed

\* A path saved older scopes of the other frames.
LEMMA SavedOlder ==
  ASSUME NEW all, Links(all), Tree(all), NEW a, PathOK(all, a), NEW f \in AroundIn(all, FrameIn(all, a.cur)),
         f # FrameIn(all, a.cur)
  PROVE  a.saved[f] \in 1..(a.cur - 1)
<1> DEFINE here == FrameIn(all, a.cur)
           d == all[f].depth
<1>1. a.cur \in 1..Len(all) /\ a.saved[f] = LevelIn(all, a.cur, d)
  BY DEF PathOK
<1>2. IsFrame(all, here) /\ all[here].depth = all[a.cur].depth
  BY <1>1, FrameFacts
<1>3. f \in 1..Len(all)
  BY SavedInHistory
<1>4. d \in Nat /\ all[a.cur].depth \in Nat
  BY <1>1, <1>3 DEF Links
<1> HIDE DEF here
<1>5. d < all[here].depth
  BY <1>2, AroundFacts DEF AroundOK, here
<1> HIDE DEF d
<1>6. ~(all[a.cur].depth <= d)
  BY <1>2, <1>4, <1>5
<1>7. a.cur \in 1..Len(all) /\ all[a.cur].upUpdates \in 1..(a.cur - 1) /\ a.saved[f] = LevelIn(all, all[a.cur].upUpdates, d)
  <2> DEFINE s == a.cur
  <2>1. s \in 1..Len(all) /\ ~(all[s].depth <= d)
    BY <1>1, <1>6
  <2> HIDE DEF s
  <2>2. all[s].upUpdates \in 1..(s - 1) /\ LevelIn(all, s, d) = LevelIn(all, all[s].upUpdates, d)
    BY <1>4, <2>1, LevelFacts
  <2> QED
    BY <1>1, <2>2 DEF s
<1> DEFINE u == all[a.cur].upUpdates
<1>8. Len(all) \in Nat
  BY SeqFacts DEF Links
<1>9. u \in 1..Len(all) /\ u \in 1..(a.cur - 1)
  BY <1>7, <1>8
<1> HIDE DEF u
<1>10. LevelIn(all, u, d) \in 1..u
  BY <1>4, <1>9, LevelFacts
<1> QED
  BY <1>1, <1>7, <1>9, <1>10 DEF u

\* A symbol z, new in y2, of no scope yet is put in the current scope c of a path.
NewSym(all, y, all2, y2, c, w) ==
  /\ Extended(y, y2, w) /\ Symbol(y, w) /\ w.of = 0 /\ w.scope = c
  /\ SymPut(all, all2, c, Len(y) + 1)

\* The symbols found in the scopes up to c, and the versions, are as before but for that name in c.
LEMMA NewSymReads ==
  ASSUME NEW all, Links(all), Tree(all), NEW y, Content(all, y), NEW c \in 1..Len(all), NEW w,
         NEW all2, NEW y2, NewSym(all, y, all2, y2, c, w)
  PROVE  /\ \A s \in 1..(c - 1) : /\ \A n : InScopeIn(all2, y2, s, n) = InScopeIn(all, y, s, n)
                                  /\ DeclsIn(all2, s) = DeclsIn(all, s)
         /\ \A n : InScopeIn(all2, y2, c, n) = IF w.name = n THEN Len(y) + 1 ELSE InScopeIn(all, y, c, n)
         /\ DeclsIn(all2, c) = {Len(y) + 1} \cup DeclsIn(all, c)
         /\ \A s \in 1..Len(all) : \A o : VersionIn(all2, y2, s, o) = VersionIn(all, y, s, o)
<1> DEFINE z == Len(y) + 1
           R == 1..(c - 1)
           A == 1..Len(all)
<1>1. /\ Content(all, y2) /\ Len(y) \in Nat /\ Len(y2) = Len(y) + 1
      /\ y2[Len(y) + 1] = w /\ \A x \in 1..Len(y) : y2[x] = y[x]
  BY SymbolContent DEF NewSym
<1>2. Links(all2) /\ Tree(all2) /\ Len(all2) = Len(all) /\ \A Q : Closed(all, Q) => SameLinks(all, all2, Q)
  BY PutLinks DEF NewSym
<1>3. SameLinks(all, all2, R)
  BY <1>2, OlderClosed
<1>4. SameLinks(all, all2, A)
  <2>1. Closed(all, A)
    <3> HIDE DEF A
    <3>1. Len(all) \in Nat
      BY SeqFacts DEF Links
    <3>2. \A s \in 1..Len(all) : /\ all[s].up \in 0..(s - 1) /\ all[s].search \in 0..(s - 1) /\ all[s].upUpdates \in 0..(s - 1)
                                 /\ s # 1 => all[s].search # 0 /\ all[s].upUpdates # 0
      BY DEF Links
    <3>3. \A s \in 1..Len(all) : /\ s # 1 => all[s].search \in 1..Len(all) /\ all[s].upUpdates \in 1..Len(all)
                                 /\ all[s].up # 0 => all[s].up \in 1..Len(all)
      BY SMTT(30), <3>1, <3>2
    <3> QED
      BY <3>3 DEF Closed, A
  <2> QED
    BY <1>2, <2>1
<1>5. Len(all) \in Nat
  BY SeqFacts DEF Links
<1>6. /\ \A s \in A : s # c => all2[s] = all[s]
      /\ all2[c].syms = <<z>> \o all[c].syms /\ all2[c].updates = all[c].updates
      /\ all2[c].up = all[c].up /\ all2[c].search = all[c].search
  BY DEF NewSym, SymPut
<1>7. \A s \in A : ToSet(all[s].syms) \subseteq 1..Len(y) /\ ToSet(all[s].updates) \subseteq 1..Len(y)
  BY DEF Content
<1> HIDE DEF z
<1>8. /\ \A s \in A : \A x \in ToSet(all[s].syms) : y2[x].name = y[x].name
      /\ \A s \in A : \A x \in ToSet(all[s].updates) : y2[x].of = y[x].of
  BY <1>1, <1>7
<1>9. \A s \in R : s \in A /\ s # c
  BY <1>5
<1>10. \A n : \A s \in R : SymOf(all2, y2, s, n) = SymOf(all, y, s, n)
  <2> SUFFICES ASSUME NEW n, NEW s \in R PROVE SymOf(all2, y2, s, n) = SymOf(all, y, s, n)
    OBVIOUS
  <2>1. s \in 1..Len(all) /\ all2[s].syms = all[s].syms /\ \A x \in ToSet(all[s].syms) : y2[x].name = y[x].name
    BY <1>6, <1>8, <1>9
  <2> QED
    BY <2>1, SameSymOf
<1>11. \A n : SymOf(all2, y2, c, n) = IF w.name = n THEN z ELSE SymOf(all, y, c, n)
  <2>1. \A x \in ToSet(all[c].syms) : y2[x].name = y[x].name
    BY <1>8
  <2>2. Longer(all2[c].syms, z, all[c].syms) /\ y2[z] = w
    <3>1. IsSeq(all[c].syms)
      BY DEF Content
    <3>2. Longer(<<z>> \o all[c].syms, z, all[c].syms)
      BY <3>1, PutFirst
    <3> QED
      BY <1>1, <1>6, <3>2 DEF z
  <2>3. Content(all, y) /\ c \in 1..Len(all)
    OBVIOUS
  <2>4. ASSUME NEW n PROVE SymOf(all2, y2, c, n) = IF y2[z].name = n THEN z ELSE SymOf(all, y, c, n)
    BY ONLY <2>1, <2>2, <2>3, LongerSymOf
  <2> QED
    BY <2>2, <2>4
<1>12. ASSUME NEW s \in A, NEW o PROVE VersionIn(all2, y2, s, o) = VersionIn(all, y, s, o)
  <2>1. ASSUME NEW t \in A PROVE UpdateOf(all2, y2, t, o) = UpdateOf(all, y, t, o)
    <3>1. t \in 1..Len(all) /\ all2[t].updates = all[t].updates /\ \A x \in ToSet(all[t].updates) : y2[x].of = y[x].of
      BY <1>6, <1>8
    <3> QED
      BY <3>1, SameUpdateOf
  <2>2. \A t \in A : UpdateOf(all2, y2, t, o) = UpdateOf(all, y, t, o)
    BY <2>1
  <2>3. Links(all)
    OBVIOUS
  <2> HIDE DEF A
  <2> QED
    BY ONLY <1>2, <1>4, <1>12, <2>2, <2>3, SameVersion
<1> HIDE DEF R, A
<1>13. ASSUME NEW s \in R
       PROVE  /\ \A n : InScopeIn(all2, y2, s, n) = InScopeIn(all, y, s, n)
              /\ DeclsIn(all2, s) = DeclsIn(all, s)
  <2>1. Links(all)
    OBVIOUS
  <2>2. ASSUME NEW n PROVE InScopeIn(all2, y2, s, n) = InScopeIn(all, y, s, n)
    <3>1. \A t \in R : SymOf(all2, y2, t, n) = SymOf(all, y, t, n)
      BY <1>10
    <3> QED
      BY ONLY <1>2, <1>3, <1>13, <2>1, <3>1, SameInScope
  <2>3. DeclsIn(all2, s) = DeclsIn(all, s)
    <3>1. \A t \in R : all2[t].syms = all[t].syms
      BY <1>6, <1>9
    <3> QED
      BY ONLY <1>2, <1>3, <1>13, <2>1, <3>1, SameDecls
  <2> QED
    BY <2>2, <2>3
<1> DEFINE t == all[c].search
<1>14. /\ t = 0 \/ t \in R
       /\ t # 0 => all2[t].up = all[t].up
       /\ all2[c].search = t /\ all2[c].up = all[c].up
  <2>1. t \in 0..(c - 1)
    BY DEF Links
  <2>2. t = 0 \/ t \in R
    BY <2>1 DEF R
  <2> HIDE DEF t
  <2> QED
    BY <1>6, <1>9, <2>2 DEF t
<1> HIDE DEF t
<1>15. ASSUME NEW n
       PROVE  InScopeIn(all2, y2, c, n) = IF w.name = n THEN z ELSE InScopeIn(all, y, c, n)
  <2>1. InScopeIn(all2, y2, c, n) = IF SymOf(all2, y2, c, n) # NotFound THEN SymOf(all2, y2, c, n)
                                    ELSE IF t = 0 THEN NotFound
                                    ELSE IF all2[t].up # all2[c].up THEN NotFound ELSE InScopeIn(all2, y2, t, n)
    BY <1>2, <1>14, InScopeUnfold
  <2>2. InScopeIn(all, y, c, n) = IF SymOf(all, y, c, n) # NotFound THEN SymOf(all, y, c, n)
                                  ELSE IF t = 0 THEN NotFound
                                  ELSE IF all[t].up # all[c].up THEN NotFound ELSE InScopeIn(all, y, t, n)
    BY InScopeUnfold DEF t
  <2>3. z # NotFound
    BY <1>1 DEF z, NotFound
  <2>4. t # 0 => InScopeIn(all2, y2, t, n) = InScopeIn(all, y, t, n)
    BY <1>13, <1>14
  <2> QED
    BY <1>11, <1>14, <2>1, <2>2, <2>3, <2>4
<1>16. DeclsIn(all2, c) = {z} \cup DeclsIn(all, c)
  <2>1. DeclsIn(all2, c) = ToSet(all2[c].syms) \cup (IF t = 0 THEN {} ELSE IF all2[t].up # all2[c].up THEN {} ELSE DeclsIn(all2, t))
    BY <1>2, <1>14, DeclsUnfold
  <2>2. DeclsIn(all, c) = ToSet(all[c].syms) \cup (IF t = 0 THEN {} ELSE IF all[t].up # all[c].up THEN {} ELSE DeclsIn(all, t))
    BY DeclsUnfold DEF t
  <2>3. ToSet(all2[c].syms) = {z} \cup ToSet(all[c].syms)
    <3> DEFINE r == <<z>>
               q == all[c].syms
    <3>1. IsSeq(r) /\ ToSet(r) = {z} /\ IsSeq(q)
      BY SingleFacts DEF Content
    <3> HIDE DEF r, q
    <3>2. ToSet(r \o q) = ToSet(r) \cup ToSet(q)
      BY <3>1, ConcatFacts
    <3> QED
      BY <1>6, <3>1, <3>2 DEF r, q
  <2>4. t # 0 => DeclsIn(all2, t) = DeclsIn(all, t)
    BY <1>13, <1>14
  <2> QED
    BY <1>14, <2>1, <2>2, <2>3, <2>4
<1> QED
  BY <1>12, <1>13, <1>15, <1>16 DEF R, A, z

\* The version of a symbol found by a path.
LEMMA FoundVersion ==
  ASSUME NEW all, Links(all), Tree(all), NEW y, Content(all, y), NEW s \in 1..Len(all), NEW n,
         NEW st \in 1..Len(all), InScopeIn(all, y, s, n) # NotFound
  PROVE  LET x == InScopeIn(all, y, s, n)
             o == IF y[x].of # 0 THEN y[x].of ELSE x
         IN  /\ x \in 1..Len(y) /\ o \in 1..Len(y)
             /\ CurrentIn(all, y, st, x) = VersionIn(all, y, st, o) /\ VersionIn(all, y, st, o) \in 1..Len(y)
<1> DEFINE x == InScopeIn(all, y, s, n)
           o == IF y[x].of # 0 THEN y[x].of ELSE x
<1>1. x \in 1..Len(y)
  BY InScopeFacts
<1>2. Len(y) \in Nat /\ y[x].of \in 0..Len(y)
  BY <1>1, SeqFacts DEF Content
<1>3. o \in 1..Len(y)
  BY <1>1, <1>2
<1>4. CurrentIn(all, y, st, x) = VersionIn(all, y, st, o)
  BY DEF CurrentIn
<1> HIDE DEF o
<1>5. st \in 0..Len(all)
  OBVIOUS
<1>6. VersionIn(all, y, st, o) \in 1..Len(y)
  BY <1>3, <1>5, VersionFacts
<1> QED
  BY <1>1, <1>3, <1>4, <1>6 DEF o

\* The declaration changes what the path reads at its frame under that name, and nothing else.
LEMMA DeclareViews ==
  ASSUME NEW all, Links(all), Tree(all), NEW y, Content(all, y), NEW a, PathOK(all, a), NEW w,
         NEW all2, NEW y2, NewSym(all, y, all2, y2, a.cur, w), InScopeIn(all, y, a.cur, w.name) = NotFound
  PROVE  /\ ValueIn(all2, y2, a, FrameIn(all, a.cur), w.name) = w.val
         /\ \A h \in AroundIn(all, FrameIn(all, a.cur)) : \A n :
              h # FrameIn(all, a.cur) \/ n # w.name => ValueIn(all2, y2, a, h, n) = ValueIn(all, y, a, h, n)
         /\ Distinct(all, y, a.saved[1]) => Distinct(all2, y2, a.saved[1])
<1> DEFINE z == Len(y) + 1
           c == a.cur
           here == FrameIn(all, c)
           S == AroundIn(all, here)
<1>1. /\ Content(all, y2) /\ Len(y) \in Nat /\ Len(y2) = Len(y) + 1
      /\ y2[z] = w /\ \A x \in 1..Len(y) : y2[x] = y[x]
  BY SymbolContent DEF NewSym
<1>2. c \in 1..Len(all) /\ here \in S /\ a.saved[here] = c /\ 1 \in S
  BY SavedFacts
<1> HIDE DEF z, c, here
<1>3. /\ \A s \in 1..(c - 1) : /\ \A n : InScopeIn(all2, y2, s, n) = InScopeIn(all, y, s, n)
                               /\ DeclsIn(all2, s) = DeclsIn(all, s)
      /\ \A n : InScopeIn(all2, y2, c, n) = IF w.name = n THEN z ELSE InScopeIn(all, y, c, n)
      /\ DeclsIn(all2, c) = {z} \cup DeclsIn(all, c)
      /\ \A s \in 1..Len(all) : \A o : VersionIn(all2, y2, s, o) = VersionIn(all, y, s, o)
  <2>1. NewSym(all, y, all2, y2, c, w)
    BY DEF c
  <2> QED
    BY <1>2, <2>1, NewSymReads DEF z
<1> HIDE DEF S
<1>4. ASSUME NEW h \in S, h # here PROVE a.saved[h] \in 1..(c - 1)
  BY <1>4, SavedOlder DEF S, here, c
<1>5. \A h \in S : a.saved[h] \in 1..Len(all)
  BY DEF PathOK, S, here, c
<1>6. ASSUME NEW h \in S, NEW n, h # here \/ n # w.name
      PROVE  ValueIn(all2, y2, a, h, n) = ValueIn(all, y, a, h, n)
  <2> DEFINE s == a.saved[h]
             x == InScopeIn(all, y, s, n)
             o == IF y[x].of # 0 THEN y[x].of ELSE x
             v == VersionIn(all, y, c, o)
  <2>1. InScopeIn(all2, y2, s, n) = x
    <3>1. CASE h = here
      BY <1>2, <1>3, <1>6, <3>1
    <3>2. CASE h # here
      BY <1>3, <1>4, <3>2
    <3> QED
      BY <3>1, <3>2
  <2>2. s \in 1..Len(all)
    BY <1>5
  <2> HIDE DEF s
  <2>3. ASSUME x # NotFound PROVE y2[CurrentIn(all2, y2, c, x)].val = y[CurrentIn(all, y, c, x)].val
    <3>1. /\ x \in 1..Len(y) /\ o \in 1..Len(y)
          /\ CurrentIn(all, y, c, x) = v /\ v \in 1..Len(y)
      BY SMTT(30), <1>2, <2>2, <2>3, FoundVersion
    <3> HIDE DEF x
    <3>2. y2[x] = y[x]
      BY <1>1, <3>1
    <3>3. CurrentIn(all2, y2, c, x) = VersionIn(all2, y2, c, o)
      BY <3>2 DEF CurrentIn
    <3> HIDE DEF o
    <3>4. VersionIn(all2, y2, c, o) = v
      BY <1>2, <1>3
    <3> HIDE DEF v
    <3> QED
      BY <1>1, <3>1, <3>3, <3>4
  <2> QED
    BY <2>1, <2>3 DEF ValueIn, s, c
<1>7. ValueIn(all2, y2, a, here, w.name) = w.val
  <2>1. InScopeIn(all2, y2, c, w.name) = z /\ z # NotFound
    BY <1>1, <1>3 DEF z, NotFound
  <2>2. y2[z].of = 0
    BY <1>1 DEF NewSym
  <2>3. CurrentIn(all2, y2, c, z) = VersionIn(all2, y2, c, z)
    BY <2>2 DEF CurrentIn
  <2>4. VersionIn(all2, y2, c, z) = z
    <3>1. VersionIn(all2, y2, c, z) = VersionIn(all, y2, c, z)
      <4>1. VersionIn(all2, y2, c, z) = VersionIn(all, y, c, z)
        BY <1>2, <1>3
      <4>2. VersionIn(all, y2, c, z) = VersionIn(all, y, c, z)
        <5> DEFINE A == 1..Len(all)
        <5>1. \A t \in A : UpdateOf(all, y2, t, z) = UpdateOf(all, y, t, z)
          <6> SUFFICES ASSUME NEW t \in 1..Len(all) PROVE UpdateOf(all, y2, t, z) = UpdateOf(all, y, t, z)
            OBVIOUS
          <6>1. ToSet(all[t].updates) \subseteq 1..Len(y)
            BY DEF Content
          <6>2. \A u \in ToSet(all[t].updates) : y2[u].of = y[u].of
            BY <1>1, <6>1
          <6> QED
            BY <6>2, SameUpdateOf
        <5>2. SameLinks(all, all, A) /\ c \in A
          <6>1. Len(all) \in Nat
            BY SeqFacts DEF Links
          <6>2. \A s \in A : /\ all[s].up \in 0..(s - 1) /\ all[s].search \in 0..(s - 1) /\ all[s].upUpdates \in 0..(s - 1)
                             /\ s # 1 => all[s].search # 0 /\ all[s].upUpdates # 0
            BY DEF Links
          <6>3. \A s \in A : /\ s # 1 => all[s].search \in A /\ all[s].upUpdates \in A
                             /\ all[s].up # 0 => all[s].up \in A
            BY <6>1, <6>2
          <6> QED
            BY <1>2, <6>3 DEF SameLinks, Closed
        <5>3. Links(all)
          OBVIOUS
        <5> HIDE DEF A
        <5> QED
          BY ONLY <5>1, <5>2, <5>3, SameVersion
      <4> QED
        BY <4>1, <4>2
    <3>2. z \in 1..Len(y2) /\ c \in 0..Len(all)
      BY <1>1, <1>2 DEF z
    <3> DEFINE x == VersionIn(all, y2, c, z)
    <3>3. x \in 1..Len(y2) /\ (x = z \/ y2[x].of = z)
      BY <1>1, <3>2, VersionFacts
    <3> HIDE DEF x
    <3>4. x \in 1..Len(y) => y2[x].of \in 0..Len(y)
      BY <1>1 DEF Content
    <3>5. x \in 1..Len(y) => y2[x].of # z
      BY <1>1, <3>4 DEF z
    <3>6. x \in 1..Len(y) \/ x = z
      BY <1>1, <3>3 DEF z
    <3> QED
      BY <3>1, <3>3, <3>5, <3>6 DEF x
  <2> QED
    BY <1>1, <1>2, <2>1, <2>3, <2>4 DEF ValueIn, c
<1>8. ASSUME Distinct(all, y, a.saved[1]) PROVE Distinct(all2, y2, a.saved[1])
  <2> DEFINE s == a.saved[1]
             D == DeclsIn(all, s)
  <2>1. s \in 1..Len(all)
    BY <1>2, <1>5
  <2>2. \A x \in D : x \in 1..Len(y)
    <3> HIDE DEF s
    <3> SUFFICES ASSUME NEW x \in D PROVE x \in 1..Len(y)
      OBVIOUS
    <3>1. Len(all) \in Nat
      BY SeqFacts DEF Links
    <3>2. PICK t \in 1..s : x \in ToSet(all[t].syms)
      BY <2>1, DeclsFacts
    <3>3. t \in 1..Len(all)
      BY <2>1, <3>1, <3>2
    <3> QED
      BY <3>2, <3>3 DEF Content
  <2>3. \A x \in D : y2[x] = y[x]
    BY <1>1, <2>2
  <2>4. \A x, u \in D : y[x].name = y[u].name => x = u
    BY <1>8 DEF Distinct
  <2> HIDE DEF D
  <2>5. CASE 1 = here
    <3>1. s = c
      BY <1>2, <2>5
    <3>2. DeclsIn(all2, s) = {z} \cup D
      BY <1>3, <3>1 DEF D
    <3>3. \A x \in D : y[x].name # w.name
      <4>1. InScopeIn(all, y, c, w.name) = NotFound
        BY DEF c
      <4> QED
        BY <1>2, <3>1, <4>1, InScopeFacts DEF D
    <3> QED
      BY <1>1, <2>3, <2>4, <3>2, <3>3 DEF Distinct
  <2>6. CASE 1 # here
    <3>1. DeclsIn(all2, s) = D
      BY <1>2, <1>3, <1>4, <2>6 DEF D
    <3> QED
      BY <2>3, <2>4, <3>1 DEF Distinct
  <2> QED
    BY <2>5, <2>6
<1> QED
  BY <1>6, <1>7, <1>8 DEF S, here, c

-----------------------------------------------------------------------------
(* Updating a symbol.                                                      *)

\* All scopes are closed under the links.
LEMMA AllClosed ==
  ASSUME NEW all, Links(all)
  PROVE  Closed(all, 1..Len(all))
<1>1. Len(all) \in Nat
  BY SeqFacts DEF Links
<1>2. \A s \in 1..Len(all) : /\ all[s].up \in 0..(s - 1) /\ all[s].search \in 0..(s - 1) /\ all[s].upUpdates \in 0..(s - 1)
                             /\ s # 1 => all[s].search # 0 /\ all[s].upUpdates # 0
  BY DEF Links
<1>3. \A s \in 1..Len(all) : /\ s # 1 => all[s].search \in 1..Len(all) /\ all[s].upUpdates \in 1..Len(all)
                             /\ all[s].up # 0 => all[s].up \in 1..Len(all)
  BY <1>1, <1>2
<1> QED
  BY <1>3 DEF Closed

\* A symbol, new in y2, that is an update is put in the current scope c of a path.
NewUpd(all, y, all2, y2, c, w) ==
  /\ Extended(y, y2, w) /\ Symbol(y, w)
  /\ UpdatePut(all, all2, c, Len(y) + 1)

\* What is found stays, and in c the version of the symbol is the update.
LEMMA NewUpdReads ==
  ASSUME NEW all, Links(all), Tree(all), NEW y, Content(all, y), NEW c \in 1..Len(all), NEW w,
         NEW all2, NEW y2, NewUpd(all, y, all2, y2, c, w)
  PROVE  /\ \A s \in 1..Len(all) : /\ \A n : InScopeIn(all2, y2, s, n) = InScopeIn(all, y, s, n)
                                   /\ DeclsIn(all2, s) = DeclsIn(all, s)
         /\ \A o : VersionIn(all2, y2, c, o) = IF w.of = o THEN Len(y) + 1 ELSE VersionIn(all, y, c, o)
<1> DEFINE z == Len(y) + 1
           R == 1..(c - 1)
           A == 1..Len(all)
<1>1. /\ Content(all, y2) /\ Len(y) \in Nat /\ Len(y2) = Len(y) + 1
      /\ y2[z] = w /\ \A x \in 1..Len(y) : y2[x] = y[x]
  BY SymbolContent DEF NewUpd
<1>2. Links(all2) /\ Tree(all2) /\ Len(all2) = Len(all) /\ \A Q : Closed(all, Q) => SameLinks(all, all2, Q)
  BY PutLinks DEF NewUpd
<1>3. SameLinks(all, all2, R)
  BY <1>2, OlderClosed
<1>4. SameLinks(all, all2, A)
  BY <1>2, AllClosed
<1>5. Len(all) \in Nat
  BY SeqFacts DEF Links
<1>6. /\ \A s \in A : s # c => all2[s] = all[s]
      /\ all2[c].updates = <<z>> \o all[c].updates /\ all2[c].syms = all[c].syms
      /\ all2[c].upUpdates = all[c].upUpdates
  BY DEF NewUpd, UpdatePut
<1>7. \A s \in A : ToSet(all[s].syms) \subseteq 1..Len(y) /\ ToSet(all[s].updates) \subseteq 1..Len(y)
  BY DEF Content
<1>8. z # NotFound
  BY <1>1 DEF NotFound
<1> HIDE DEF z
<1>9. /\ \A s \in A : \A x \in ToSet(all[s].syms) : y2[x].name = y[x].name
      /\ \A s \in A : \A x \in ToSet(all[s].updates) : y2[x].of = y[x].of
  BY <1>1, <1>7
<1>10. \A s \in R : s \in A /\ s # c
  BY <1>5
<1>11. \A n : \A s \in A : SymOf(all2, y2, s, n) = SymOf(all, y, s, n)
  <2> SUFFICES ASSUME NEW n, NEW s \in A PROVE SymOf(all2, y2, s, n) = SymOf(all, y, s, n)
    OBVIOUS
  <2>1. s \in 1..Len(all) /\ all2[s].syms = all[s].syms /\ \A x \in ToSet(all[s].syms) : y2[x].name = y[x].name
    BY <1>6, <1>9
  <2> QED
    BY <2>1, SameSymOf
<1>12. \A o : \A s \in R : UpdateOf(all2, y2, s, o) = UpdateOf(all, y, s, o)
  <2> SUFFICES ASSUME NEW o, NEW s \in R PROVE UpdateOf(all2, y2, s, o) = UpdateOf(all, y, s, o)
    OBVIOUS
  <2>1. s \in 1..Len(all) /\ all2[s].updates = all[s].updates /\ \A x \in ToSet(all[s].updates) : y2[x].of = y[x].of
    BY <1>6, <1>9, <1>10
  <2> QED
    BY <2>1, SameUpdateOf
<1>13. ASSUME NEW o PROVE UpdateOf(all2, y2, c, o) = IF w.of = o THEN z ELSE UpdateOf(all, y, c, o)
  <2>1. \A x \in ToSet(all[c].updates) : y2[x].of = y[x].of
    BY <1>9
  <2>2. Longer(all2[c].updates, z, all[c].updates) /\ y2[z] = w
    <3>1. IsSeq(all[c].updates)
      BY DEF Content
    <3>2. Longer(<<z>> \o all[c].updates, z, all[c].updates)
      BY <3>1, PutFirst
    <3> QED
      BY <1>1, <1>6, <3>2
  <2>3. Content(all, y) /\ c \in 1..Len(all)
    OBVIOUS
  <2>4. UpdateOf(all2, y2, c, o) = IF y2[z].of = o THEN z ELSE UpdateOf(all, y, c, o)
    BY ONLY <2>1, <2>2, <2>3, LongerUpdateOf
  <2> QED
    BY <2>2, <2>4
<1> HIDE DEF R, A
<1>14. Links(all)
  OBVIOUS
<1>15. ASSUME NEW s \in A
       PROVE  /\ \A n : InScopeIn(all2, y2, s, n) = InScopeIn(all, y, s, n)
              /\ DeclsIn(all2, s) = DeclsIn(all, s)
  <2>1. ASSUME NEW n PROVE InScopeIn(all2, y2, s, n) = InScopeIn(all, y, s, n)
    <3>1. \A t \in A : SymOf(all2, y2, t, n) = SymOf(all, y, t, n)
      BY <1>11
    <3> QED
      BY ONLY <1>2, <1>4, <1>14, <1>15, <3>1, SameInScope
  <2>2. DeclsIn(all2, s) = DeclsIn(all, s)
    <3>1. \A t \in A : all2[t].syms = all[t].syms
      BY <1>6
    <3> QED
      BY ONLY <1>2, <1>4, <1>14, <1>15, <3>1, SameDecls
  <2> QED
    BY <2>1, <2>2
<1>16. ASSUME NEW o PROVE VersionIn(all2, y2, c, o) = IF w.of = o THEN z ELSE VersionIn(all, y, c, o)
  <2> DEFINE u == all[c].upUpdates
  <2>1. u = 0 \/ u \in R
    <3>1. u \in 0..(c - 1)
      BY DEF Links
    <3> QED
      BY <3>1 DEF R
  <2>2. all2[c].upUpdates = u
    BY <1>6
  <2>3. c \in 0..Len(all) /\ c \in 0..Len(all2) /\ c # 0 /\ 0 \in 0..Len(all) /\ 0 \in 0..Len(all2)
    BY <1>2, <1>5
  <2>4. VersionIn(all, y, c, o) = IF UpdateOf(all, y, c, o) # NotFound THEN UpdateOf(all, y, c, o) ELSE VersionIn(all, y, u, o)
    BY <2>3, VersionUnfold
  <2> HIDE DEF u
  <2>5. VersionIn(all2, y2, c, o) = IF UpdateOf(all2, y2, c, o) # NotFound THEN UpdateOf(all2, y2, c, o) ELSE VersionIn(all2, y2, u, o)
    BY <1>2, <2>2, <2>3, VersionUnfold
  <2>6. VersionIn(all2, y2, u, o) = VersionIn(all, y, u, o)
    <3>1. CASE u = 0
      BY <1>2, <1>14, <2>3, <3>1, VersionUnfold
    <3>2. CASE u \in R
      <4>1. \A t \in R : UpdateOf(all2, y2, t, o) = UpdateOf(all, y, t, o)
        BY <1>12
      <4> QED
        BY ONLY <1>2, <1>3, <1>14, <3>2, <4>1, SameVersion
    <3> QED
      BY <2>1, <3>1, <3>2
  <2> QED
    BY <1>8, <1>13, <2>4, <2>5, <2>6
<1> QED
  BY <1>15, <1>16 DEF A, z

\* A symbol that is found is declared in the frame it is found in.
LEMMA FoundDeclared ==
  ASSUME NEW all, Links(all), Tree(all), NEW y, Content(all, y), Declared(all, y),
         NEW s \in 1..Len(all), NEW n, InScopeIn(all, y, s, n) # NotFound
  PROVE  LET x == InScopeIn(all, y, s, n)
         IN  /\ x \in 1..Len(y) /\ y[x].name = n /\ y[x].of = 0 /\ FrameIn(all, y[x].scope) = FrameIn(all, s)
             /\ y[x].scope \in 1..s
<1> DEFINE x == InScopeIn(all, y, s, n)
<1>1. x \in DeclsIn(all, s) /\ x \in 1..Len(y) /\ y[x].name = n
  BY InScopeFacts
<1> HIDE DEF x
<1>2. PICK t \in 1..s : x \in ToSet(all[t].syms) /\ FrameIn(all, t) = FrameIn(all, s)
  BY <1>1, DeclsFacts
<1>3. t \in 1..Len(all)
  <2>1. Len(all) \in Nat
    BY SeqFacts DEF Links
  <2> QED
    BY <2>1
<1>4. y[x].of = 0 /\ y[x].scope = t
  BY <1>2, <1>3 DEF Declared
<1> QED
  BY <1>1, <1>2, <1>4 DEF x

\* The update changes what the path reads where it finds the symbol, and nothing else.
LEMMA UpdateViews ==
  ASSUME NEW all, Links(all), Tree(all), NEW y, Content(all, y), Declared(all, y), NEW a, PathOK(all, a), NEW w,
         NEW all2, NEW y2, NewUpd(all, y, all2, y2, a.cur, w),
         NEW g \in AroundIn(all, FrameIn(all, a.cur)), NEW nm,
         InScopeIn(all, y, a.saved[g], nm) = w.of, w.of # NotFound
  PROVE  /\ ValueIn(all2, y2, a, g, nm) = w.val
         /\ \A h \in AroundIn(all, FrameIn(all, a.cur)) : \A n :
              h # g \/ n # nm => ValueIn(all2, y2, a, h, n) = ValueIn(all, y, a, h, n)
         /\ Distinct(all, y, a.saved[1]) => Distinct(all2, y2, a.saved[1])
<1> DEFINE z == Len(y) + 1
           c == a.cur
           S == AroundIn(all, FrameIn(all, c))
           A == 1..Len(all)
<1>1. /\ Content(all, y2) /\ Len(y) \in Nat /\ Len(y2) = Len(y) + 1
      /\ y2[z] = w /\ \A x \in 1..Len(y) : y2[x] = y[x]
  BY SymbolContent DEF NewUpd
<1>2. c \in A /\ 1 \in S
  BY SavedFacts
<1>3. /\ \A s \in A : /\ \A n : InScopeIn(all2, y2, s, n) = InScopeIn(all, y, s, n)
                      /\ DeclsIn(all2, s) = DeclsIn(all, s)
      /\ \A o : VersionIn(all2, y2, c, o) = IF w.of = o THEN z ELSE VersionIn(all, y, c, o)
  BY <1>2, NewUpdReads
<1>4. \A h \in S : a.saved[h] \in 1..Len(all) /\ FrameIn(all, a.saved[h]) = h
  BY DEF PathOK
<1>5. g \in S
  OBVIOUS
<1> HIDE DEF z, c, S, A
<1>6. \A h \in S : a.saved[h] \in A
  BY <1>4 DEF A
<1>7. /\ w.of \in 1..Len(y) /\ y[w.of].of = 0 /\ y[w.of].name = nm /\ FrameIn(all, y[w.of].scope) = g
  <2> DEFINE s == a.saved[g]
             x == InScopeIn(all, y, s, nm)
  <2>1. s \in 1..Len(all) /\ FrameIn(all, s) = g
    BY <1>4, <1>5
  <2> HIDE DEF s
  <2>2. x # NotFound
    BY DEF s
  <2>3. /\ x \in 1..Len(y) /\ y[x].name = nm /\ y[x].of = 0 /\ FrameIn(all, y[x].scope) = FrameIn(all, s)
    BY <2>1, <2>2, FoundDeclared
  <2> QED
    BY <2>1, <2>3 DEF s
<1>8. ValueIn(all2, y2, a, g, nm) = w.val
  <2>1. InScopeIn(all2, y2, a.saved[g], nm) = w.of
    BY <1>3, <1>5, <1>6
  <2>2. y2[w.of].of = 0
    BY <1>1, <1>7
  <2>3. CurrentIn(all2, y2, c, w.of) = z
    BY <1>3, <2>2 DEF CurrentIn
  <2> QED
    BY <1>1, <2>1, <2>3 DEF ValueIn, c
<1>9. ASSUME NEW h \in S, NEW n, h # g \/ n # nm
      PROVE  ValueIn(all2, y2, a, h, n) = ValueIn(all, y, a, h, n)
  <2> DEFINE s == a.saved[h]
             x == InScopeIn(all, y, s, n)
             v == VersionIn(all, y, c, x)
  <2>1. s \in 1..Len(all) /\ FrameIn(all, s) = h /\ InScopeIn(all2, y2, s, n) = x
    BY <1>3, <1>4, <1>6
  <2> HIDE DEF s
  <2>2. ASSUME x # NotFound PROVE y2[CurrentIn(all2, y2, c, x)].val = y[CurrentIn(all, y, c, x)].val
    <3>1. /\ x \in 1..Len(y) /\ y[x].name = n /\ y[x].of = 0 /\ FrameIn(all, y[x].scope) = FrameIn(all, s)
      BY <2>1, <2>2, FoundDeclared
    <3> HIDE DEF x
    <3>2. x # w.of
      BY <1>7, <1>9, <2>1, <3>1
    <3>3. CurrentIn(all2, y2, c, x) = v
      BY <1>1, <1>3, <3>1, <3>2 DEF CurrentIn
    <3>4. CurrentIn(all, y, c, x) = v
      BY <3>1 DEF CurrentIn
    <3>5. v \in 1..Len(y)
      <4>1. c \in 0..Len(all)
        BY <1>2 DEF A
      <4> QED
        BY <3>1, <4>1, VersionFacts
    <3> HIDE DEF v
    <3> QED
      BY <1>1, <3>3, <3>4, <3>5
  <2> QED
    BY <2>1, <2>2 DEF ValueIn, s, c
<1>10. ASSUME Distinct(all, y, a.saved[1]) PROVE Distinct(all2, y2, a.saved[1])
  <2> DEFINE s == a.saved[1]
             D == DeclsIn(all, s)
  <2>1. s \in 1..Len(all) /\ DeclsIn(all2, s) = D
    BY <1>2, <1>3, <1>4, <1>6
  <2> HIDE DEF s
  <2>2. \A x \in D : x \in 1..Len(y)
    <3> SUFFICES ASSUME NEW x \in D PROVE x \in 1..Len(y)
      OBVIOUS
    <3>1. Len(all) \in Nat
      BY SeqFacts DEF Links
    <3>2. PICK t \in 1..s : x \in ToSet(all[t].syms)
      BY <2>1, DeclsFacts
    <3>3. t \in 1..Len(all)
      BY <2>1, <3>1, <3>2
    <3> QED
      BY <3>2, <3>3 DEF Content
  <2>3. \A x \in D : y2[x] = y[x]
    BY <1>1, <2>2
  <2> QED
    BY <1>10, <2>1, <2>3 DEF Distinct, s
<1> QED
  BY <1>8, <1>9, <1>10 DEF S, c

-----------------------------------------------------------------------------
(* The steps.                                                              *)

\* The views of all paths.
TheViews == [p \in Live |-> ViewOf(p)]

\* A step of one path changes the view of that path.
LEMMA OneView ==
  ASSUME NEW p \in Live, Live' = Live, \A q \in Live : q # p => ViewOf(q)' = ViewOf(q)
  PROVE  /\ TheViews' = [TheViews EXCEPT ![p] = ViewOf(p)']
         /\ TheViews[p] = ViewOf(p) /\ DOMAIN TheViews = Live
<1>1. TheViews' = [q \in Live |-> ViewOf(q)']
  BY DEF TheViews
<1>2. TheViews = [q \in Live |-> ViewOf(q)]
  BY DEF TheViews
<1> QED
  BY <1>1, <1>2

\* A view with one value changed.
LEMMA ChangedValue ==
  ASSUME NEW all, NEW y, NEW a, NEW all2, NEW y2, NEW a2,
         FrameIn(all2, a2.cur) = FrameIn(all, a.cur), DOMAIN a2.saved = DOMAIN a.saved,
         \A h \in DOMAIN a.saved : FrameUpIn(all2, h) = FrameUpIn(all, h),
         NEW g \in DOMAIN a.saved, NEW nm \in Names, NEW u, ValueIn(all2, y2, a2, g, nm) = u,
         \A h \in DOMAIN a.saved : \A n \in Names :
           h # g \/ n # nm => ValueIn(all2, y2, a2, h, n) = ValueIn(all, y, a, h, n)
  PROVE  ViewIn(all2, y2, a2) = [ViewIn(all, y, a) EXCEPT !.vals[g][nm] = u]
<1> DEFINE D == DOMAIN a.saved
           X == [f \in D |-> [n \in Names |-> ValueIn(all, y, a, f, n)]]
           X2 == [f \in D |-> [n \in Names |-> ValueIn(all2, y2, a2, f, n)]]
           P == [f \in D |-> FrameUpIn(all, f)]
           h0 == FrameIn(all, a.cur)
<1>1. ViewIn(all, y, a) = [here |-> h0, parent |-> P, vals |-> X]
  BY DEF ViewIn
<1>2. ViewIn(all2, y2, a2) = [here |-> h0, parent |-> P, vals |-> X2]
  BY DEF ViewIn
<1>3. X2 = [X EXCEPT ![g][nm] = u]
  <2>1. ASSUME NEW f \in D PROVE [n \in Names |-> ValueIn(all2, y2, a2, f, n)] = [X EXCEPT ![g][nm] = u][f]
    OBVIOUS
  <2>2. [X EXCEPT ![g][nm] = u] = [f \in D |-> [X EXCEPT ![g][nm] = u][f]]
    OBVIOUS
  <2> QED
    BY <2>1, <2>2
<1> HIDE DEF X, X2, P, h0
<1> QED
  BY <1>1, <1>2, <1>3

\* A path goes on in a scope.
LEMMA GoToFacts ==
  ASSUME Usage = {}, PathsOK, NEW p \in Live, NEW s, NEW f, NEW kept, GoTo(p, s, f, kept)
  PROVE  /\ Live' = Live /\ at' = [q \in Live' |-> at'[q]] /\ \A q \in Live : q # p => at'[q] = at[q]
         /\ Goes(at[p], f, kept \cup {f}, s, at'[p])
<1>1. at = [q \in Live |-> at[q]] /\ at[p] = [cur |-> at[p].cur, saved |-> at[p].saved, trail |-> at[p].trail]
  BY DEF PathsOK, PathOK
<1>2. at' = [at EXCEPT ![p].cur = s, ![p].saved = [h \in kept \cup {f} |-> IF h = f THEN s ELSE @[h]],
                       ![p].trail = @]
  BY DEF GoTo
<1> DEFINE a == at[p]
           sv == [h \in kept \cup {f} |-> IF h = f THEN s ELSE a.saved[h]]
           a2 == [cur |-> s, saved |-> sv, trail |-> a.trail]
<1>3. at' = [at EXCEPT ![p] = a2]
  <2>1. at' = [at EXCEPT ![p] = [a EXCEPT !.cur = s, !.saved = sv, !.trail = @]]
    BY <1>2
  <2>2. a = [cur |-> a.cur, saved |-> a.saved, trail |-> a.trail]
    BY <1>1
  <2> HIDE DEF a, sv
  <2>3. [a EXCEPT !.cur = s, !.saved = sv, !.trail = @] = a2
    <3> DEFINE w == [a EXCEPT !.cur = s, !.saved = sv, !.trail = @]
               K == {"cur", "saved", "trail"}
    <3>1. DOMAIN a = K
      BY <2>2
    <3>2. w = [k \in K |-> w[k]] /\ w["cur"] = s /\ w["saved"] = sv /\ w["trail"] = a.trail
      BY <3>1
    <3>3. a2 = [k \in K |-> a2[k]] /\ a2["cur"] = s /\ a2["saved"] = sv /\ a2["trail"] = a.trail
      OBVIOUS
    <3> HIDE DEF w, a2
    <3>4. \A k \in K : w[k] = a2[k]
      BY <3>2, <3>3
    <3>5. w = a2
      BY <3>2, <3>3, <3>4
    <3> QED
      BY <3>5 DEF w
  <2> QED
    BY <2>1, <2>3
<1> HIDE DEF a2
<1>4. /\ DOMAIN at' = Live /\ at' = [q \in Live |-> at'[q]] /\ \A q \in Live : q # p => at'[q] = at[q]
      /\ at'[p] = a2
  BY <1>1, <1>3 DEF Live
<1>5. Live' = Live
  BY <1>4 DEF Live
<1>6. Goes(a, f, kept \cup {f}, s, a2)
  BY DEF Goes, a2, sv
<1> QED
  BY <1>4, <1>5, <1>6

\* The invariant after an operation of the parse.
LEMMA InvAfter ==
  ASSUME Inv, Speculate, TableOK', Declared(sc', sy'), Len(sc') <= Len(sc) + 1, at' = [q \in Live' |-> at'[q]],
         \A q \in Live' : PathOK(sc', at'[q]) /\ Distinct(sc', sy', at'[q].saved[1])
  PROVE  Inv'
<1>1. /\ phase' = phase /\ phase = "parsing" /\ Parsing
      /\ steps' = steps + 1 /\ steps < MaxSteps
  BY DEF Inv, Speculate
<1>2. Len(sc) <= steps + 1 /\ steps \in 0..MaxSteps
  BY <1>1 DEF Parsing
<1>3. Len(sc) \in Nat /\ Len(sc') \in Nat
  <2>1. IsSeq(sc) /\ IsSeq(sc')
    BY DEF Inv, TableOK, Links
  <2> QED
    BY <2>1, SeqFacts
<1>4. Len(sc') <= steps' + 1 /\ steps' \in 0..MaxSteps
  BY <1>1, <1>2, <1>3, StepsAssumption
<1>5. PathsOK'
  BY DEF PathsOK
<1>6. Parsing'
  BY <1>4 DEF Parsing
<1> QED
  BY <1>1, <1>5, <1>6 DEF Inv

\* What holds of the table and of a path.
LEMMA InvFacts ==
  ASSUME Inv, phase = "parsing", NEW p \in Live
  PROVE  /\ Links(sc) /\ Tree(sc) /\ Content(sc, sy) /\ Declared(sc, sy)
         /\ PathsOK /\ PathOK(sc, at[p]) /\ Distinct(sc, sy, at[p].saved[1])
         /\ Len(sc) \in Nat /\ Len(sc) <= steps + 1 /\ steps \in 0..MaxSteps
<1>1. Links(sc) /\ Tree(sc) /\ Content(sc, sy) /\ PathsOK /\ Parsing
  BY DEF Inv, TableOK
<1>2. Len(sc) \in Nat
  BY <1>1, SeqFacts DEF Links
<1> QED
  BY <1>1, <1>2 DEF Parsing, PathsOK

\* A scope more leaves the other paths as they are.
LEMMA OthersAfterScope ==
  ASSUME Inv, phase = "parsing", NEW p \in Live, NEW e, Fits(sc, e), Empty(e), Extended(sc, sc', e), sy' = sy,
         Live' = Live, \A q \in Live : q # p => at'[q] = at[q]
  PROVE  /\ TableOK' /\ Declared(sc', sy')
         /\ \A q \in Live : q # p => /\ PathOK(sc', at'[q]) /\ Distinct(sc', sy', at'[q].saved[1])
                                     /\ ViewOf(q)' = ViewOf(q)
<1>1. /\ Links(sc) /\ Tree(sc) /\ Content(sc, sy) /\ Declared(sc, sy) /\ PathsOK
      /\ \A q \in Live : PathOK(sc, at[q]) /\ Distinct(sc, sy, at[q].saved[1])
  BY InvFacts
<1> DEFINE R == 1..Len(sc)
<1>2. Links(sc') /\ Tree(sc') /\ SameLinks(sc, sc', R)
  BY <1>1, ScopeLinks
<1>3. Content(sc', sy) /\ Declared(sc', sy)
  BY <1>1, ScopeContent
<1>4. TableOK'
  BY <1>2, <1>3 DEF TableOK
<1>5. SameContent(sc, sy, sc', sy, R)
  <2>1. Len(sy) \in Nat
    BY <1>1, SeqFacts DEF Content
  <2>2. \A s \in R : sc'[s] = sc[s]
    BY DEF Extended
  <2> QED
    BY <2>1, <2>2 DEF SameContent
<1>6. ASSUME NEW q \in Live, q # p
      PROVE  /\ PathOK(sc', at'[q]) /\ Distinct(sc', sy', at'[q].saved[1])
             /\ ViewOf(q)' = ViewOf(q)
  <2> DEFINE a == at[q]
             all2 == sc'
  <2>1. at'[q] = a
    BY <1>6
  <2>2. PathOK(sc, a) /\ Distinct(sc, sy, a.saved[1])
    BY <1>1
  <2>3. ViewOf(q) = ViewIn(sc, sy, a) /\ ViewOf(q)' = ViewIn(sc', sy', at'[q])
    BY ViewOfTable
  <2> HIDE DEF a, all2
  <2>4. a.cur \in 1..Len(sc)
    BY <2>2 DEF PathOK
  <2>5. HistoryIn(sc, a.cur) \subseteq R
    <3>1. HistoryIn(sc, a.cur) \subseteq 1..a.cur
      BY <1>1, <2>4, HistoryFacts
    <3>2. Len(sc) \in Nat
      BY <1>1, SeqFacts DEF Links
    <3> QED
      BY <2>4, <3>1, <3>2
  <2>6. R \subseteq 1..Len(sc)
    OBVIOUS
  <2> HIDE DEF R
  <2>7. Links(all2) /\ Tree(all2) /\ SameLinks(sc, all2, R) /\ SameContent(sc, sy, all2, sy, R)
    BY <1>2, <1>5 DEF all2
  <2>8. PathOK(all2, a) /\ \A f \in AroundIn(sc, FrameIn(sc, a.cur)) : a.saved[f] \in R
    BY <1>1, <2>2, <2>5, <2>7, PathKept
  <2>9. a.saved[1] \in R
    BY <1>1, <2>2, <2>8, SavedFacts
  <2>10. ViewIn(all2, sy, a) = ViewIn(sc, sy, a) /\ \A s \in R : Distinct(sc, sy, s) => Distinct(all2, sy, s)
    BY ONLY <1>1, <2>2, <2>5, <2>6, <2>7, ViewKept
  <2> QED
    BY <2>1, <2>2, <2>3, <2>8, <2>9, <2>10 DEF all2
<1> QED
  BY <1>3, <1>4, <1>6

\* new_D_Scope opens a frame in the view.
LEMMA OpenStep ==
  ASSUME Inv, Usage = {}, NEW p \in Live, Open(p)
  PROVE  Inv' /\ Views!Open(p, Len(sc) + 1) /\ Len(sc) + 1 \in 1..(MaxSteps + 1)
<1> DEFINE a == at[p]
           a2 == at'[p]
           m == Len(sc) + 1
           here == FrameIn(sc, a.cur)
           S == AroundIn(sc, here)
           e == NewScope(a.cur)
<1>1. phase = "parsing" /\ Speculate /\ steps < MaxSteps
  BY DEF Open, Speculate
<1>2. /\ Links(sc) /\ Tree(sc) /\ Content(sc, sy) /\ Declared(sc, sy)
      /\ PathsOK /\ PathOK(sc, a) /\ Distinct(sc, sy, a.saved[1])
      /\ Len(sc) \in Nat /\ Len(sc) <= steps + 1 /\ steps \in 0..MaxSteps
  BY <1>1, InvFacts
<1>3. sc' = Append(sc, e) /\ GoTo(p, m, m, DOMAIN a.saved) /\ sy' = sy
  BY DEF Open
<1>4. DOMAIN a.saved = S
  BY <1>2, SavedFacts
<1>5. /\ Live' = Live /\ at' = [q \in Live' |-> at'[q]] /\ \A q \in Live : q # p => at'[q] = at[q]
      /\ Goes(a, m, S \cup {m}, m, a2)
  BY <1>2, <1>3, <1>4, GoToFacts
<1>6. Opens(sc, a, e)
  BY DEF NewScope, Opens, Empty
<1> HIDE DEF e
<1>7. Extended(sc, sc', e)
  <2>1. IsSeq(sc)
    BY <1>2 DEF Links
  <2> QED
    BY <1>3, <2>1, AppendFacts DEF Extended
<1>8. Fits(sc, e) /\ Empty(e)
  BY <1>2, <1>6, OpenFits DEF Opens
<1>9. /\ TableOK' /\ Declared(sc', sy')
      /\ \A q \in Live : q # p => /\ PathOK(sc', at'[q]) /\ Distinct(sc', sy', at'[q].saved[1])
                                  /\ ViewOf(q)' = ViewOf(q)
  BY <1>1, <1>3, <1>5, <1>7, <1>8, OthersAfterScope
<1> HIDE DEF a2
<1>10. Opened(sc, a, sc', a2)
  BY <1>2, <1>5, <1>6, <1>7, OpenPath
<1>11. /\ DOMAIN a2.saved = S \cup {m}
       /\ \A n : ValueIn(sc', sy, a2, m, n) = <<>>
       /\ \A h \in S : \A n : ValueIn(sc', sy, a2, h, n) = ValueIn(sc, sy, a, h, n)
       /\ Distinct(sc, sy, a.saved[1]) => Distinct(sc', sy, a2.saved[1])
  BY <1>2, <1>5, <1>6, <1>7, OpenViews
<1>12. Inv'
  <2>1. Len(sc') <= Len(sc) + 1
    BY <1>2, <1>7 DEF Extended
  <2>2. \A q \in Live' : PathOK(sc', at'[q]) /\ Distinct(sc', sy', at'[q].saved[1])
    BY <1>2, <1>3, <1>5, <1>9, <1>10, <1>11 DEF a2, Opened
  <2> QED
    BY <1>1, <1>5, <1>9, <2>1, <2>2, InvAfter
<1>13. ViewOf(p) = ViewIn(sc, sy, a) /\ ViewOf(p)' = ViewIn(sc', sy, a2)
  BY <1>3, ViewOfTable DEF a2
<1>14. /\ FrameIn(sc', a2.cur) = m /\ FrameUpIn(sc', m) = here
       /\ \A h \in S : FrameUpIn(sc', h) = FrameUpIn(sc, h) /\ h # m
  BY <1>2, <1>10 DEF Opened
<1> DEFINE v == ViewIn(sc, sy, a)
           v2 == [here |-> m,
                  parent |-> [h \in S \cup {m} |-> IF h = m THEN v.here ELSE v.parent[h]],
                  vals |-> [h \in S \cup {m} |-> IF h = m THEN Views!EmptyFrame ELSE v.vals[h]]]
<1>15. /\ DOMAIN v.parent = S /\ v.here = here
       /\ \A h \in S : v.parent[h] = FrameUpIn(sc, h) /\ v.vals[h] = [n \in Names |-> ValueIn(sc, sy, a, h, n)]
  BY <1>4 DEF ViewIn
<1>16. Views!EmptyFrame = [n \in Names |-> <<>>]
  BY DEF Views!EmptyFrame, Views!None
<1> HIDE DEF m, here, S, a
<1>17. ViewIn(sc', sy, a2) = v2
  <2> DEFINE D == S \cup {m}
             P == [h \in D |-> FrameUpIn(sc', h)]
             P2 == [h \in D |-> IF h = m THEN v.here ELSE v.parent[h]]
             X == [h \in D |-> [n \in Names |-> ValueIn(sc', sy, a2, h, n)]]
             X2 == [h \in D |-> IF h = m THEN Views!EmptyFrame ELSE v.vals[h]]
  <2>1. ViewIn(sc', sy, a2) = [here |-> m, parent |-> P, vals |-> X]
    BY <1>11, <1>14 DEF ViewIn
  <2> HIDE DEF v
  <2>2. P = P2
    BY <1>14, <1>15
  <2>3. ASSUME NEW h \in D PROVE X[h] = X2[h]
    <3>1. CASE h = m
      BY <1>11, <1>16, <3>1
    <3>2. CASE h # m
      <4>1. h \in S /\ X2[h] = [n \in Names |-> ValueIn(sc, sy, a, h, n)]
        BY <1>15, <3>2
      <4>2. X[h] = [n \in Names |-> ValueIn(sc', sy, a2, h, n)]
        OBVIOUS
      <4> QED
        BY <1>11, <4>1, <4>2
    <3> QED
      BY <3>1, <3>2
  <2>4. X = X2
    BY <2>3
  <2>5. v2 = [here |-> m, parent |-> P2, vals |-> X2]
    OBVIOUS
  <2> HIDE DEF P, P2, X, X2, v2
  <2> QED
    BY <2>1, <2>2, <2>4, <2>5
<1>18. /\ TheViews' = [TheViews EXCEPT ![p] = ViewOf(p)']
       /\ TheViews[p] = ViewOf(p) /\ DOMAIN TheViews = Live
  BY <1>5, <1>9, OneView
<1>19. m \notin S
  BY <1>14
<1>20. Views!Open(p, m)
  <2>1. TheViews[p] = v
    BY <1>13, <1>18
  <2>2. TheViews' = [TheViews EXCEPT ![p] = v2]
    BY <1>13, <1>17, <1>18
  <2> DEFINE t == TheViews[p]
  <2>3. /\ m \notin DOMAIN t.parent
        /\ TheViews' = [TheViews EXCEPT ![p] =
              [here |-> m,
               parent |-> [h \in DOMAIN t.parent \cup {m} |-> IF h = m THEN t.here ELSE t.parent[h]],
               vals |-> [h \in DOMAIN t.parent \cup {m} |-> IF h = m THEN Views!EmptyFrame ELSE t.vals[h]]]]
    <3> HIDE DEF v
    <3> QED
      BY <1>15, <1>19, <2>1, <2>2
  <2> QED
    BY <2>3 DEF Views!Open, TheViews
<1>21. m \in 1..(MaxSteps + 1)
  BY <1>1, <1>2, StepsAssumption DEF m
<1> QED
  BY <1>12, <1>20, <1>21 DEF m

\* enter_D_Scope goes back to a frame around the current one.
LEMMA EnterFrame ==
  ASSUME Inv, Usage = {}, NEW p \in Live, NEW f \in AroundIn(sc, FrameIn(sc, at[p].cur)), Speculate,
         sc' = Append(sc, EnterScope(at[p].cur, at[p].saved[f])), GoTo(p, Len(sc) + 1, f, StillOpen(p, f)), sy' = sy
  PROVE  Inv' /\ Views!Enter(p, f) /\ f \in 1..(MaxSteps + 1)
<1> DEFINE a == at[p]
           a2 == at'[p]
           m == Len(sc) + 1
           here == FrameIn(sc, a.cur)
           S == AroundIn(sc, here)
           T == AroundIn(sc, f)
           e == EnterScope(a.cur, a.saved[f])
<1>1. phase = "parsing" /\ steps < MaxSteps
  BY DEF Speculate
<1>2. /\ Links(sc) /\ Tree(sc) /\ Content(sc, sy) /\ Declared(sc, sy)
      /\ PathsOK /\ PathOK(sc, a) /\ Distinct(sc, sy, a.saved[1])
      /\ Len(sc) \in Nat /\ Len(sc) <= steps + 1 /\ steps \in 0..MaxSteps
  BY <1>1, InvFacts
<1>3. StillOpen(p, f) = T
  BY LookupsOfTable DEF StillOpen
<1>4. f \in T /\ f \in 1..Len(sc) /\ T \subseteq S /\ f \in S
  <2>1. f \in 1..Len(sc) /\ T \subseteq S
    BY <1>2, SavedInHistory
  <2>2. T = {f} \cup AroundIn(sc, FrameUpIn(sc, f))
    BY <1>2, <2>1, AroundUnfold
  <2> QED
    BY <2>1, <2>2
<1>5. T \cup {f} = T
  BY <1>4
<1>6. /\ Live' = Live /\ at' = [q \in Live' |-> at'[q]] /\ \A q \in Live : q # p => at'[q] = at[q]
      /\ Goes(a, f, T, m, a2)
  <2> HIDE DEF T
  <2>1. GoTo(p, m, f, T)
    BY <1>3
  <2>2. /\ Live' = Live /\ at' = [q \in Live' |-> at'[q]] /\ \A q \in Live : q # p => at'[q] = at[q]
        /\ Goes(a, f, T \cup {f}, m, a2)
    BY <1>2, <2>1, GoToFacts
  <2> QED
    BY <1>5, <2>2
<1>7. Copies(sc, a, f, e)
  BY DEF EnterScope, Copies, Empty
<1> HIDE DEF e
<1>8. Extended(sc, sc', e)
  <2>1. IsSeq(sc)
    BY <1>2 DEF Links
  <2> QED
    BY <2>1, AppendFacts DEF Extended, e
<1>9. Fits(sc, e) /\ Empty(e)
  BY <1>2, <1>7, CopyFits DEF Copies
<1>10. /\ TableOK' /\ Declared(sc', sy')
       /\ \A q \in Live : q # p => /\ PathOK(sc', at'[q]) /\ Distinct(sc', sy', at'[q].saved[1])
                                   /\ ViewOf(q)' = ViewOf(q)
  BY <1>1, <1>6, <1>8, <1>9, OthersAfterScope
<1> HIDE DEF a2
<1>11. Reentered(sc, a, sc', a2, f)
  BY <1>2, <1>6, <1>7, <1>8, CopyPath
<1>12. /\ DOMAIN a2.saved = T
       /\ \A h \in T : \A n : ValueIn(sc', sy, a2, h, n) = ValueIn(sc, sy, a, h, n)
       /\ Distinct(sc, sy, a.saved[1]) => Distinct(sc', sy, a2.saved[1])
  BY <1>2, <1>6, <1>7, <1>8, CopyViews
<1>13. Inv'
  <2>1. Len(sc') <= Len(sc) + 1
    BY <1>2, <1>8 DEF Extended
  <2>2. \A q \in Live' : PathOK(sc', at'[q]) /\ Distinct(sc', sy', at'[q].saved[1])
    BY <1>2, <1>6, <1>10, <1>11, <1>12 DEF a2, Reentered
  <2> QED
    BY <1>6, <1>10, <2>1, <2>2, InvAfter
<1>14. ViewOf(p) = ViewIn(sc, sy, a) /\ ViewOf(p)' = ViewIn(sc', sy, a2)
  BY ViewOfTable DEF a2
<1>15. FrameIn(sc', a2.cur) = f /\ \A h \in T : FrameUpIn(sc', h) = FrameUpIn(sc, h)
  BY <1>11 DEF Reentered
<1> DEFINE v == ViewIn(sc, sy, a)
<1>16. /\ v.here = here /\ DOMAIN v.parent = S
       /\ \A h \in S : v.parent[h] = FrameUpIn(sc, h) /\ v.vals[h] = [n \in Names |-> ValueIn(sc, sy, a, h, n)]
  <2>1. DOMAIN a.saved = S
    BY <1>2, SavedFacts
  <2> QED
    BY <2>1 DEF ViewIn
<1>17. Views!Around(v, here) = S /\ Views!Around(v, f) = T
  <2>1. ViewOK(sc, sy, a)
    BY <1>2, ViewFacts
  <2>2. here \in S
    BY <1>2, SavedFacts
  <2> QED
    BY <1>2, <1>4, <2>1, <2>2, ViewAround
<1> HIDE DEF m, here, S, T, a, v
<1>18. ViewIn(sc', sy, a2) = [here |-> f, parent |-> [h \in T |-> v.parent[h]], vals |-> [h \in T |-> v.vals[h]]]
  <2> DEFINE P == [h \in T |-> FrameUpIn(sc', h)]
             P2 == [h \in T |-> v.parent[h]]
             X == [h \in T |-> [n \in Names |-> ValueIn(sc', sy, a2, h, n)]]
             X2 == [h \in T |-> v.vals[h]]
  <2>1. ViewIn(sc', sy, a2) = [here |-> f, parent |-> P, vals |-> X]
    BY <1>12, <1>15 DEF ViewIn
  <2>2. P = P2
    BY <1>4, <1>15, <1>16
  <2>3. ASSUME NEW h \in T PROVE X[h] = X2[h]
    <3>1. X2[h] = [n \in Names |-> ValueIn(sc, sy, a, h, n)]
      BY <1>4, <1>16
    <3>2. X[h] = [n \in Names |-> ValueIn(sc', sy, a2, h, n)]
      OBVIOUS
    <3> QED
      BY <1>12, <3>1, <3>2
  <2>4. X = X2
    BY <2>3
  <2> HIDE DEF P, P2, X, X2
  <2>5. ViewIn(sc', sy, a2) = [here |-> f, parent |-> P2, vals |-> X2]
    BY <2>1, <2>2, <2>4
  <2> QED
    BY <2>5 DEF P2, X2
<1>19. /\ TheViews' = [TheViews EXCEPT ![p] = ViewOf(p)']
       /\ TheViews[p] = ViewOf(p) /\ DOMAIN TheViews = Live
  BY <1>6, <1>10, OneView
<1>20. Views!Enter(p, f)
  <2> DEFINE t == TheViews[p]
  <2>1. t = v
    BY <1>14, <1>19 DEF v, a
  <2>2. /\ f \in Views!Around(t, t.here)
        /\ TheViews' = [TheViews EXCEPT ![p] = [here |-> f, parent |-> [h \in Views!Around(t, f) |-> t.parent[h]],
                                               vals |-> [h \in Views!Around(t, f) |-> t.vals[h]]]]
    <3> HIDE DEF t
    <3> QED
      BY <1>4, <1>14, <1>16, <1>17, <1>18, <1>19, <2>1
  <2> QED
    BY <2>2 DEF Views!Enter, TheViews
<1>21. f \in 1..(MaxSteps + 1)
  BY <1>1, <1>2, <1>4, StepsAssumption
<1> QED
  BY <1>13, <1>20, <1>21

\* The frames a path may enter are those around its own.
LEMMA EnterStep ==
  ASSUME Inv, Usage = {}, NEW p \in Live, NEW f \in DOMAIN at[p].saved, Enter(p, f)
  PROVE  Inv' /\ Views!Enter(p, f) /\ f \in 1..(MaxSteps + 1)
<1>1. f \in AroundIn(sc, FrameIn(sc, at[p].cur))
  BY LookupsOfTable DEF Enter
<1>2. /\ Speculate /\ sc' = Append(sc, EnterScope(at[p].cur, at[p].saved[f]))
      /\ GoTo(p, Len(sc) + 1, f, StillOpen(p, f)) /\ sy' = sy
  BY DEF Enter
<1> QED
  BY <1>1, <1>2, EnterFrame

\* global_D_Scope goes back to the top frame.
LEMMA EnterGlobalStep ==
  ASSUME Inv, Usage = {}, NEW p \in Live, EnterGlobal(p)
  PROVE  Inv' /\ Views!Enter(p, 1) /\ 1 \in 1..(MaxSteps + 1)
<1> DEFINE a == at[p]
<1>1. Speculate /\ phase = "parsing"
  BY DEF EnterGlobal, Speculate
<1>2. Links(sc) /\ Tree(sc) /\ PathOK(sc, a)
  BY <1>1, InvFacts
<1>3. GlobalScope(a.cur) = a.saved[1] /\ 1 \in AroundIn(sc, FrameIn(sc, a.cur))
  BY <1>2, SavedFacts, LookupsOfTable
<1>4. /\ sc' = Append(sc, EnterScope(a.cur, a.saved[1])) /\ GoTo(p, Len(sc) + 1, 1, StillOpen(p, 1)) /\ sy' = sy
  BY <1>3 DEF EnterGlobal
<1> QED
  BY <1>1, <1>3, <1>4, EnterFrame

\* A path whose history a step leaves alone reads what it read.
LEMMA OtherKept ==
  ASSUME Inv, phase = "parsing", TableOK', NEW q \in Live, at'[q] = at[q],
         SameLinks(sc, sc', HistoryIn(sc, at[q].cur)),
         SameContent(sc, sy, sc', sy', HistoryIn(sc, at[q].cur))
  PROVE  /\ PathOK(sc', at'[q]) /\ Distinct(sc', sy', at'[q].saved[1])
         /\ ViewOf(q)' = ViewOf(q)
<1> DEFINE a == at[q]
           R == HistoryIn(sc, a.cur)
           all2 == sc'
           y2 == sy'
<1>1. /\ Links(sc) /\ Tree(sc) /\ Content(sc, sy)
      /\ PathOK(sc, a) /\ Distinct(sc, sy, a.saved[1])
  BY InvFacts
<1>2. at'[q] = a
  OBVIOUS
<1>3. ViewOf(q) = ViewIn(sc, sy, a) /\ ViewOf(q)' = ViewIn(all2, y2, at'[q])
  BY ViewOfTable
<1>4. Links(all2) /\ Tree(all2) /\ SameLinks(sc, all2, R) /\ SameContent(sc, sy, all2, y2, R) /\ R \subseteq R
  BY DEF TableOK
<1> HIDE DEF a, R, all2, y2
<1>5. PathOK(all2, a) /\ \A f \in AroundIn(sc, FrameIn(sc, a.cur)) : a.saved[f] \in R
  BY <1>1, <1>4, PathKept DEF R
<1>6. a.saved[1] \in R
  BY <1>1, <1>5, SavedFacts
<1>7. HistoryIn(sc, a.cur) \subseteq R
  BY DEF R
<1>8. ViewIn(all2, y2, a) = ViewIn(sc, sy, a) /\ \A s \in R : Distinct(sc, sy, s) => Distinct(all2, y2, s)
  BY ONLY <1>1, <1>4, <1>7, ViewKept
<1> QED
  BY <1>1, <1>2, <1>3, <1>5, <1>6, <1>8 DEF all2, y2

\* The symbol put in front of the list of a scope.
LEMMA PutSym ==
  ASSUME NEW all, Links(all), NEW y, Content(all, y), NEW c \in 1..Len(all), NEW z, NEW all2,
         all2 = [all EXCEPT ![c].syms = <<z>> \o @]
  PROVE  SymPut(all, all2, c, z)
<1> DEFINE q == <<z>> \o all[c].syms
           w == [all[c] EXCEPT !.syms = q]
           r == [depth |-> all[c].depth, up |-> all[c].up, search |-> all[c].search,
                 upUpdates |-> all[c].upUpdates, syms |-> q, updates |-> all[c].updates]
           K == {"depth", "up", "search", "upUpdates", "syms", "updates"}
<1>1. all2 = [all EXCEPT ![c] = w]
  OBVIOUS
<1>2. all = [s \in 1..Len(all) |-> all[s]] /\ Len(all) \in Nat
  BY SeqFacts DEF Links, IsSeq
<1>3. all[c] = [depth |-> all[c].depth, up |-> all[c].up, search |-> all[c].search,
                upUpdates |-> all[c].upUpdates, syms |-> all[c].syms, updates |-> all[c].updates]
  BY DEF Content
<1> HIDE DEF q
<1>4. w = r
  <2>1. DOMAIN all[c] = K
    BY <1>3
  <2>2. /\ w = [k \in K |-> w[k]] /\ w["depth"] = all[c].depth /\ w["up"] = all[c].up
        /\ w["search"] = all[c].search /\ w["upUpdates"] = all[c].upUpdates /\ w["syms"] = q
        /\ w["updates"] = all[c].updates
    BY <2>1
  <2>3. /\ r = [k \in K |-> r[k]] /\ r["depth"] = all[c].depth /\ r["up"] = all[c].up
        /\ r["search"] = all[c].search /\ r["upUpdates"] = all[c].upUpdates /\ r["syms"] = q
        /\ r["updates"] = all[c].updates
    OBVIOUS
  <2> HIDE DEF w, r
  <2>4. \A k \in K : w[k] = r[k]
    BY <2>2, <2>3
  <2> QED
    BY <2>2, <2>3, <2>4
<1> HIDE DEF w
<1>5. all2 = [s \in 1..Len(all) |-> all2[s]] /\ all2[c] = w /\ \A s \in 1..Len(all) : s # c => all2[s] = all[s]
  BY <1>1, <1>2
<1>6. IsSeq(all2) /\ Len(all2) = Len(all)
  <2> DEFINE k == Len(all)
  <2>1. k \in Nat /\ all2 = [s \in 1..k |-> all2[s]]
    BY <1>2, <1>5
  <2> HIDE DEF k
  <2>2. IsSeq(all2) /\ Len(all2) = k
    BY ONLY <2>1, FunctionIsSeq
  <2> QED
    BY <2>2 DEF k
<1> QED
  BY <1>4, <1>5, <1>6 DEF SymPut, q

\* The same of an update.
LEMMA PutUpdate ==
  ASSUME NEW all, Links(all), NEW y, Content(all, y), NEW c \in 1..Len(all), NEW z, NEW all2,
         all2 = [all EXCEPT ![c].updates = <<z>> \o @]
  PROVE  UpdatePut(all, all2, c, z)
<1> DEFINE q == <<z>> \o all[c].updates
           w == [all[c] EXCEPT !.updates = q]
           r == [depth |-> all[c].depth, up |-> all[c].up, search |-> all[c].search,
                 upUpdates |-> all[c].upUpdates, syms |-> all[c].syms, updates |-> q]
           K == {"depth", "up", "search", "upUpdates", "syms", "updates"}
<1>1. all2 = [all EXCEPT ![c] = w]
  OBVIOUS
<1>2. all = [s \in 1..Len(all) |-> all[s]] /\ Len(all) \in Nat
  BY SeqFacts DEF Links, IsSeq
<1>3. all[c] = [depth |-> all[c].depth, up |-> all[c].up, search |-> all[c].search,
                upUpdates |-> all[c].upUpdates, syms |-> all[c].syms, updates |-> all[c].updates]
  BY DEF Content
<1> HIDE DEF q
<1>4. w = r
  <2>1. DOMAIN all[c] = K
    BY <1>3
  <2>2. /\ w = [k \in K |-> w[k]] /\ w["depth"] = all[c].depth /\ w["up"] = all[c].up
        /\ w["search"] = all[c].search /\ w["upUpdates"] = all[c].upUpdates /\ w["syms"] = all[c].syms
        /\ w["updates"] = q
    BY <2>1
  <2>3. /\ r = [k \in K |-> r[k]] /\ r["depth"] = all[c].depth /\ r["up"] = all[c].up
        /\ r["search"] = all[c].search /\ r["upUpdates"] = all[c].upUpdates /\ r["syms"] = all[c].syms
        /\ r["updates"] = q
    OBVIOUS
  <2> HIDE DEF w, r
  <2>4. \A k \in K : w[k] = r[k]
    BY <2>2, <2>3
  <2> QED
    BY <2>2, <2>3, <2>4
<1> HIDE DEF w
<1>5. all2 = [s \in 1..Len(all) |-> all2[s]] /\ all2[c] = w /\ \A s \in 1..Len(all) : s # c => all2[s] = all[s]
  BY <1>1, <1>2
<1>6. IsSeq(all2) /\ Len(all2) = Len(all)
  <2> DEFINE k == Len(all)
  <2>1. k \in Nat /\ all2 = [s \in 1..k |-> all2[s]]
    BY <1>2, <1>5
  <2> HIDE DEF k
  <2>2. IsSeq(all2) /\ Len(all2) = k
    BY ONLY <2>1, FunctionIsSeq
  <2> QED
    BY <2>2 DEF k
<1> QED
  BY <1>4, <1>5, <1>6 DEF UpdatePut, q

\* new_D_Sym declares the name in the frame of the path.
LEMMA DeclareStep ==
  ASSUME Inv, Usage = {}, NEW p \in Live, NEW n \in Names, Declare(p, n)
  PROVE  Inv' /\ Views!Declare(p, n)
<1> DEFINE a == at[p]
           c == a.cur
           z == Len(sy) + 1
           here == FrameIn(sc, c)
           w == [name |-> n, scope |-> c, of |-> 0, val |-> <<p>>]
<1>1. Speculate /\ phase = "parsing" /\ steps < MaxSteps
  BY DEF Declare, Speculate
<1>2. /\ Links(sc) /\ Tree(sc) /\ Content(sc, sy) /\ Declared(sc, sy)
      /\ PathsOK /\ PathOK(sc, a) /\ Distinct(sc, sy, a.saved[1])
      /\ Len(sc) \in Nat
  BY <1>1, InvFacts
<1>3. /\ c \in 1..Len(sc) /\ DOMAIN a.saved = AroundIn(sc, here)
      /\ here \in DOMAIN a.saved /\ a.saved[here] = c
  BY <1>2, SavedFacts
<1>4. /\ sy' = Append(sy, w) /\ sc' = [sc EXCEPT ![c].syms = <<z>> \o @] /\ at' = at
      /\ InScopeIn(sc, sy, c, n) = NotFound
      /\ \A q \in Live : q # p => c \notin HistoryIn(sc, at[q].cur)
  BY LookupsOfTable DEF Declare, Unshared
<1>5. w.name = n /\ w.scope = c /\ w.of = 0 /\ w.val = <<p>>
  OBVIOUS
<1>6. IsSeq(sy) /\ Len(sy) \in Nat
  BY <1>2, SeqFacts DEF Content
<1>7. Symbol(sy, w)
  BY <1>6, SingleFacts, EmptyFacts DEF Symbol
<1> HIDE DEF w
<1>8. Extended(sy, sy', w)
  BY <1>4, <1>6, AppendFacts DEF Extended
<1>9. SymPut(sc, sc', c, z)
  BY <1>2, <1>3, <1>4, PutSym
<1>10. NewSym(sc, sy, sc', sy', c, w)
  BY <1>5, <1>7, <1>8, <1>9 DEF NewSym
<1>11. /\ Content(sc, sy') /\ Declared(sc, sy') /\ Len(sy') = z /\ sy'[z] = w /\ z \in 1..Len(sy')
       /\ \A x \in 1..Len(sy) : sy'[x] = sy[x]
  BY <1>2, <1>3, <1>5, <1>6, <1>7, <1>8, SymbolContent
<1>12. /\ Links(sc') /\ Tree(sc') /\ Len(sc') = Len(sc)
       /\ \A R : Closed(sc, R) => SameLinks(sc, sc', R)
  BY <1>2, <1>3, <1>9, PutLinks
<1>13. Content(sc', sy') /\ Declared(sc', sy')
  BY <1>3, <1>5, <1>9, <1>11, SymPutContent
<1>14. TableOK'
  BY <1>12, <1>13 DEF TableOK
<1>15. ASSUME NEW q \in Live, q # p
       PROVE  /\ PathOK(sc', at'[q]) /\ Distinct(sc', sy', at'[q].saved[1])
              /\ ViewOf(q)' = ViewOf(q)
  <2> DEFINE R == HistoryIn(sc, at[q].cur)
  <2>1. at[q].cur \in 1..Len(sc)
    BY <1>2 DEF PathsOK, PathOK
  <2>2. Closed(sc, R)
    BY <1>2, <2>1, HistoryClosed
  <2>3. c \notin R
    BY <1>4, <1>15
  <2> HIDE DEF R
  <2>4. SameLinks(sc, sc', R)
    BY <1>12, <2>2
  <2>5. SameContent(sc, sy, sc', sy', R)
    <3>1. \A s \in R : sc'[s] = sc[s]
      BY <1>9, <2>2, <2>3 DEF SymPut, Closed
    <3> QED
      BY <1>6, <1>11, <3>1 DEF SameContent
  <2>6. at'[q] = at[q]
    BY <1>4
  <2> QED
    BY <1>1, <1>14, <2>4, <2>5, <2>6, OtherKept DEF R
<1> HIDE DEF c, z
<1>16. /\ PathOK(sc', a) /\ FrameIn(sc', a.cur) = here
       /\ \A f \in DOMAIN a.saved : FrameUpIn(sc', f) = FrameUpIn(sc, f)
  <2> DEFINE R == 1..Len(sc)
  <2>1. SameLinks(sc, sc', R)
    BY <1>2, <1>12, AllClosed
  <2>2. HistoryIn(sc, a.cur) \subseteq R
    <3>1. HistoryIn(sc, a.cur) \subseteq 1..a.cur
      BY <1>2, <1>3, HistoryFacts DEF c
    <3> QED
      BY <1>2, <1>3, <3>1 DEF c
  <2> HIDE DEF R
  <2> QED
    BY <1>2, <1>3, <1>12, <2>1, <2>2, PathKept DEF c
<1>17. /\ ValueIn(sc', sy', a, here, n) = <<p>>
       /\ \A h \in DOMAIN a.saved : \A k : h # here \/ k # n => ValueIn(sc', sy', a, h, k) = ValueIn(sc, sy, a, h, k)
       /\ Distinct(sc', sy', a.saved[1])
  <2> DEFINE all2 == sc'
             y2 == sy'
  <2>1. /\ NewSym(sc, sy, all2, y2, a.cur, w) /\ InScopeIn(sc, sy, a.cur, w.name) = NotFound
        /\ Links(sc) /\ Tree(sc) /\ Content(sc, sy) /\ PathOK(sc, a)
    BY <1>2, <1>4, <1>5, <1>10 DEF c
  <2> HIDE DEF a, all2, y2, here
  <2>2. /\ ValueIn(all2, y2, a, FrameIn(sc, a.cur), w.name) = w.val
        /\ \A h \in AroundIn(sc, FrameIn(sc, a.cur)) : \A k :
             h # FrameIn(sc, a.cur) \/ k # w.name => ValueIn(all2, y2, a, h, k) = ValueIn(sc, sy, a, h, k)
        /\ Distinct(sc, sy, a.saved[1]) => Distinct(all2, y2, a.saved[1])
    BY ONLY <2>1, DeclareViews
  <2>3. here = FrameIn(sc, a.cur)
    BY DEF here, c
  <2> QED
    BY <1>2, <1>3, <1>5, <2>2, <2>3 DEF all2, y2
<1>18. at'[p] = a /\ Live' = Live
  BY <1>4 DEF Live
<1>19. Inv'
  <2>1. \A q \in Live' : PathOK(sc', at'[q]) /\ Distinct(sc', sy', at'[q].saved[1])
    BY <1>15, <1>16, <1>17, <1>18
  <2>2. at' = [q \in Live' |-> at'[q]]
    BY <1>2, <1>4, <1>18 DEF PathsOK
  <2>3. Len(sc') <= Len(sc) + 1
    BY <1>2, <1>12
  <2> QED
    BY <1>1, <1>13, <1>14, <2>1, <2>2, <2>3, InvAfter
<1>20. ViewOf(p) = ViewIn(sc, sy, a) /\ ViewOf(p)' = ViewIn(sc', sy', a)
  BY <1>18, ViewOfTable
<1> HIDE DEF a
<1>21. ViewOf(p)' = [ViewOf(p) EXCEPT !.vals[here][n] = <<p>>]
  <2> DEFINE u == <<p>>
             all2 == sc'
             y2 == sy'
  <2>1. /\ FrameIn(all2, a.cur) = FrameIn(sc, a.cur) /\ DOMAIN a.saved = DOMAIN a.saved
        /\ \A h \in DOMAIN a.saved : FrameUpIn(all2, h) = FrameUpIn(sc, h)
        /\ here \in DOMAIN a.saved /\ ValueIn(all2, y2, a, here, n) = u
        /\ \A h \in DOMAIN a.saved : \A k \in Names :
             h # here \/ k # n => ValueIn(all2, y2, a, h, k) = ValueIn(sc, sy, a, h, k)
    BY <1>3, <1>16, <1>17 DEF c
  <2> HIDE DEF u, all2, y2, here
  <2>2. ViewIn(all2, y2, a) = [ViewIn(sc, sy, a) EXCEPT !.vals[here][n] = u]
    BY <2>1, ChangedValue
  <2> QED
    BY <1>20, <2>2 DEF u, all2, y2
<1>22. /\ TheViews[p] = ViewOf(p) /\ TheViews' = [TheViews EXCEPT ![p].vals[here][n] = <<p>>]
  <2> DEFINE u == <<p>>
  <2>1. /\ ViewOf(p)' = [ViewOf(p) EXCEPT !.vals[here][n] = u]
        /\ Live' = Live /\ \A q \in Live : q # p => ViewOf(q)' = ViewOf(q)
    BY <1>15, <1>18, <1>21
  <2> HIDE DEF u, here
  <2>2. TheViews' = [TheViews EXCEPT ![p] = ViewOf(p)'] /\ TheViews[p] = ViewOf(p)
    BY <2>1, OneView
  <2>3. TheViews' = [TheViews EXCEPT ![p] = [TheViews[p] EXCEPT !.vals[here][n] = u]]
    BY <2>1, <2>2
  <2>4. TheViews' = [TheViews EXCEPT ![p].vals[here][n] = u]
    BY <2>3
  <2> QED
    BY <2>2, <2>4 DEF u
<1>23. ViewOf(p).here = here /\ ViewOf(p).vals[here][n] = <<>>
  <2>1. ViewOK(sc, sy, a)
    BY <1>2, ViewFacts DEF a
  <2>2. ValueIn(sc, sy, a, here, n) = <<>>
    BY <1>3, <1>4, <2>1 DEF ViewOK, c
  <2> QED
    BY <1>3, <1>20, <2>1, <2>2 DEF ViewOK, c
<1>24. Views!Declare(p, n)
  <2> DEFINE t == TheViews[p]
  <2>1. t.vals[t.here][n] = Views!None /\ TheViews' = [TheViews EXCEPT ![p].vals[t.here][n] = <<p>>]
    BY <1>22, <1>23 DEF Views!None
  <2> QED
    BY <2>1 DEF Views!Declare, TheViews
<1> QED
  BY <1>19, <1>24

\* The symbol x0 that a path finds, its version v on the path, and the update w of v.
Updating(all, y, a, nm, g, x0, w, u) ==
  /\ g \in AroundIn(all, FrameIn(all, a.cur)) /\ g # 0
  /\ InScopeIn(all, y, a.saved[g], nm) = x0 /\ x0 # NotFound /\ x0 \in 1..Len(y)
  /\ y[x0].of = 0 /\ y[x0].scope \in 1..Len(all)
  /\ Symbol(y, w) /\ w.of = x0 /\ w.scope = y[x0].scope /\ w.val = u

\* update_D_Sym, of the symbol or of its version, makes an update of the symbol.
LEMMA UpdatedSymbol ==
  ASSUME Inv, phase = "parsing", NEW p \in Live, NEW n \in Names, Find(at[p].cur, n) # NotFound,
         NEW x \in {Find(at[p].cur, n), FindSym(at[p].cur, n)}
  PROVE  LET v == ViewOf(p)
             g == Views!Declaring(v, v.here, n)
         IN  Updating(sc, sy, at[p], n, g, Find(at[p].cur, n), NewUpdate(at[p].cur, x, p), Append(v.vals[g][n], p))
<1> DEFINE a == at[p]
           c == a.cur
           here == FrameIn(sc, c)
           x0 == Find(c, n)
           v == CurrentIn(sc, sy, c, x0)
           vw == ViewIn(sc, sy, a)
           g == Views!Declaring(vw, here, n)
           w == NewUpdate(c, x, p)
<1>1. /\ Links(sc) /\ Tree(sc) /\ Content(sc, sy) /\ Declared(sc, sy)
      /\ PathOK(sc, a) /\ Len(sc) \in Nat
  BY InvFacts
<1>2. /\ c \in 1..Len(sc) /\ here \in AroundIn(sc, here) /\ a.saved[here] = c
  BY <1>1, SavedFacts
<1>3. ViewOK(sc, sy, a)
  BY <1>1, ViewFacts
<1>4. x0 = FindIn(sc, sy, c, n) /\ x0 # NotFound
  BY LookupsOfTable
<1>5. g # 0 /\ g \in AroundIn(sc, here) /\ InScopeIn(sc, sy, a.saved[g], n) = x0
  BY <1>1, <1>2, <1>3, <1>4, FindsDeclaring
<1>6. ViewOf(p) = vw /\ vw.here = here /\ vw.vals[g][n] = sy[v].val
  <2>1. ViewOf(p) = vw
    BY ViewOfTable
  <2>2. vw.here = here /\ vw.vals[g][n] = ValueIn(sc, sy, a, g, n)
    BY <1>3, <1>5 DEF ViewOK
  <2>3. ValueIn(sc, sy, a, g, n) = sy[v].val
    BY <1>3, <1>4, <1>5 DEF ViewOK
  <2> QED
    BY <2>1, <2>2, <2>3
<1>7. a.saved[g] \in 1..Len(sc)
  BY <1>1, <1>5 DEF PathOK
<1>8. x0 \in 1..Len(sy) /\ sy[x0].of = 0 /\ sy[x0].scope \in 1..Len(sc)
  <2> DEFINE s == a.saved[g]
  <2>1. InScopeIn(sc, sy, s, n) = x0 /\ s \in 1..Len(sc)
    BY <1>5, <1>7
  <2> HIDE DEF s, x0
  <2>2. x0 \in 1..Len(sy) /\ sy[x0].of = 0
    BY <1>1, <1>4, <2>1, FoundDeclared
  <2> QED
    BY <1>1, <2>2 DEF Declared
<1>9. /\ v = VersionIn(sc, sy, c, x0) /\ v \in 1..Len(sy) /\ (v = x0 \/ sy[v].of = x0)
  <2> HIDE DEF x0, c
  <2>1. v = VersionIn(sc, sy, c, x0)
    BY <1>8 DEF CurrentIn
  <2>2. c \in 0..Len(sc)
    BY <1>1, <1>2
  <2> HIDE DEF v
  <2> QED
    BY <1>1, <1>8, <2>1, <2>2, VersionFacts
<1>10. Current(c, x) = v
  <2>1. x = x0 \/ x = v
    <3>1. FindSym(c, n) = v
      BY <1>4, LookupsOfTable DEF FindSym
    <3> QED
      BY <3>1
  <2>2. Current(c, x) = CurrentIn(sc, sy, c, x)
    BY LookupsOfTable
  <2>3. CASE x = x0
    BY <2>2, <2>3
  <2>4. CASE x = v
    <3> HIDE DEF x0, v, c
    <3>1. (IF sy[v].of # 0 THEN sy[v].of ELSE v) = x0
      BY <1>8, <1>9
    <3>2. CurrentIn(sc, sy, c, v) = VersionIn(sc, sy, c, x0)
      BY <3>1 DEF CurrentIn
    <3> QED
      BY <1>9, <2>2, <2>4, <3>2
  <2> QED
    BY <2>1, <2>3, <2>4
<1>11. w = [sy[v] EXCEPT !.of = IF @ # 0 THEN @ ELSE v, !.val = Append(@, p)]
  BY <1>10 DEF NewUpdate
<1>12. /\ sy[v] = [name |-> sy[v].name, scope |-> sy[v].scope, of |-> sy[v].of, val |-> sy[v].val]
       /\ IsSeq(sy[v].val) /\ Len(sy) \in Nat
  BY <1>1, <1>9, SeqFacts DEF Content
<1>13. (IF sy[v].of # 0 THEN sy[v].of ELSE v) = x0
  BY <1>8, <1>9
<1>14. sy[v].scope = sy[x0].scope
  BY <1>1, <1>8, <1>9 DEF Declared
<1> DEFINE u == Append(sy[v].val, p)
<1>15. IsSeq(u) /\ u # <<>>
  <2>1. IsSeq(u) /\ Len(u) = Len(sy[v].val) + 1 /\ Len(sy[v].val) \in Nat
    BY <1>12, AppendFacts, SeqFacts
  <2> HIDE DEF u
  <2> QED
    BY <2>1, EmptyFacts
<1> HIDE DEF x0, v, w, u, g, vw, c
<1>16. w = [name |-> sy[v].name, scope |-> sy[v].scope, of |-> x0, val |-> u]
  <2> DEFINE b == sy[v]
             w2 == [b EXCEPT !.of = x0, !.val = u]
             r == [name |-> b.name, scope |-> b.scope, of |-> x0, val |-> u]
             K == {"name", "scope", "of", "val"}
  <2>1. w = w2
    BY <1>11, <1>13 DEF u
  <2>2. DOMAIN b = K
    BY <1>12
  <2> HIDE DEF b
  <2>3. /\ w2 = [k \in K |-> w2[k]] /\ w2["name"] = b.name /\ w2["scope"] = b.scope
        /\ w2["of"] = x0 /\ w2["val"] = u
    BY <2>2
  <2>4. /\ r = [k \in K |-> r[k]] /\ r["name"] = b.name /\ r["scope"] = b.scope
        /\ r["of"] = x0 /\ r["val"] = u
    OBVIOUS
  <2> HIDE DEF w2, r
  <2>5. \A k \in K : w2[k] = r[k]
    BY <2>3, <2>4
  <2>6. w2 = r
    BY <2>3, <2>4, <2>5
  <2> QED
    BY <2>1, <2>6 DEF r, b
<1>17. w.name = sy[v].name /\ w.scope = sy[x0].scope /\ w.of = x0 /\ w.val = u
  BY <1>14, <1>16
<1>18. Symbol(sy, w)
  <2>1. x0 \in 0..Len(sy)
    BY <1>8, <1>12
  <2>2. w = [name |-> w.name, scope |-> w.scope, of |-> w.of, val |-> w.val]
    BY <1>16
  <2> QED
    BY <1>15, <1>17, <2>1, <2>2 DEF Symbol
<1>19. Updating(sc, sy, a, n, g, x0, w, u)
  BY <1>4, <1>5, <1>8, <1>17, <1>18 DEF Updating, c
<1> QED
  BY <1>6, <1>19 DEF g, x0, w, u, c, a

\* The view v2 is v with the value u of the name nm in g.
Valued(v, g, nm, u, v2) == v2 = [v EXCEPT !.vals[g][nm] = u]

\* The table and the path after the update is put in the current scope of the path.
LEMMA UpdatePath ==
  ASSUME NEW all, Links(all), Tree(all), NEW y, Content(all, y), Declared(all, y), NEW a, PathOK(all, a), a.cur # 1,
         NEW w, NEW all2, NEW y2, NewUpd(all, y, all2, y2, a.cur, w),
         NEW g, NEW nm \in Names, NEW x0, NEW u, Updating(all, y, a, nm, g, x0, w, u)
  PROVE  /\ Links(all2) /\ Tree(all2) /\ Content(all2, y2) /\ Declared(all2, y2)
         /\ PathOK(all2, a)
         /\ Distinct(all, y, a.saved[1]) => Distinct(all2, y2, a.saved[1])
         /\ Valued(ViewIn(all, y, a), g, nm, u, ViewIn(all2, y2, a))
<1> DEFINE c == a.cur
           z == Len(y) + 1
           here == FrameIn(all, c)
           S == AroundIn(all, here)
<1>1. c \in 1..Len(all) /\ DOMAIN a.saved = S
  BY SavedFacts
<1>2. Extended(y, y2, w) /\ Symbol(y, w) /\ UpdatePut(all, all2, c, z)
  BY DEF NewUpd
<1>3. /\ g \in S /\ g # 0 /\ InScopeIn(all, y, a.saved[g], nm) = w.of /\ w.of # NotFound
      /\ x0 \in 1..Len(y) /\ y[x0].of = 0 /\ y[x0].scope \in 1..Len(all)
      /\ w.of = x0 /\ w.scope = y[x0].scope /\ w.val = u
  BY DEF Updating
<1>4. /\ Content(all, y2) /\ Declared(all, y2) /\ Len(y2) = z /\ y2[z] = w /\ z \in 1..Len(y2)
  <2>1. Content(all, y2) /\ Len(y) \in Nat /\ Len(y2) = z /\ y2[z] = w
    BY <1>2, SymbolContent
  <2>2. Declared(all, y2)
    BY <1>2, <1>3, SymbolContent
  <2> QED
    BY <2>1, <2>2
<1> HIDE DEF c, z, S, here
<1>5. /\ Links(all2) /\ Tree(all2) /\ Len(all2) = Len(all)
      /\ \A R : Closed(all, R) => SameLinks(all, all2, R)
  BY <1>1, <1>2, PutLinks
<1>6. Content(all2, y2) /\ Declared(all2, y2)
  <2>1. y2[z].of # 0 /\ c # 1
    BY <1>3, <1>4 DEF c
  <2> QED
    BY <1>1, <1>2, <1>4, <2>1, UpdatePutContent
<1>7. /\ PathOK(all2, a) /\ FrameIn(all2, a.cur) = here
      /\ \A f \in DOMAIN a.saved : FrameUpIn(all2, f) = FrameUpIn(all, f)
  <2> DEFINE R == 1..Len(all)
  <2>1. SameLinks(all, all2, R)
    BY <1>5, AllClosed
  <2>2. HistoryIn(all, a.cur) \subseteq R
    <3>1. HistoryIn(all, a.cur) \subseteq 1..a.cur
      BY <1>1, HistoryFacts DEF c
    <3>2. Len(all) \in Nat
      BY SeqFacts DEF Links
    <3> QED
      BY <1>1, <3>1, <3>2 DEF c
  <2> HIDE DEF R
  <2> QED
    BY <1>1, <1>5, <2>1, <2>2, PathKept DEF c, S, here
<1>8. /\ ValueIn(all2, y2, a, g, nm) = u
      /\ \A h \in DOMAIN a.saved : \A n : h # g \/ n # nm => ValueIn(all2, y2, a, h, n) = ValueIn(all, y, a, h, n)
      /\ Distinct(all, y, a.saved[1]) => Distinct(all2, y2, a.saved[1])
  <2>1. /\ Links(all) /\ Tree(all) /\ Content(all, y) /\ Declared(all, y) /\ PathOK(all, a)
        /\ NewUpd(all, y, all2, y2, a.cur, w)
        /\ g \in AroundIn(all, FrameIn(all, a.cur))
        /\ InScopeIn(all, y, a.saved[g], nm) = w.of /\ w.of # NotFound
    BY <1>3 DEF c, S, here
  <2>2. /\ ValueIn(all2, y2, a, g, nm) = w.val
        /\ \A h \in AroundIn(all, FrameIn(all, a.cur)) : \A n :
             h # g \/ n # nm => ValueIn(all2, y2, a, h, n) = ValueIn(all, y, a, h, n)
        /\ Distinct(all, y, a.saved[1]) => Distinct(all2, y2, a.saved[1])
    BY ONLY <2>1, UpdateViews
  <2> QED
    BY <1>1, <1>3, <2>2 DEF c, S, here
<1>9. Valued(ViewIn(all, y, a), g, nm, u, ViewIn(all2, y2, a))
  <2>1. FrameIn(all2, a.cur) = FrameIn(all, a.cur) /\ g \in DOMAIN a.saved
    BY <1>1, <1>3, <1>7 DEF here, c
  <2> QED
    BY <1>7, <1>8, <2>1, ChangedValue DEF Valued
<1> QED
  BY <1>5, <1>6, <1>7, <1>8, <1>9

\* The update in the view, when the other paths keep theirs.
LEMMA UpdateInView ==
  ASSUME NEW p \in Live, Live' = Live, \A q \in Live : q # p => ViewOf(q)' = ViewOf(q),
         NEW n \in Names, NEW g, g = Views!Declaring(ViewOf(p), ViewOf(p).here, n), g # 0,
         NEW u, u = Append(ViewOf(p).vals[g][n], p), NEW v2, v2 = ViewOf(p)', Valued(ViewOf(p), g, n, u, v2)
  PROVE  Views!Update(p, n)
<1>1. TheViews' = [TheViews EXCEPT ![p] = ViewOf(p)'] /\ TheViews[p] = ViewOf(p)
  BY OneView
<1>2. TheViews' = [TheViews EXCEPT ![p] = [TheViews[p] EXCEPT !.vals[g][n] = u]]
  BY <1>1 DEF Valued
<1>3. TheViews' = [TheViews EXCEPT ![p].vals[g][n] = u]
  BY <1>2
<1> DEFINE t == TheViews[p]
<1>4. u = Append(t.vals[g][n], p)
  BY <1>1
<1>5. TheViews' = [TheViews EXCEPT ![p].vals[g][n] = Append(@, p)]
  <2>1. [TheViews EXCEPT ![p].vals[g][n] = Append(@, p)] = [TheViews EXCEPT ![p].vals[g][n] = Append(t.vals[g][n], p)]
    OBVIOUS
  <2> QED
    BY <1>3, <1>4, <2>1
<1>6. g = Views!Declaring(t, t.here, n) /\ g # 0
  BY <1>1
<1> QED
  BY <1>5, <1>6 DEF Views!Update, TheViews

\* update_additional_D_Sym changes what the path reads where it finds the name.
LEMMA UpdateMoreStep ==
  ASSUME Inv, Usage = {}, NEW p \in Live, NEW n \in Names, UpdateMore(p, n)
  PROVE  Inv' /\ Views!Update(p, n)
<1> DEFINE a == at[p]
           c == a.cur
           z == Len(sy) + 1
           x0 == Find(c, n)
           g == Views!Declaring(ViewOf(p), ViewOf(p).here, n)
           u == Append(ViewOf(p).vals[g][n], p)
<1>1. Speculate /\ phase = "parsing" /\ steps < MaxSteps
  BY DEF UpdateMore, Speculate
<1>2. /\ Links(sc) /\ Tree(sc) /\ Content(sc, sy) /\ Declared(sc, sy)
      /\ PathsOK /\ PathOK(sc, a) /\ Distinct(sc, sy, a.saved[1])
      /\ Len(sc) \in Nat
  BY <1>1, InvFacts
<1>3. c \in 1..Len(sc) /\ c # 1
  <2>1. c \in 1..Len(sc)
    BY <1>2, SavedFacts
  <2>2. sc[c].updates # <<>>
    BY DEF UpdateMore
  <2> QED
    BY <1>2, <2>1, <2>2 DEF Content
<1>4. /\ sc' = [sc EXCEPT ![c].updates = <<z>> \o @] /\ at' = at /\ x0 # NotFound
      /\ \A q \in Live : q # p => c \notin HistoryIn(sc, at[q].cur)
  BY LookupsOfTable DEF UpdateMore, Unshared
<1>5. PICK x \in {Find(c, n), FindSym(c, n)} : sy' = Append(sy, NewUpdate(c, x, p))
  BY DEF UpdateMore
<1> DEFINE w == NewUpdate(c, x, p)
<1>6. Updating(sc, sy, a, n, g, x0, w, u)
  BY <1>1, <1>4, UpdatedSymbol
<1>7. IsSeq(sy) /\ Len(sy) \in Nat /\ Symbol(sy, w) /\ g # 0
  BY <1>2, <1>6, SeqFacts DEF Content, Updating
<1> HIDE DEF w, x0, g, u
<1>8. Extended(sy, sy', w)
  BY <1>5, <1>7, AppendFacts DEF Extended, w
<1>9. UpdatePut(sc, sc', c, z)
  BY <1>2, <1>3, <1>4, PutUpdate
<1>10. NewUpd(sc, sy, sc', sy', c, w)
  BY <1>7, <1>8, <1>9 DEF NewUpd
<1>11. /\ Links(sc') /\ Tree(sc') /\ Content(sc', sy') /\ Declared(sc', sy') /\ PathOK(sc', a)
       /\ Distinct(sc', sy', a.saved[1])
       /\ Valued(ViewIn(sc, sy, a), g, n, u, ViewIn(sc', sy', a))
  <2> DEFINE all2 == sc'
             y2 == sy'
  <2>1. /\ Links(sc) /\ Tree(sc) /\ Content(sc, sy) /\ Declared(sc, sy) /\ PathOK(sc, a) /\ a.cur # 1
        /\ NewUpd(sc, sy, all2, y2, a.cur, w) /\ Updating(sc, sy, a, n, g, x0, w, u) /\ n \in Names
    BY <1>2, <1>3, <1>6, <1>10
  <2> HIDE DEF a, all2, y2
  <2>2. /\ Links(all2) /\ Tree(all2) /\ Content(all2, y2) /\ Declared(all2, y2)
        /\ PathOK(all2, a)
        /\ Distinct(sc, sy, a.saved[1]) => Distinct(all2, y2, a.saved[1])
        /\ Valued(ViewIn(sc, sy, a), g, n, u, ViewIn(all2, y2, a))
    BY ONLY <2>1, UpdatePath
  <2> QED
    BY <1>2, <2>2 DEF all2, y2
<1>12. TableOK'
  BY <1>11 DEF TableOK
<1>13. ASSUME NEW q \in Live, q # p
       PROVE  /\ PathOK(sc', at'[q]) /\ Distinct(sc', sy', at'[q].saved[1])
              /\ ViewOf(q)' = ViewOf(q)
  <2> DEFINE R == HistoryIn(sc, at[q].cur)
  <2>1. at[q].cur \in 1..Len(sc)
    BY <1>2 DEF PathsOK, PathOK
  <2>2. Closed(sc, R)
    BY <1>2, <2>1, HistoryClosed
  <2>3. c \notin R
    BY <1>4, <1>13
  <2> HIDE DEF R
  <2>4. SameLinks(sc, sc', R)
    BY <1>2, <1>3, <1>9, <2>2, PutLinks
  <2>5. SameContent(sc, sy, sc', sy', R)
    <3>1. \A s \in R : sc'[s] = sc[s]
      BY <1>9, <2>2, <2>3 DEF UpdatePut, Closed
    <3> QED
      BY <1>7, <1>8, <3>1 DEF SameContent, Extended
  <2>6. at'[q] = at[q]
    BY <1>4
  <2> QED
    BY <1>1, <1>12, <2>4, <2>5, <2>6, OtherKept DEF R
<1>14. at'[p] = a /\ Live' = Live
  BY <1>4 DEF Live
<1>15. Inv'
  <2>1. \A q \in Live' : PathOK(sc', at'[q]) /\ Distinct(sc', sy', at'[q].saved[1])
    BY <1>11, <1>13, <1>14
  <2>2. at' = [q \in Live' |-> at'[q]]
    BY <1>2, <1>4, <1>14 DEF PathsOK
  <2>3. Len(sc') <= Len(sc) + 1
    BY <1>2, <1>9 DEF UpdatePut
  <2> QED
    BY <1>1, <1>11, <1>12, <2>1, <2>2, <2>3, InvAfter
<1> DEFINE v2 == ViewOf(p)'
<1>16. Valued(ViewOf(p), g, n, u, v2)
  BY <1>11, <1>14, ViewOfTable
<1>17. Views!Update(p, n)
  <2>1. g = Views!Declaring(ViewOf(p), ViewOf(p).here, n) /\ u = Append(ViewOf(p).vals[g][n], p)
    BY DEF g, u
  <2>2. Live' = Live /\ \A q \in Live : q # p => ViewOf(q)' = ViewOf(q)
    BY <1>13, <1>14
  <2>3. v2 = ViewOf(p)'
    OBVIOUS
  <2> HIDE DEF v2
  <2> QED
    BY ONLY <1>7, <1>16, <2>1, <2>2, <2>3, UpdateInView
<1> QED
  BY <1>15, <1>17

\* A copy of the current scope, with the update z put in it.
WithUpdate(e, z) == [e EXCEPT !.updates = <<z>>]

\* It is a copy of the scope, and then an update more in its list.
LEMMA CopyWithUpdate ==
  ASSUME NEW all, Links(all), NEW e, Empty(e), NEW all1, Extended(all, all1, e), NEW z,
         NEW w, w = WithUpdate(e, z), NEW all2, Extended(all, all2, w)
  PROVE  UpdatePut(all1, all2, Len(all) + 1, z)
<1> DEFINE m == Len(all) + 1
           q == <<z>>
           r == [depth |-> e.depth, up |-> e.up, search |-> e.search,
                 upUpdates |-> e.upUpdates, syms |-> e.syms, updates |-> q]
           K == {"depth", "up", "search", "upUpdates", "syms", "updates"}
<1>1. IsSeq(all) /\ Len(all) \in Nat
  BY SeqFacts DEF Links
<1>2. /\ IsSeq(all1) /\ Len(all1) = m /\ all1[m] = e /\ \A s \in 1..Len(all) : all1[s] = all[s]
  BY DEF Extended
<1> HIDE DEF q
<1>3. w = [e EXCEPT !.updates = q]
  BY DEF q, WithUpdate
<1>4. w = r
  <2>1. DOMAIN e = K
    BY DEF Empty
  <2>2. /\ w = [k \in K |-> w[k]] /\ w["depth"] = e.depth /\ w["up"] = e.up
        /\ w["search"] = e.search /\ w["upUpdates"] = e.upUpdates /\ w["syms"] = e.syms
        /\ w["updates"] = q
    BY <1>3, <2>1
  <2>3. /\ r = [k \in K |-> r[k]] /\ r["depth"] = e.depth /\ r["up"] = e.up
        /\ r["search"] = e.search /\ r["upUpdates"] = e.upUpdates /\ r["syms"] = e.syms
        /\ r["updates"] = q
    OBVIOUS
  <2> HIDE DEF r
  <2>4. \A k \in K : w[k] = r[k]
    BY <2>2, <2>3
  <2> QED
    BY <2>2, <2>3, <2>4
<1>5. /\ IsSeq(all2) /\ Len(all2) = m /\ all2[m] = w /\ \A s \in 1..Len(all) : all2[s] = all[s]
  BY DEF Extended
<1>6. e.updates = <<>> /\ <<z>> \o <<>> = q
  <2>1. e.updates = <<>>
    BY DEF Empty
  <2>2. <<z>> \o <<>> = q
    BY DEF q
  <2> QED
    BY <2>1, <2>2
<1>7. \A s \in 1..Len(all1) : s # m => all2[s] = all1[s]
  <2>1. \A s \in 1..m : s # m => s \in 1..Len(all)
    BY <1>1
  <2> HIDE DEF m
  <2> QED
    BY <1>2, <1>5, <2>1
<1>8. <<z>> \o all1[m].updates = q
  BY <1>2, <1>6
<1> HIDE DEF m
<1>9. UpdatePut(all1, all2, m, z)
  BY <1>2, <1>4, <1>5, <1>7, <1>8 DEF UpdatePut
<1> QED
  BY <1>9 DEF m

\* The path in a copy of its current scope, before the update is put there.
LEMMA CopyToUpdate ==
  ASSUME NEW all, Links(all), Tree(all), NEW y, Content(all, y), Declared(all, y), NEW a, PathOK(all, a),
         NEW e, Copies(all, a, FrameIn(all, a.cur), e), NEW all1, Extended(all, all1, e),
         NEW a2, Goes(a, FrameIn(all, a.cur), AroundIn(all, FrameIn(all, a.cur)), Len(all) + 1, a2),
         NEW nm, NEW g, NEW x0, NEW w, NEW u, Updating(all, y, a, nm, g, x0, w, u)
  PROVE  /\ Links(all1) /\ Tree(all1) /\ Content(all1, y) /\ Declared(all1, y)
         /\ PathOK(all1, a2) /\ a2.cur = Len(all) + 1 /\ a2.cur # 1
         /\ Distinct(all, y, a.saved[1]) => Distinct(all1, y, a2.saved[1])
         /\ ViewIn(all1, y, a2) = ViewIn(all, y, a)
         /\ Updating(all1, y, a2, nm, g, x0, w, u)
<1> DEFINE m == Len(all) + 1
           here == FrameIn(all, a.cur)
           S == AroundIn(all, here)
           R == 1..Len(all)
<1>1. DOMAIN a.saved = S /\ here \in S
  BY SavedFacts
<1>2. Fits(all, e) /\ Empty(e)
  BY <1>1, CopyFits DEF Copies
<1>3. Links(all1) /\ Tree(all1) /\ Len(all) \in Nat /\ Len(all) >= 1 /\ Len(all1) = Len(all) + 1
  BY <1>2, ScopeLinks
<1>4. Content(all1, y) /\ Declared(all1, y)
  BY <1>2, ScopeContent
<1>5. Reentered(all, a, all1, a2, here)
  BY <1>1, CopyPath
<1>6. /\ DOMAIN a2.saved = S
      /\ \A h \in S : \A n : ValueIn(all1, y, a2, h, n) = ValueIn(all, y, a, h, n)
      /\ Distinct(all, y, a.saved[1]) => Distinct(all1, y, a2.saved[1])
  BY <1>1, CopyViews
<1>7. /\ PathOK(all1, a2) /\ FrameIn(all1, a2.cur) = here /\ AroundIn(all1, here) = S
      /\ \A h \in S : FrameUpIn(all1, h) = FrameUpIn(all, h)
  BY <1>5 DEF Reentered
<1>8. a2.cur = m /\ a2.saved = [h \in S |-> IF h = here THEN m ELSE a.saved[h]]
  BY DEF Goes
<1>9. /\ \A n : InScopeIn(all1, y, m, n) = InScopeIn(all, y, a.saved[here], n)
      /\ \A s \in R : \A n : InScopeIn(all1, y, s, n) = InScopeIn(all, y, s, n)
  BY <1>1, CopyReads
<1>10. \A h \in S : a.saved[h] \in R
  BY DEF PathOK
<1>11. m # 1 /\ \A s \in 1..Len(all) : s \in 1..Len(all1)
  BY <1>3
<1> HIDE DEF m, here, S, R
<1>12. ViewIn(all1, y, a2) = ViewIn(all, y, a)
  <2> DEFINE P == [h \in S |-> FrameUpIn(all, h)]
             P2 == [h \in S |-> FrameUpIn(all1, h)]
             X == [h \in S |-> [n \in Names |-> ValueIn(all, y, a, h, n)]]
             X2 == [h \in S |-> [n \in Names |-> ValueIn(all1, y, a2, h, n)]]
  <2>1. ViewIn(all, y, a) = [here |-> here, parent |-> P, vals |-> X]
    BY <1>1 DEF ViewIn, here
  <2>2. ViewIn(all1, y, a2) = [here |-> here, parent |-> P2, vals |-> X2]
    BY <1>6, <1>7 DEF ViewIn
  <2>3. P2 = P
    BY <1>7
  <2>4. X2 = X
    <3>1. ASSUME NEW h \in S PROVE [n \in Names |-> ValueIn(all1, y, a2, h, n)] = [n \in Names |-> ValueIn(all, y, a, h, n)]
      BY <1>6
    <3> QED
      BY <3>1
  <2> HIDE DEF P, P2, X, X2
  <2> QED
    BY <2>1, <2>2, <2>3, <2>4
<1>13. Updating(all1, y, a2, nm, g, x0, w, u)
  <2>1. /\ g \in S /\ g # 0 /\ InScopeIn(all, y, a.saved[g], nm) = x0 /\ x0 # NotFound
        /\ x0 \in 1..Len(y) /\ y[x0].of = 0 /\ y[x0].scope \in 1..Len(all)
        /\ Symbol(y, w) /\ w.of = x0 /\ w.scope = y[x0].scope /\ w.val = u
    BY DEF Updating, S, here
  <2>2. InScopeIn(all1, y, a2.saved[g], nm) = x0
    BY <1>8, <1>9, <1>10, <2>1
  <2>3. g \in AroundIn(all1, FrameIn(all1, a2.cur))
    BY <1>7, <2>1
  <2>4. y[x0].scope \in 1..Len(all1)
    BY <1>11, <2>1
  <2> QED
    BY <2>1, <2>2, <2>3, <2>4 DEF Updating
<1> QED
  BY <1>3, <1>4, <1>6, <1>7, <1>8, <1>11, <1>12, <1>13 DEF m

\* update_D_Sym changes what the path reads where it finds the name.
LEMMA UpdateStep ==
  ASSUME Inv, Usage = {}, NEW p \in Live, NEW n \in Names, Update(p, n)
  PROVE  Inv' /\ Views!Update(p, n)
<1> DEFINE a == at[p]
           a2 == at'[p]
           c == a.cur
           m == Len(sc) + 1
           z == Len(sy) + 1
           here == FrameIn(sc, c)
           S == AroundIn(sc, here)
           e == EnterScope(c, c)
           all1 == Append(sc, e)
           x0 == Find(c, n)
           g == Views!Declaring(ViewOf(p), ViewOf(p).here, n)
           u == Append(ViewOf(p).vals[g][n], p)
           v2 == ViewOf(p)'
<1>1. Speculate /\ phase = "parsing" /\ steps < MaxSteps
  BY DEF Update, Speculate
<1>2. /\ Links(sc) /\ Tree(sc) /\ Content(sc, sy) /\ Declared(sc, sy)
      /\ PathsOK /\ PathOK(sc, a) /\ Distinct(sc, sy, a.saved[1])
      /\ Len(sc) \in Nat
  BY <1>1, InvFacts
<1>3. c \in 1..Len(sc) /\ DOMAIN a.saved = S /\ here \in S /\ a.saved[here] = c
  BY <1>2, SavedFacts
<1>4. /\ sc' = Append(sc, [e EXCEPT !.updates = <<z>>]) /\ x0 # NotFound
      /\ GoTo(p, m, here, S)
  BY <1>3, LookupsOfTable DEF Update
<1>5. PICK x \in {Find(c, n), FindSym(c, n)} : sy' = Append(sy, NewUpdate(c, x, p))
  BY DEF Update
<1> DEFINE w == NewUpdate(c, x, p)
<1>6. Updating(sc, sy, a, n, g, x0, w, u)
  BY <1>1, <1>4, UpdatedSymbol
<1>7. IsSeq(sy) /\ Len(sy) \in Nat /\ Symbol(sy, w) /\ g # 0
  BY <1>2, <1>6, SeqFacts DEF Content, Updating
<1> HIDE DEF w, x0, g, u
<1>8. Extended(sy, sy', w)
  BY <1>5, <1>7, AppendFacts DEF Extended, w
<1>9. /\ Live' = Live /\ at' = [q \in Live' |-> at'[q]] /\ \A q \in Live : q # p => at'[q] = at[q]
      /\ Goes(a, here, S, m, a2)
  <2>1. S \cup {here} = S
    BY <1>3
  <2> HIDE DEF S
  <2>2. /\ Live' = Live /\ at' = [q \in Live' |-> at'[q]] /\ \A q \in Live : q # p => at'[q] = at[q]
        /\ Goes(a, here, S \cup {here}, m, a2)
    BY <1>2, <1>4, GoToFacts
  <2> QED
    BY <2>1, <2>2
<1>10. Copies(sc, a, here, e) /\ Empty(e)
  BY <1>3 DEF EnterScope, Copies, Empty
<1> HIDE DEF e
<1>11. /\ UpdatePut(all1, sc', m, z) /\ Extended(sc, all1, e)
       /\ Len(sc') = m /\ \A s \in 1..Len(sc) : sc'[s] = sc[s]
  <2> DEFINE all2 == sc'
             w1 == WithUpdate(e, z)
  <2>1. IsSeq(sc)
    BY <1>2 DEF Links
  <2>2. Extended(sc, all1, e)
    BY <2>1, AppendFacts DEF Extended
  <2>3. all2 = Append(sc, w1)
    BY <1>4 DEF WithUpdate
  <2> HIDE DEF all2, w1, all1
  <2>4. Extended(sc, all2, w1)
    BY <2>1, <2>3, AppendFacts DEF Extended
  <2>5. UpdatePut(all1, all2, Len(sc) + 1, z)
    BY <1>2, <1>10, <2>2, <2>4, CopyWithUpdate DEF w1
  <2> QED
    BY <2>2, <2>4, <2>5 DEF all2, Extended
<1> HIDE DEF all1, a2
<1>12. /\ Links(all1) /\ Tree(all1) /\ Content(all1, sy) /\ Declared(all1, sy)
       /\ PathOK(all1, a2) /\ a2.cur = m /\ a2.cur # 1
       /\ Distinct(all1, sy, a2.saved[1])
       /\ ViewIn(all1, sy, a2) = ViewIn(sc, sy, a)
       /\ Updating(all1, sy, a2, n, g, x0, w, u)
  <2>1. /\ Links(sc) /\ Tree(sc) /\ Content(sc, sy) /\ Declared(sc, sy) /\ PathOK(sc, a)
        /\ Copies(sc, a, FrameIn(sc, a.cur), e) /\ Extended(sc, all1, e)
        /\ Goes(a, FrameIn(sc, a.cur), AroundIn(sc, FrameIn(sc, a.cur)), Len(sc) + 1, a2)
        /\ Updating(sc, sy, a, n, g, x0, w, u)
    BY <1>2, <1>6, <1>9, <1>10, <1>11
  <2> HIDE DEF a
  <2>2. /\ Links(all1) /\ Tree(all1) /\ Content(all1, sy) /\ Declared(all1, sy)
        /\ PathOK(all1, a2) /\ a2.cur = Len(sc) + 1 /\ a2.cur # 1
        /\ Distinct(sc, sy, a.saved[1]) => Distinct(all1, sy, a2.saved[1])
        /\ ViewIn(all1, sy, a2) = ViewIn(sc, sy, a)
        /\ Updating(all1, sy, a2, n, g, x0, w, u)
    BY ONLY <2>1, CopyToUpdate
  <2> QED
    BY <1>2, <2>2
<1>13. NewUpd(all1, sy, sc', sy', a2.cur, w)
  BY <1>7, <1>8, <1>11, <1>12 DEF NewUpd
<1>14. /\ Links(sc') /\ Tree(sc') /\ Content(sc', sy') /\ Declared(sc', sy') /\ PathOK(sc', a2)
       /\ Distinct(sc', sy', a2.saved[1])
       /\ Valued(ViewIn(sc, sy, a), g, n, u, ViewIn(sc', sy', a2))
  <2> DEFINE all2 == sc'
             y2 == sy'
  <2>1. /\ Links(all1) /\ Tree(all1) /\ Content(all1, sy) /\ Declared(all1, sy) /\ PathOK(all1, a2) /\ a2.cur # 1
        /\ NewUpd(all1, sy, all2, y2, a2.cur, w) /\ Updating(all1, sy, a2, n, g, x0, w, u) /\ n \in Names
    BY <1>12, <1>13
  <2> HIDE DEF all2, y2
  <2>2. /\ Links(all2) /\ Tree(all2) /\ Content(all2, y2) /\ Declared(all2, y2)
        /\ PathOK(all2, a2)
        /\ Distinct(all1, sy, a2.saved[1]) => Distinct(all2, y2, a2.saved[1])
        /\ Valued(ViewIn(all1, sy, a2), g, n, u, ViewIn(all2, y2, a2))
    BY ONLY <2>1, UpdatePath
  <2>3. Distinct(all2, y2, a2.saved[1])
    BY <1>12, <2>2
  <2>4. Valued(ViewIn(sc, sy, a), g, n, u, ViewIn(all2, y2, a2))
    BY <1>12, <2>2
  <2> QED
    BY <2>2, <2>3, <2>4 DEF all2, y2
<1>15. TableOK'
  BY <1>14 DEF TableOK
<1>16. ASSUME NEW q \in Live, q # p
       PROVE  /\ PathOK(sc', at'[q]) /\ Distinct(sc', sy', at'[q].saved[1])
              /\ ViewOf(q)' = ViewOf(q)
  <2> DEFINE R == HistoryIn(sc, at[q].cur)
  <2>1. at[q].cur \in 1..Len(sc)
    BY <1>2 DEF PathsOK, PathOK
  <2>2. Closed(sc, R)
    BY <1>2, <2>1, HistoryClosed
  <2> HIDE DEF R
  <2>3. \A s \in R : sc'[s] = sc[s] /\ s \in 1..Len(sc')
    <3>1. \A s \in R : s \in 1..Len(sc)
      BY <2>2 DEF Closed
    <3> QED
      BY <1>2, <1>11, <3>1
  <2>4. SameLinks(sc, sc', R)
    BY <2>2, <2>3 DEF SameLinks
  <2>5. SameContent(sc, sy, sc', sy', R)
    BY <1>7, <1>8, <2>3 DEF SameContent, Extended
  <2>6. at'[q] = at[q]
    BY <1>9, <1>16
  <2> QED
    BY <1>1, <1>15, <2>4, <2>5, <2>6, OtherKept DEF R
<1>17. Inv'
  <2>1. \A q \in Live' : PathOK(sc', at'[q]) /\ Distinct(sc', sy', at'[q].saved[1])
    BY <1>9, <1>14, <1>16 DEF a2
  <2>2. Len(sc') <= Len(sc) + 1
    BY <1>2, <1>11
  <2> QED
    BY <1>1, <1>9, <1>14, <1>15, <2>1, <2>2, InvAfter
<1>18. Valued(ViewOf(p), g, n, u, v2)
  BY <1>14, ViewOfTable DEF a2
<1>19. Views!Update(p, n)
  <2>1. g = Views!Declaring(ViewOf(p), ViewOf(p).here, n) /\ u = Append(ViewOf(p).vals[g][n], p)
    BY DEF g, u
  <2>2. Live' = Live /\ \A q \in Live : q # p => ViewOf(q)' = ViewOf(q)
    BY <1>9, <1>16
  <2>3. v2 = ViewOf(p)' /\ p \in Live /\ n \in Names
    OBVIOUS
  <2> HIDE DEF v2
  <2> QED
    BY ONLY <1>7, <1>18, <2>1, <2>2, <2>3, UpdateInView
<1> QED
  BY <1>17, <1>19

-----------------------------------------------------------------------------
(* The commit.                                                             *)

TableIn(all, st) ==
  LET walk[s \in DOMAIN all] ==
        IF s = 1 THEN all[1].syms ELSE Reverse(all[s].syms) \o walk[all[s].search]
  IN  walk[st]

\* A list turned round has the same elements.
LEMMA ReverseFacts ==
  ASSUME NEW q, IsSeq(q)
  PROVE  IsSeq(Reverse(q)) /\ ToSet(Reverse(q)) = ToSet(q)
<1> DEFINE n == Len(q)
           r == [i \in 1..n |-> q[(n - i) + 1]]
<1>1. n \in Nat /\ DOMAIN q = 1..n
  BY SeqFacts
<1>2. Reverse(q) = r
  BY DEF Reverse
<1> HIDE DEF n
<1>3. r = [i \in 1..n |-> r[i]] /\ \A i \in 1..n : r[i] = q[(n - i) + 1]
  OBVIOUS
<1> HIDE DEF r
<1>4. IsSeq(r) /\ DOMAIN r = 1..n
  BY <1>1, <1>3, FunctionIsSeq
<1>5. \A i \in 1..n : (n - i) + 1 \in 1..n /\ (n - ((n - i) + 1)) + 1 = i
  BY <1>1
<1>6. ToSet(r) \subseteq ToSet(q)
  BY <1>1, <1>3, <1>4, <1>5 DEF ToSet
<1>7. ASSUME NEW i \in 1..n PROVE \E j \in 1..n : r[j] = q[i]
  <2> DEFINE j == (n - i) + 1
  <2>1. j \in 1..n /\ (n - j) + 1 = i
    BY <1>5
  <2> HIDE DEF j
  <2> QED
    BY <1>3, <2>1
<1>8. ToSet(q) \subseteq ToSet(r)
  BY <1>1, <1>4, <1>7 DEF ToSet
<1> QED
  BY <1>2, <1>4, <1>6, <1>8

\* commit_ll puts the symbols of a scope before those of the scope it searches.
LEMMA TableUnfold ==
  ASSUME NEW all, Links(all), NEW y, Content(all, y), NEW s \in 1..Len(all)
  PROVE  TableIn(all, s) = IF s = 1 THEN all[1].syms ELSE Reverse(all[s].syms) \o TableIn(all, all[s].search)
<1> DEFINE m == Len(all)
           U == 1..Len(y)
           stops == {t \in 1..m : t = 1}
           next == [t \in 1..m |-> all[t].search]
           base == [t \in 1..m |-> all[1].syms]
           step == [t \in 1..m |-> [v \in Seq(U) |-> Reverse(all[t].syms) \o v]]
           IsWalk(f) == f = [t \in 1..m |-> IF t = 1 THEN all[1].syms ELSE Reverse(all[t].syms) \o f[all[t].search]]
           walk == CHOOSE f : IsWalk(f)
<1>1. m \in Nat /\ DOMAIN all = 1..m
  BY SeqFacts DEF Links
<1>2. ASSUME NEW q, IsSeq(q), ToSet(q) \subseteq U PROVE q \in Seq(U)
  <2>1. Len(q) \in Nat /\ q \in [1..Len(q) -> ToSet(q)]
    BY <1>2, LenProperties DEF IsSeq
  <2>2. q \in [1..Len(q) -> U]
    BY <1>2, <2>1
  <2> QED
    BY <2>1, <2>2, SeqDef
<1>3. ASSUME NEW t \in 1..m PROVE all[t].syms \in Seq(U) /\ Reverse(all[t].syms) \in Seq(U)
  <2> DEFINE q == all[t].syms
  <2>1. IsSeq(q) /\ ToSet(q) \subseteq U
    BY DEF Content
  <2> HIDE DEF q
  <2>2. IsSeq(Reverse(q)) /\ ToSet(Reverse(q)) \subseteq U
    BY <2>1, ReverseFacts
  <2> QED
    BY <1>2, <2>1, <2>2 DEF q
<1>4. \E f : IsWalk(f)
  <2>1. Earlier(1, m, stops, next)
    <3>1. \A t \in 1..m : t \notin stops => all[t].search \in 1..(t - 1)
      BY DEF Links
    <3> HIDE DEF m
    <3> QED
      BY <1>1, <3>1 DEF Earlier
  <2>2. \A t \in 1..m : base[t] \in Seq(U)
    <3>1. \A t \in 1..m : 1 \in 1..m
      BY <1>1
    <3> HIDE DEF m, U
    <3> QED
      BY <1>3, <3>1
  <2>3. ASSUME NEW t \in 1..m, NEW v \in Seq(U)
        PROVE  step[t][v] = Reverse(all[t].syms) \o v /\ step[t][v] \in Seq(U)
    <3> DEFINE r == Reverse(all[t].syms)
    <3>1. r \in Seq(U)
      BY <1>3
    <3>2. step[t][v] = r \o v
      OBVIOUS
    <3> HIDE DEF r, U, step
    <3>3. r \o v \in Seq(U)
      BY <3>1
    <3> QED
      BY <3>2, <3>3 DEF r
  <2> HIDE DEF stops, next, base, m, step, U
  <2> DEFINE V == Seq(U)
  <2>4. /\ \A t \in 1..m : t \in stops => base[t] \in V
        /\ \A t \in 1..m : t \notin stops => \A v \in V : step[t][v] \in V
    BY <2>2, <2>3
  <2> HIDE DEF V
  <2>5. Stepping(1, m, stops, next, base, step, V)
    BY <1>1, <2>1, <2>4, SteppingExists
  <2>6. PICK f : /\ f = [t \in 1..m |-> IF t \in stops THEN base[t] ELSE step[t][f[next[t]]]]
                 /\ \A t \in 1..m : f[t] \in V
    BY <2>5 DEF Stepping
  <2>7. ASSUME NEW t \in 1..m
        PROVE  (IF t \in stops THEN base[t] ELSE step[t][f[next[t]]])
                 = IF t = 1 THEN all[1].syms ELSE Reverse(all[t].syms) \o f[all[t].search]
    <3>1. CASE t = 1
      BY <3>1 DEF stops, base
    <3>2. CASE t # 1
      <4>1. t \notin stops /\ next[t] = all[t].search
        BY <3>2 DEF stops, next
      <4>2. next[t] \in 1..m
        BY <1>1, <2>1, <4>1 DEF Earlier
      <4>3. f[next[t]] \in Seq(U)
        BY <2>6, <4>2 DEF V
      <4> QED
        BY <2>3, <3>2, <4>1, <4>3
    <3> QED
      BY <3>1, <3>2
  <2>8. IsWalk(f)
    BY <2>6, <2>7
  <2> QED
    BY <2>8
<1>5. IsWalk(walk)
  BY <1>4
<1>6. \A t : TableIn(all, t) = walk[t]
  BY <1>1 DEF TableIn
<1> HIDE DEF walk
<1>7. walk[s] = IF s = 1 THEN all[1].syms ELSE Reverse(all[s].syms) \o walk[all[s].search]
  BY <1>1, <1>5
<1> QED
  BY <1>6, <1>7

\* A scope of the top frame searches one of the top frame.
LEMMA TopFrame ==
  ASSUME NEW all, Links(all), Tree(all), NEW s \in 1..Len(all), all[s].up = 0
  PROVE  /\ FrameIn(all, s) = 1 /\ AroundIn(all, 1) = {1} /\ FrameUpIn(all, 1) = 0
         /\ s # 1 => all[s].search \in 1..(s - 1) /\ all[all[s].search].up = 0
<1> DEFINE f == FrameIn(all, s)
<1>1. IsFrame(all, f) /\ all[f].up = 0
  BY FrameFacts
<1> HIDE DEF f
<1>2. f = 1
  BY <1>1, OwnFrame
<1>3. FrameUpIn(all, 1) = 0
  BY <1>1, <1>2 DEF FrameUpIn
<1>4. AroundIn(all, 1) = {1}
  <2>1. 1 \in 0..Len(all) /\ 0 \in 0..Len(all)
    BY SeqFacts DEF Links
  <2>2. AroundIn(all, 0) = {}
    BY <2>1, AroundUnfold
  <2>3. AroundIn(all, 1) = {1} \cup AroundIn(all, FrameUpIn(all, 1))
    BY <2>1, AroundUnfold
  <2> QED
    BY <1>3, <2>2, <2>3
<1>5. ASSUME s # 1 PROVE all[s].search \in 1..(s - 1) /\ all[all[s].search].up = 0
  <2>1. s \in 2..Len(all) /\ all[s].search \in 0..(s - 1) /\ all[s].search # 0
    BY <1>5 DEF Links
  <2>2. all[s].search # all[s].up
    BY <2>1
  <2> QED
    BY <2>1, <2>2 DEF Tree
<1> QED
  BY <1>2, <1>3, <1>4, <1>5 DEF f

\* The table gets the symbols of the scopes of the top frame.
LEMMA TableFacts ==
  ASSUME NEW all, Links(all), Tree(all), NEW y, Content(all, y), NEW st \in 1..Len(all), all[st].up = 0
  PROVE  IsSeq(TableIn(all, st)) /\ ToSet(TableIn(all, st)) = DeclsIn(all, st)
<1> DEFINE n == Len(all)
           Good(z) == all[z].up = 0 => IsSeq(TableIn(all, z)) /\ ToSet(TableIn(all, z)) = DeclsIn(all, z)
           B == {z \in 1..n : Good(z)}
<1>1. n \in Nat
  BY SeqFacts DEF Links
<1>2. ASSUME NEW z \in 1..n, 1..(z - 1) \subseteq B PROVE Good(z)
  <2> SUFFICES ASSUME all[z].up = 0
               PROVE  IsSeq(TableIn(all, z)) /\ ToSet(TableIn(all, z)) = DeclsIn(all, z)
    OBVIOUS
  <2> DEFINE u == all[z].search
             q == all[z].syms
  <2>1. IsSeq(q)
    BY DEF Content
  <2>2. TableIn(all, z) = IF z = 1 THEN all[1].syms ELSE Reverse(q) \o TableIn(all, u)
    BY TableUnfold
  <2>3. DeclsIn(all, z) = ToSet(q) \cup
          (IF u = 0 THEN {} ELSE IF all[u].up # all[z].up THEN {} ELSE DeclsIn(all, u))
    BY DeclsUnfold
  <2>4. CASE z = 1
    <3>1. u = 0
      BY <2>4 DEF Links
    <3> QED
      BY <2>1, <2>2, <2>3, <2>4, <3>1
  <2>5. CASE z # 1
    <3>1. u \in 1..(z - 1) /\ all[u].up = 0
      BY <2>5, TopFrame
    <3>2. IsSeq(TableIn(all, u)) /\ ToSet(TableIn(all, u)) = DeclsIn(all, u)
      BY <1>2, <3>1
    <3>3. IsSeq(Reverse(q)) /\ ToSet(Reverse(q)) = ToSet(q)
      BY <2>1, ReverseFacts
    <3>4. u # 0
      BY <1>1, <3>1
    <3> HIDE DEF u, q
    <3> DEFINE r == Reverse(q)
               t == TableIn(all, u)
    <3>5. IsSeq(r) /\ IsSeq(t)
      BY <3>2, <3>3
    <3> HIDE DEF r, t
    <3>6. IsSeq(r \o t) /\ ToSet(r \o t) = ToSet(r) \cup ToSet(t)
      BY <3>5, ConcatFacts
    <3> QED
      BY <2>2, <2>3, <2>5, <3>1, <3>2, <3>3, <3>4, <3>6 DEF r, t
  <2> QED
    BY <2>4, <2>5
<1> HIDE DEF n, Good
<1>3. \A z \in 1..n : 1..(z - 1) \subseteq B => z \in B
  BY <1>2
<1> HIDE DEF B
<1>4. 1..n \subseteq B
  BY ONLY <1>1, <1>3, CountingInduction
<1> QED
  BY <1>4 DEF B, Good, n

\* A path in the top scope, that has no other frame.
LEMMA TopPath ==
  ASSUME NEW all, Links(all), Tree(all), NEW t, NEW a, a = [cur |-> 1, saved |-> [f \in {1} |-> 1], trail |-> t]
  PROVE  PathOK(all, a) /\ FrameIn(all, 1) = 1 /\ AroundIn(all, 1) = {1} /\ FrameUpIn(all, 1) = 0
<1>1. Len(all) \in Nat /\ 1 \in 1..Len(all) /\ all[1].up = 0 /\ all[1].depth = 0
  <2>1. Len(all) \in Nat /\ 1 \in 1..Len(all)
    BY SeqFacts DEF Links
  <2>2. all[1].up \in 0..(1 - 1)
    BY <2>1 DEF Links
  <2> QED
    BY <2>1, <2>2 DEF Tree
<1>2. FrameIn(all, 1) = 1 /\ AroundIn(all, 1) = {1} /\ FrameUpIn(all, 1) = 0
  BY <1>1, TopFrame
<1>3. LevelIn(all, 1, 0) = 1
  BY <1>1, LevelFacts
<1>4. a.cur = 1 /\ a.saved = [f \in {1} |-> 1] /\ a.trail = t
  OBVIOUS
<1>5. a.saved = [f \in {1} |-> a.saved[f]] /\ a.saved[1] = 1
  BY <1>4
<1>6. a = [cur |-> a.cur, saved |-> a.saved, trail |-> a.trail]
  BY <1>4
<1>7. PathOK(all, a)
  BY <1>1, <1>2, <1>3, <1>4, <1>5, <1>6 DEF PathOK
<1> QED
  BY <1>2, <1>7

\* The table all2 and the symbols y2 after the commit of the scope st.
Commits(all, y, st, all2, y2) ==
  /\ IsSeq(all2) /\ Len(all2) = Len(all) /\ IsSeq(y2) /\ Len(y2) = Len(y)
  /\ \A s \in 1..Len(all) :
       /\ all2[s] = [depth |-> all[s].depth, up |-> all[s].up, search |-> all[s].search,
                     upUpdates |-> all[s].upUpdates, syms |-> all2[s].syms, updates |-> all[s].updates]
       /\ s = 1 => all2[s].syms = TableIn(all, st)
       /\ s # 1 => all2[s].syms \in {<<>>, all[s].syms}
  /\ \A x \in 1..Len(y) :
       /\ y2[x] = [name |-> y[x].name, scope |-> y[x].scope, of |-> y2[x].of, val |-> y[x].val]
       /\ y2[x].of = IF x \in DeclsIn(all, st) THEN CurrentIn(all, y, st, x) ELSE y[x].of

\* The table keeps its form,
LEMMA CommitTable ==
  ASSUME NEW all, Links(all), Tree(all), NEW y, Content(all, y), NEW st \in 1..Len(all), all[st].up = 0,
         NEW all2, NEW y2, Commits(all, y, st, all2, y2)
  PROVE  Links(all2) /\ Tree(all2) /\ Content(all2, y2)
<1> DEFINE R == 1..Len(all)
<1>1. IsSeq(all2) /\ Len(all2) = Len(all) /\ IsSeq(y2) /\ Len(y2) = Len(y) /\ Len(all) \in Nat /\ Len(all) >= 1
  BY SeqFacts DEF Commits, Links
<1>2. ASSUME NEW s \in R
      PROVE  /\ all2[s].depth = all[s].depth /\ all2[s].up = all[s].up /\ all2[s].search = all[s].search
             /\ all2[s].upUpdates = all[s].upUpdates /\ all2[s].updates = all[s].updates
  <2> DEFINE b == all2[s]
             e == all[s]
             q == b.syms
  <2>1. b = [depth |-> e.depth, up |-> e.up, search |-> e.search, upUpdates |-> e.upUpdates,
             syms |-> q, updates |-> e.updates]
    BY DEF Commits
  <2> HIDE DEF b, e, q
  <2>2. /\ b.depth = e.depth /\ b.up = e.up /\ b.search = e.search /\ b.upUpdates = e.upUpdates
        /\ b.updates = e.updates
    BY <2>1
  <2> QED
    BY <2>2 DEF b, e, q
<1>3. Links(all2)
  <2>1. \A s \in R : /\ all[s].depth \in Nat
                     /\ all[s].up \in 0..(s - 1) /\ all[s].search \in 0..(s - 1) /\ all[s].upUpdates \in 0..(s - 1)
                     /\ s # 1 => all[s].search # 0 /\ all[s].upUpdates # 0
    BY DEF Links
  <2>2. \A s \in R : /\ all2[s].depth \in Nat
                     /\ all2[s].up \in 0..(s - 1) /\ all2[s].search \in 0..(s - 1) /\ all2[s].upUpdates \in 0..(s - 1)
                     /\ s # 1 => all2[s].search # 0 /\ all2[s].upUpdates # 0
    BY <1>2, <2>1
  <2> QED
    BY <1>1, <2>2 DEF Links
<1>4. SameLinks(all, all2, R)
  <2>1. Closed(all, R)
    BY AllClosed
  <2> QED
    BY <1>1, <1>2, <2>1 DEF SameLinks
<1>5. Tree(all2)
  <2>1. ASSUME NEW s \in 2..Len(all)
        PROVE  /\ \/ all2[s].search = all2[s].up /\ all2[s].depth = all2[all2[s].up].depth + 1
                  \/ all2[s].up = all2[all2[s].search].up /\ all2[s].depth = all2[all2[s].search].depth
               /\ LevelIn(all2, all2[s].upUpdates, all2[s].depth) = all2[s].search
    <3>1. s \in R /\ s # 1
      BY <1>1
    <3>2. all[s].search \in R /\ all[s].upUpdates \in R
      <4>1. /\ all[s].search \in 0..(s - 1) /\ all[s].search # 0
            /\ all[s].upUpdates \in 0..(s - 1) /\ all[s].upUpdates # 0
        BY <3>1 DEF Links
      <4> QED
        BY <1>1, <4>1
    <3>3. LevelIn(all2, all[s].upUpdates, all[s].depth) = LevelIn(all, all[s].upUpdates, all[s].depth)
      <4> DEFINE u == all[s].upUpdates
                 d == all[s].depth
      <4>1. u \in R
        BY <3>2
      <4> HIDE DEF u, d, R
      <4>2. LevelIn(all2, u, d) = LevelIn(all, u, d)
        BY <1>3, <1>4, <4>1, SameLevel
      <4> QED
        BY <4>2 DEF u, d
    <3>4. LevelIn(all, all[s].upUpdates, all[s].depth) = all[s].search
      BY DEF Tree
    <3>5. \/ all[s].search = all[s].up /\ all[s].depth = all[all[s].up].depth + 1
          \/ all[s].up = all[all[s].search].up /\ all[s].depth = all[all[s].search].depth
      BY DEF Tree
    <3>6. /\ all2[s].depth = all[s].depth /\ all2[s].up = all[s].up /\ all2[s].search = all[s].search
          /\ all2[s].upUpdates = all[s].upUpdates
          /\ all2[all[s].search].up = all[all[s].search].up /\ all2[all[s].search].depth = all[all[s].search].depth
      BY <1>2, <3>1, <3>2
    <3>7. all[s].search = all[s].up => all2[all[s].up].depth = all[all[s].up].depth
      BY <3>6
    <3> QED
      BY <3>3, <3>4, <3>5, <3>6, <3>7
  <2>2. all2[1].depth = 0
    <3>1. all[1].depth = 0
      BY DEF Tree
    <3>2. all2[1].depth = all[1].depth
      BY <1>1, <1>2
    <3> QED
      BY <3>1, <3>2
  <2> QED
    BY <1>1, <2>1, <2>2 DEF Tree
<1>6. \A s \in R : /\ s = 1 => all2[s].syms = TableIn(all, st)
                   /\ s # 1 => all2[s].syms \in {<<>>, all[s].syms}
  BY DEF Commits
<1>7. DeclsIn(all, st) \subseteq 1..Len(y) /\ IsSeq(TableIn(all, st)) /\ ToSet(TableIn(all, st)) = DeclsIn(all, st)
  <2>1. IsSeq(TableIn(all, st)) /\ ToSet(TableIn(all, st)) = DeclsIn(all, st)
    BY TableFacts
  <2>2. ASSUME NEW x \in DeclsIn(all, st) PROVE x \in 1..Len(y)
    <3>1. PICK t \in 1..st : x \in ToSet(all[t].syms)
      BY DeclsFacts
    <3>2. t \in R
      BY <1>1, <3>1
    <3> QED
      BY <3>1, <3>2 DEF Content
  <2> QED
    BY <2>1, <2>2
<1>8. ASSUME NEW s \in R
      PROVE  /\ IsSeq(all2[s].syms) /\ ToSet(all2[s].syms) \subseteq 1..Len(y2)
             /\ IsSeq(all2[s].updates) /\ ToSet(all2[s].updates) \subseteq 1..Len(y2)
  <2>1. /\ IsSeq(all[s].syms) /\ ToSet(all[s].syms) \subseteq 1..Len(y)
        /\ IsSeq(all[s].updates) /\ ToSet(all[s].updates) \subseteq 1..Len(y)
    BY DEF Content
  <2>2. IsSeq(all2[s].syms) /\ ToSet(all2[s].syms) \subseteq 1..Len(y)
    <3>1. CASE s = 1
      BY <1>6, <1>7, <3>1
    <3>2. CASE s # 1
      <4>1. all2[s].syms = <<>> \/ all2[s].syms = all[s].syms
        BY <1>6, <3>2
      <4> QED
        BY <2>1, <4>1, EmptyFacts
    <3> QED
      BY <3>1, <3>2
  <2> QED
    BY <1>1, <1>2, <2>1, <2>2
<1>9. ASSUME NEW x \in 1..Len(y)
      PROVE  /\ y2[x] = [name |-> y2[x].name, scope |-> y2[x].scope, of |-> y2[x].of, val |-> y2[x].val]
             /\ y2[x].of \in 0..Len(y2) /\ IsSeq(y2[x].val) /\ y2[x].val # <<>>
  <2>1. /\ y2[x] = [name |-> y[x].name, scope |-> y[x].scope, of |-> y2[x].of, val |-> y[x].val]
        /\ y2[x].of = IF x \in DeclsIn(all, st) THEN CurrentIn(all, y, st, x) ELSE y[x].of
    BY DEF Commits
  <2>2. y[x].of \in 0..Len(y) /\ IsSeq(y[x].val) /\ y[x].val # <<>> /\ Len(y) \in Nat
    BY SeqFacts DEF Content
  <2>3. CurrentIn(all, y, st, x) \in 1..Len(y)
    <3> DEFINE o == IF y[x].of # 0 THEN y[x].of ELSE x
    <3>1. o \in 1..Len(y)
      BY <2>2
    <3>2. CurrentIn(all, y, st, x) = VersionIn(all, y, st, o)
      BY DEF CurrentIn
    <3>3. st \in 0..Len(all)
      BY <1>1
    <3> HIDE DEF o
    <3>4. VersionIn(all, y, st, o) \in 1..Len(y)
      BY <3>1, <3>3, VersionFacts
    <3> QED
      BY <3>2, <3>4
  <2>4. y2[x].of \in 0..Len(y2)
    BY <1>1, <2>1, <2>2, <2>3
  <2>5. y2[x].val = y[x].val /\ y2[x].name = y[x].name /\ y2[x].scope = y[x].scope
    BY <2>1
  <2> QED
    BY <2>1, <2>2, <2>4, <2>5
<1>10. all2[1].updates = <<>>
  <2>1. all[1].updates = <<>>
    BY DEF Content
  <2>2. all2[1].updates = all[1].updates
    BY <1>1, <1>2
  <2> QED
    BY <2>1, <2>2
<1>12. ASSUME NEW s \in R
       PROVE  all2[s] = [depth |-> all2[s].depth, up |-> all2[s].up, search |-> all2[s].search,
                         upUpdates |-> all2[s].upUpdates, syms |-> all2[s].syms, updates |-> all2[s].updates]
  <2> DEFINE b == all2[s]
             e == all[s]
             q == b.syms
  <2>1. b = [depth |-> e.depth, up |-> e.up, search |-> e.search, upUpdates |-> e.upUpdates,
             syms |-> q, updates |-> e.updates]
    BY DEF Commits
  <2> HIDE DEF b, e, q
  <2>2. /\ b.depth = e.depth /\ b.up = e.up /\ b.search = e.search /\ b.upUpdates = e.upUpdates
        /\ b.updates = e.updates
    BY <2>1
  <2> QED
    BY <2>1, <2>2 DEF b, e, q
<1>11. Content(all2, y2)
  BY <1>1, <1>12, <1>8, <1>9, <1>10 DEF Content
<1> QED
  BY <1>3, <1>5, <1>11

\* and the top scope then has what the committed scope gave, in the same versions.
LEMMA CommitReads ==
  ASSUME NEW all, Links(all), Tree(all), NEW y, Content(all, y), NEW st \in 1..Len(all), all[st].up = 0,
         Distinct(all, y, st), NEW all2, NEW y2, Commits(all, y, st, all2, y2), NEW n
  PROVE  LET x == InScopeIn(all, y, st, n)
         IN  /\ InScopeIn(all2, y2, 1, n) = x
             /\ x # NotFound => y2[CurrentIn(all2, y2, 1, x)].val = y[CurrentIn(all, y, st, x)].val
<1> DEFINE x == InScopeIn(all, y, st, n)
           x2 == InScopeIn(all2, y2, 1, n)
           D == DeclsIn(all, st)
<1>1. /\ Links(all2) /\ Tree(all2) /\ Content(all2, y2) /\ Len(all2) = Len(all) /\ Len(y2) = Len(y)
      /\ Len(all) \in Nat /\ 1 \in 1..Len(all)
  <2>1. Links(all2) /\ Tree(all2) /\ Content(all2, y2)
    BY CommitTable
  <2>2. Len(all2) = Len(all) /\ Len(y2) = Len(y)
    BY DEF Commits
  <2>3. Len(all) \in Nat /\ Len(all) >= 1
    BY SeqFacts DEF Links
  <2> QED
    BY <2>1, <2>2, <2>3
<1>2. ToSet(all2[1].syms) = D
  <2>1. all2[1].syms = TableIn(all, st)
    BY <1>1 DEF Commits
  <2> QED
    BY <2>1, TableFacts
<1>3. /\ x # NotFound => x \in D /\ x \in 1..Len(y) /\ y[x].name = n
      /\ x = NotFound => \A z \in D : y[z].name # n
  BY InScopeFacts
<1>4. /\ x2 = SymOf(all2, y2, 1, n)
      /\ x2 # NotFound => x2 \in D /\ x2 \in 1..Len(y) /\ y2[x2].name = n
      /\ x2 = NotFound => \A z \in D : y2[z].name # n
  <2>1. all2[1].search = 0
    <3>1. all2[1].search \in 0..(1 - 1)
      BY <1>1 DEF Links
    <3> QED
      BY <3>1
  <2>2. x2 = SymOf(all2, y2, 1, n)
    <3>1. 1 \in 1..Len(all2)
      BY <1>1
    <3>2. x2 = IF SymOf(all2, y2, 1, n) # NotFound THEN SymOf(all2, y2, 1, n)
               ELSE IF all2[1].search = 0 THEN NotFound
               ELSE IF all2[all2[1].search].up # all2[1].up THEN NotFound
               ELSE InScopeIn(all2, y2, all2[1].search, n)
      BY <1>1, <3>1, InScopeUnfold
    <3> HIDE DEF x2
    <3> QED
      BY <2>1, <3>2
  <2>3. LET z == SymOf(all2, y2, 1, n)
        IN  /\ z # NotFound => z \in ToSet(all2[1].syms) /\ z \in 1..Len(y2) /\ y2[z].name = n
            /\ z = NotFound => \A t \in ToSet(all2[1].syms) : y2[t].name # n
    BY <1>1, SymOfFacts
  <2> QED
    BY <1>1, <1>2, <2>2, <2>3
<1>5. ASSUME NEW z \in 1..Len(y)
      PROVE  /\ y2[z].name = y[z].name /\ y2[z].val = y[z].val
             /\ z \in D => y2[z].of = CurrentIn(all, y, st, z)
  <2> DEFINE b == y2[z]
             e == y[z]
             q == b.of
  <2>1. b = [name |-> e.name, scope |-> e.scope, of |-> q, val |-> e.val]
    BY DEF Commits
  <2>2. z \in D => q = CurrentIn(all, y, st, z)
    BY DEF Commits
  <2> HIDE DEF b, e, q
  <2>3. b.name = e.name /\ b.val = e.val
    BY <2>1
  <2> QED
    BY <2>2, <2>3 DEF b, e, q
<1>6. \A z \in D : z \in 1..Len(y)
  BY ZenonT(40), <1>1, <1>2 DEF Content
<1>7. \A z, t \in D : y[z].name = y[t].name => z = t
  BY DEF Distinct
<1> HIDE DEF x, x2, D
<1>8. x2 = x
  <2>1. CASE x = NotFound
    <3>1. \A z \in D : y2[z].name # n
      BY <1>3, <1>5, <1>6, <2>1
    <3> QED
      BY <1>4, <2>1, <3>1
  <2>2. CASE x # NotFound
    <3>1. y2[x].name = n /\ x \in D
      BY <1>3, <1>5, <2>2
    <3>2. x2 \in D /\ y2[x2].name = n /\ x2 \in 1..Len(y)
      BY <1>4, <3>1
    <3>3. y[x2].name = y[x].name
      BY <1>3, <1>5, <2>2, <3>2
    <3> QED
      BY <1>7, <3>1, <3>2, <3>3
  <2> QED
    BY <2>1, <2>2
<1>9. ASSUME x # NotFound PROVE y2[CurrentIn(all2, y2, 1, x)].val = y[CurrentIn(all, y, st, x)].val
  <2> DEFINE v == CurrentIn(all, y, st, x)
             o == IF y[x].of # 0 THEN y[x].of ELSE x
  <2>1. x \in D /\ x \in 1..Len(y) /\ y2[x].of = v
    BY <1>3, <1>5, <1>9
  <2>2. v \in 1..Len(y)
    <3>1. o \in 1..Len(y)
      <4>1. y[x].of \in 0..Len(y) /\ Len(y) \in Nat
        BY <2>1, SeqFacts DEF Content
      <4> QED
        BY <2>1, <4>1
    <3>2. v = VersionIn(all, y, st, o)
      BY DEF CurrentIn
    <3>3. st \in 0..Len(all)
      BY <1>1
    <3> HIDE DEF o, v
    <3>4. VersionIn(all, y, st, o) \in 1..Len(y)
      BY <3>1, <3>3, VersionFacts
    <3> QED
      BY <3>2, <3>4
  <2> HIDE DEF v
  <2>3. v # 0
    <3>1. Len(y) \in Nat
      BY SeqFacts DEF Content
    <3> QED
      BY <2>2, <3>1
  <2>4. CurrentIn(all2, y2, 1, x) = VersionIn(all2, y2, 1, v)
    BY <2>1, <2>3 DEF CurrentIn
  <2>5. VersionIn(all2, y2, 1, v) = v
    <3>1. 1 \in 0..Len(all2) /\ 0 \in 0..Len(all2)
      BY <1>1
    <3>2. UpdateOf(all2, y2, 1, v) = NotFound
      <4>1. all2[1].updates = <<>>
        BY <1>1 DEF Content
      <4> QED
        BY <4>1, EmptyFacts, EarliestFacts DEF UpdateOf
    <3>3. all2[1].upUpdates = 0
      <4>1. all2[1].upUpdates \in 0..(1 - 1)
        BY <1>1 DEF Links
      <4> QED
        BY <4>1
    <3>4. VersionIn(all2, y2, 0, v) = v
      BY <1>1, <3>1, VersionUnfold
    <3> QED
      BY <1>1, <3>1, <3>2, <3>3, <3>4, VersionUnfold
  <2> QED
    BY <1>5, <2>2, <2>4, <2>5 DEF v
<1> QED
  BY <1>8, <1>9 DEF x, x2

\* A record of a scope, or of a symbol, with a field changed.
LEMMA ScopeWithSyms ==
  ASSUME NEW b, b = [depth |-> b.depth, up |-> b.up, search |-> b.search, upUpdates |-> b.upUpdates,
                     syms |-> b.syms, updates |-> b.updates], NEW q
  PROVE  [b EXCEPT !.syms = q] = [depth |-> b.depth, up |-> b.up, search |-> b.search, upUpdates |-> b.upUpdates,
                                  syms |-> q, updates |-> b.updates]
<1> DEFINE w == [b EXCEPT !.syms = q]
           r == [depth |-> b.depth, up |-> b.up, search |-> b.search, upUpdates |-> b.upUpdates,
                 syms |-> q, updates |-> b.updates]
           K == {"depth", "up", "search", "upUpdates", "syms", "updates"}
<1>1. DOMAIN b = K
  OBVIOUS
<1>2. /\ w = [k \in K |-> w[k]] /\ w["depth"] = b.depth /\ w["up"] = b.up
      /\ w["search"] = b.search /\ w["upUpdates"] = b.upUpdates /\ w["syms"] = q
      /\ w["updates"] = b.updates
  BY <1>1
<1>3. /\ r = [k \in K |-> r[k]] /\ r["depth"] = b.depth /\ r["up"] = b.up
      /\ r["search"] = b.search /\ r["upUpdates"] = b.upUpdates /\ r["syms"] = q
      /\ r["updates"] = b.updates
  OBVIOUS
<1> HIDE DEF w, r
<1>4. \A k \in K : w[k] = r[k]
  BY <1>2, <1>3
<1>5. w = r
  BY <1>2, <1>3, <1>4
<1> QED
  BY <1>5 DEF w, r

\* commit_update changes the update_of of a symbol and nothing else.
LEMMA SymbolWithOf ==
  ASSUME NEW b, b = [name |-> b.name, scope |-> b.scope, of |-> b.of, val |-> b.val], NEW o
  PROVE  [b EXCEPT !.of = o] = [name |-> b.name, scope |-> b.scope, of |-> o, val |-> b.val]
<1> DEFINE w == [b EXCEPT !.of = o]
           r == [name |-> b.name, scope |-> b.scope, of |-> o, val |-> b.val]
           K == {"name", "scope", "of", "val"}
<1>1. DOMAIN b = K
  OBVIOUS
<1>2. w = [k \in K |-> w[k]] /\ w["name"] = b.name /\ w["scope"] = b.scope /\ w["of"] = o /\ w["val"] = b.val
  BY <1>1
<1>3. r = [k \in K |-> r[k]] /\ r["name"] = b.name /\ r["scope"] = b.scope /\ r["of"] = o /\ r["val"] = b.val
  OBVIOUS
<1> HIDE DEF w, r
<1>4. \A k \in K : w[k] = r[k]
  BY <1>2, <1>3
<1>5. w = r
  BY <1>2, <1>3, <1>4
<1> QED
  BY <1>5 DEF w, r

\* commit_D_Scope does so.
LEMMA CommitScopeFacts ==
  ASSUME TableOK, NEW st \in 1..Len(sc), sc[st].up = 0, CommitScope(st)
  PROVE  Commits(sc, sy, st, sc', sy')
<1> DEFINE all2 == sc'
           y2 == sy'
           T == ToSet(Table(st))
           Q(s) == IF s = 1 THEN Table(st) ELSE IF s \in Chain(st) THEN <<>> ELSE sc[s].syms
           D == DeclsIn(sc, st)
<1>1. /\ Links(sc) /\ Tree(sc) /\ Content(sc, sy)
      /\ Len(sc) \in Nat /\ DOMAIN sc = 1..Len(sc) /\ Len(sy) \in Nat /\ DOMAIN sy = 1..Len(sy)
  BY SeqFacts DEF TableOK, Links, Content
<1>2. Table(st) = TableIn(sc, st)
  BY DEF Table, TableIn
<1>3. T = D
  BY <1>1, <1>2, TableFacts
<1>4. all2 = [s \in 1..Len(sc) |-> [sc[s] EXCEPT !.syms = Q(s)]]
  BY <1>1 DEF CommitScope, Committed
<1>5. y2 = [x \in 1..Len(sy) |-> IF x \in T THEN [sy[x] EXCEPT !.of = Current(st, x)] ELSE sy[x]]
  BY <1>1 DEF CommitScope
<1>6. IsSeq(all2) /\ Len(all2) = Len(sc)
  <2> DEFINE n == Len(sc)
  <2>1. n \in Nat /\ all2 = [s \in 1..n |-> all2[s]]
    BY <1>1, <1>4
  <2> HIDE DEF n, all2
  <2>2. IsSeq(all2) /\ Len(all2) = n
    BY ONLY <2>1, FunctionIsSeq
  <2> QED
    BY <2>2 DEF n
<1>7. IsSeq(y2) /\ Len(y2) = Len(sy)
  <2> DEFINE n == Len(sy)
  <2>1. n \in Nat /\ y2 = [s \in 1..n |-> y2[s]]
    BY <1>1, <1>5
  <2> HIDE DEF n, y2
  <2>2. IsSeq(y2) /\ Len(y2) = n
    BY ONLY <2>1, FunctionIsSeq
  <2> QED
    BY <2>2 DEF n
<1> HIDE DEF T
<1>8. ASSUME NEW s \in 1..Len(sc)
      PROVE  /\ all2[s] = [depth |-> sc[s].depth, up |-> sc[s].up, search |-> sc[s].search,
                           upUpdates |-> sc[s].upUpdates, syms |-> all2[s].syms, updates |-> sc[s].updates]
             /\ s = 1 => all2[s].syms = TableIn(sc, st)
             /\ s # 1 => all2[s].syms \in {<<>>, sc[s].syms}
  <2> DEFINE b == sc[s]
             e == all2[s]
             q == Q(s)
  <2>1. b = [depth |-> b.depth, up |-> b.up, search |-> b.search, upUpdates |-> b.upUpdates,
             syms |-> b.syms, updates |-> b.updates]
    BY <1>1 DEF Content
  <2> HIDE DEF q, all2
  <2>2. e = [b EXCEPT !.syms = q]
    BY <1>4 DEF q
  <2> HIDE DEF b
  <2>3. e = [depth |-> b.depth, up |-> b.up, search |-> b.search, upUpdates |-> b.upUpdates,
             syms |-> q, updates |-> b.updates]
    BY <2>1, <2>2, ScopeWithSyms
  <2>4. e.syms = q
    BY <2>3
  <2>5. /\ s = 1 => q = TableIn(sc, st)
        /\ s # 1 => q \in {<<>>, b.syms}
    BY <1>2 DEF q, b
  <2> HIDE DEF e
  <2> QED
    BY <2>3, <2>4, <2>5 DEF e, b
<1>9. ASSUME NEW x \in 1..Len(sy)
      PROVE  /\ y2[x] = [name |-> sy[x].name, scope |-> sy[x].scope, of |-> y2[x].of, val |-> sy[x].val]
             /\ y2[x].of = IF x \in D THEN CurrentIn(sc, sy, st, x) ELSE sy[x].of
  <2> DEFINE b == sy[x]
             e == y2[x]
             o == Current(st, x)
  <2>1. b = [name |-> b.name, scope |-> b.scope, of |-> b.of, val |-> b.val]
    BY <1>1 DEF Content
  <2>2. o = CurrentIn(sc, sy, st, x)
    BY LookupsOfTable
  <2> HIDE DEF o, y2
  <2>3. e = IF x \in D THEN [b EXCEPT !.of = o] ELSE b
    BY <1>3, <1>5 DEF o
  <2> HIDE DEF b, e, D
  <2>4. [b EXCEPT !.of = o] = [name |-> b.name, scope |-> b.scope, of |-> o, val |-> b.val]
    BY <2>1, SymbolWithOf
  <2>5. CASE x \in D
    <3>1. e = [name |-> b.name, scope |-> b.scope, of |-> o, val |-> b.val]
      BY <2>3, <2>4, <2>5
    <3>2. e.of = o
      BY <3>1
    <3> QED
      BY <2>2, <2>5, <3>1, <3>2 DEF e, b
  <2>6. CASE x \notin D
    <3>1. e = b
      BY <2>3, <2>6
    <3> QED
      BY <2>1, <2>6, <3>1 DEF e, b
  <2> QED
    BY <2>5, <2>6
<1> HIDE DEF all2, y2, Q
<1>10. Commits(sc, sy, st, all2, y2)
  BY <1>6, <1>7, <1>8, <1>9 DEF Commits, D
<1> QED
  BY <1>10 DEF all2, y2

\* The path that is left after the commit is in the top scope.
LEMMA CommittedPath ==
  ASSUME NEW a, a = [cur |-> a.cur, saved |-> a.saved, trail |-> a.trail], a.saved = [f \in {1} |-> a.saved[f]]
  PROVE  [a EXCEPT !.cur = 1, !.saved[1] = 1] = [cur |-> 1, saved |-> [f \in {1} |-> 1], trail |-> a.trail]
<1> DEFINE w == [a EXCEPT !.cur = 1, !.saved[1] = 1]
           sv == [a.saved EXCEPT ![1] = 1]
           r == [cur |-> 1, saved |-> sv, trail |-> a.trail]
           K == {"cur", "saved", "trail"}
<1>1. sv = [f \in {1} |-> 1]
  OBVIOUS
<1>2. w = [a EXCEPT !.cur = 1, !.saved = sv]
  OBVIOUS
<1> HIDE DEF sv, w
<1>3. DOMAIN a = K
  OBVIOUS
<1>4. w = [k \in K |-> w[k]] /\ w["cur"] = 1 /\ w["saved"] = sv /\ w["trail"] = a.trail
  BY <1>2, <1>3
<1>5. r = [k \in K |-> r[k]] /\ r["cur"] = 1 /\ r["saved"] = sv /\ r["trail"] = a.trail
  OBVIOUS
<1> HIDE DEF r
<1>6. \A k \in K : w[k] = r[k]
  BY <1>4, <1>5
<1>7. w = r
  BY <1>4, <1>5, <1>6
<1> QED
  BY <1>1, <1>7 DEF w, r

\* commit_D_Scope changes nothing that the path reads.
LEMMA CommitStep ==
  ASSUME Inv, Usage = {}, NEW p \in Live, Commit(p)
  PROVE  Inv' /\ TheViews' = TheViews
<1> DEFINE a == at[p]
           a2 == at'[p]
           c == a.cur
           all2 == sc'
           y2 == sy'
<1>1. /\ phase = "parsing" /\ phase' = "committed" /\ Live = {p} /\ sc[c].up = 0 /\ CommitScope(c)
      /\ at' = [at EXCEPT ![p].cur = 1, ![p].saved[1] = 1]
  BY DEF Commit
<1>2. /\ Links(sc) /\ Tree(sc) /\ Content(sc, sy) /\ TableOK
      /\ PathsOK /\ PathOK(sc, a) /\ Distinct(sc, sy, a.saved[1])
      /\ Len(sc) \in Nat
  BY <1>1, InvFacts DEF Inv
<1>3. c \in 1..Len(sc) /\ DOMAIN a.saved = AroundIn(sc, FrameIn(sc, c)) /\ a.saved[FrameIn(sc, c)] = c
  BY <1>2, SavedFacts
<1>4. FrameIn(sc, c) = 1 /\ AroundIn(sc, 1) = {1} /\ FrameUpIn(sc, 1) = 0
  BY <1>1, <1>2, <1>3, TopFrame
<1>5. Commits(sc, sy, c, all2, y2)
  BY <1>1, <1>2, <1>3, CommitScopeFacts
<1>6. /\ a = [cur |-> a.cur, saved |-> a.saved, trail |-> a.trail] /\ a.saved = [f \in {1} |-> a.saved[f]]
      /\ at = [q \in Live |-> at[q]]
  BY <1>2, <1>4 DEF PathOK, PathsOK
<1> DEFINE b == [cur |-> 1, saved |-> [f \in {1} |-> 1], trail |-> a.trail]
<1>7. at' = [at EXCEPT ![p] = b]
  <2>1. at' = [at EXCEPT ![p] = [a EXCEPT !.cur = 1, !.saved[1] = 1]]
    BY <1>1
  <2> HIDE DEF a
  <2>2. [a EXCEPT !.cur = 1, !.saved[1] = 1] = b
    BY <1>6, CommittedPath
  <2> QED
    BY <2>1, <2>2
<1>8. a2 = b /\ Live' = Live /\ at' = [q \in Live' |-> at'[q]]
  <2> HIDE DEF b
  <2>1. DOMAIN at = Live
    BY <1>6
  <2>2. at' = [q \in Live |-> at'[q]] /\ DOMAIN at' = Live /\ at'[p] = b
    BY <1>7, <2>1
  <2>3. Live' = Live
    BY <2>2 DEF Live
  <2> QED
    BY <2>2, <2>3
<1> HIDE DEF c, a2
<1>9. /\ Links(all2) /\ Tree(all2) /\ Content(all2, y2)
  BY <1>1, <1>2, <1>3, <1>5, CommitTable DEF c
<1>10. /\ PathOK(all2, a2) /\ FrameIn(all2, 1) = 1 /\ AroundIn(all2, 1) = {1} /\ FrameUpIn(all2, 1) = 0
       /\ a2.cur = 1 /\ a2.saved = [f \in {1} |-> 1]
  <2> DEFINE t == a.trail
  <2>1. a2 = [cur |-> 1, saved |-> [f \in {1} |-> 1], trail |-> t]
    BY <1>8
  <2> HIDE DEF t, all2
  <2>2. PathOK(all2, a2) /\ FrameIn(all2, 1) = 1 /\ AroundIn(all2, 1) = {1} /\ FrameUpIn(all2, 1) = 0
    BY <1>9, <2>1, TopPath
  <2>3. a2.cur = 1 /\ a2.saved = [f \in {1} |-> 1]
    BY <2>1
  <2> QED
    BY <2>2, <2>3
<1>11. Inv'
  <2>1. TableOK'
    BY <1>9 DEF TableOK
  <2>2. \A q \in Live' : q = p
    BY <1>1, <1>8
  <2>3. PathsOK'
    BY <1>8, <1>10, <2>2 DEF PathsOK, a2
  <2> QED
    BY <1>1, <1>10, <2>1, <2>2, <2>3 DEF Inv, a2
<1>12. ASSUME NEW n \in Names PROVE ValueIn(all2, y2, a2, 1, n) = ValueIn(sc, sy, a, 1, n)
  <2> DEFINE x == InScopeIn(sc, sy, c, n)
  <2>1. Distinct(sc, sy, c) /\ a.saved[1] = c /\ a.cur = c
    BY <1>2, <1>3, <1>4 DEF c
  <2>2. /\ InScopeIn(all2, y2, 1, n) = x
        /\ x # NotFound => y2[CurrentIn(all2, y2, 1, x)].val = sy[CurrentIn(sc, sy, c, x)].val
    BY <1>1, <1>2, <1>3, <1>5, <2>1, CommitReads DEF c
  <2>3. a2.saved[1] = 1
    BY <1>10
  <2> HIDE DEF a, all2, y2, x
  <2> QED
    BY <1>10, <2>1, <2>2, <2>3 DEF ValueIn, x
<1>13. ViewIn(all2, y2, a2) = ViewIn(sc, sy, a)
  <2> HIDE DEF a, all2, y2
  <2>1. DOMAIN a2.saved = {1} /\ DOMAIN a.saved = {1}
    BY <1>6, <1>10
  <2>2. a.cur = c
    BY DEF a, c
  <2> DEFINE X == [f \in {1} |-> [n \in Names |-> ValueIn(sc, sy, a, f, n)]]
             X2 == [f \in {1} |-> [n \in Names |-> ValueIn(all2, y2, a2, f, n)]]
             P == [f \in {1} |-> FrameUpIn(sc, f)]
             P2 == [f \in {1} |-> FrameUpIn(all2, f)]
  <2>3. ViewIn(sc, sy, a) = [here |-> 1, parent |-> P, vals |-> X]
    BY <1>4, <2>1, <2>2 DEF ViewIn
  <2>4. ViewIn(all2, y2, a2) = [here |-> 1, parent |-> P2, vals |-> X2]
    BY <1>10, <2>1 DEF ViewIn
  <2>5. P = P2
    BY <1>4, <1>10
  <2>6. X = X2
    BY <1>12
  <2> HIDE DEF X, X2, P, P2
  <2> QED
    BY <2>3, <2>4, <2>5, <2>6
<1>14. ViewOf(p)' = ViewOf(p)
  BY <1>13, ViewOfTable DEF a2
<1>15. TheViews' = [q \in {p} |-> ViewOf(p)'] /\ TheViews = [q \in {p} |-> ViewOf(p)]
  BY <1>1, <1>8 DEF TheViews
<1> QED
  BY <1>11, <1>14, <1>15

\* A fork goes on with the same view.
LEMMA ForkStep ==
  ASSUME Inv, Usage = {}, NEW p \in Live, NEW q, Fork(p, q)
  PROVE  Inv' /\ Views!Fork(p, q)
<1>1. Speculate /\ phase = "parsing" /\ q \notin Live /\ sc' = sc /\ sy' = sy
      /\ at' = [r \in Live \cup {q} |-> IF r = q THEN at[p] ELSE at[r]]
  BY DEF Fork, Speculate
<1>2. Live' = Live \cup {q} /\ \A r \in Live' : at'[r] = IF r = q THEN at[p] ELSE at[r]
  BY <1>1 DEF Live
<1>3. Len(sc) \in Nat /\ TableOK /\ Declared(sc, sy)
  BY <1>1, InvFacts DEF Inv
<1>4. Inv'
  <2>1. \A r \in Live' : PathOK(sc', at'[r]) /\ Distinct(sc', sy', at'[r].saved[1])
    BY <1>1, <1>2, InvFacts
  <2>2. at' = [r \in Live' |-> at'[r]]
    BY <1>1, <1>2
  <2>3. TableOK' /\ Declared(sc', sy')
    BY <1>1, <1>3 DEF TableOK
  <2>4. Len(sc') <= Len(sc) + 1
    BY <1>1, <1>3
  <2> QED
    BY <1>1, <2>1, <2>2, <2>3, <2>4, InvAfter
<1>5. ASSUME NEW r \in Live' PROVE ViewOf(r)' = IF r = q THEN TheViews[p] ELSE TheViews[r]
  <2>1. ViewOf(r)' = ViewIn(sc, sy, at'[r])
    BY <1>1, ViewOfTable
  <2>2. TheViews[p] = ViewIn(sc, sy, at[p])
    BY ViewOfTable DEF TheViews
  <2>3. CASE r = q
    BY <1>2, <2>1, <2>2, <2>3
  <2>4. CASE r # q
    <3>1. r \in Live
      BY <1>2, <2>4
    <3>2. TheViews[r] = ViewIn(sc, sy, at[r])
      BY <3>1, ViewOfTable DEF TheViews
    <3> QED
      BY <1>2, <2>1, <2>4, <3>2
  <2> QED
    BY <2>3, <2>4
<1>6. TheViews' = [r \in Live' |-> ViewOf(r)']
  BY DEF TheViews
<1>7. DOMAIN TheViews = Live
  BY DEF TheViews
<1>8. TheViews' = [r \in DOMAIN TheViews \cup {q} |-> IF r = q THEN TheViews[p] ELSE TheViews[r]]
  BY <1>2, <1>5, <1>6, <1>7
<1>9. Views!Fork(p, q)
  BY <1>1, <1>7, <1>8 DEF Views!Fork, Views!Live, TheViews
<1> QED
  BY <1>4, <1>9

\* The others go on without a path that dies.
LEMMA DropStep ==
  ASSUME Inv, Usage = {}, NEW p \in Live, Drop(p)
  PROVE  Inv' /\ Views!Drop(p)
<1>1. Speculate /\ phase = "parsing" /\ Live # {p} /\ sc' = sc /\ sy' = sy
      /\ at' = [r \in Live \ {p} |-> at[r]]
  BY DEF Drop, Speculate
<1>2. Live' = Live \ {p} /\ \A r \in Live' : at'[r] = at[r] /\ r \in Live
  BY <1>1 DEF Live
<1>3. Len(sc) \in Nat /\ TableOK /\ Declared(sc, sy)
  BY <1>1, InvFacts DEF Inv
<1>4. Inv'
  <2>1. \A r \in Live' : PathOK(sc', at'[r]) /\ Distinct(sc', sy', at'[r].saved[1])
    BY <1>1, <1>2, InvFacts
  <2>2. at' = [r \in Live' |-> at'[r]]
    BY <1>1, <1>2
  <2>3. TableOK' /\ Declared(sc', sy')
    BY <1>1, <1>3 DEF TableOK
  <2>4. Len(sc') <= Len(sc) + 1
    BY <1>1, <1>3
  <2> QED
    BY <1>1, <2>1, <2>2, <2>3, <2>4, InvAfter
<1>5. ASSUME NEW r \in Live' PROVE ViewOf(r)' = TheViews[r]
  <2>1. ViewOf(r)' = ViewIn(sc, sy, at'[r]) /\ r \in Live
    BY <1>1, <1>2, ViewOfTable
  <2>2. TheViews[r] = ViewIn(sc, sy, at[r])
    BY <2>1, ViewOfTable DEF TheViews
  <2> QED
    BY <1>2, <2>1, <2>2
<1>6. TheViews' = [r \in Live' |-> ViewOf(r)']
  BY DEF TheViews
<1>7. DOMAIN TheViews = Live
  BY DEF TheViews
<1>8. TheViews' = [r \in DOMAIN TheViews \ {p} |-> TheViews[r]]
  BY <1>2, <1>5, <1>6, <1>7
<1>9. Views!Drop(p)
  BY <1>1, <1>7, <1>8 DEF Views!Drop, Views!Live, TheViews
<1> QED
  BY <1>4, <1>9

-----------------------------------------------------------------------------
(* Equivalent scopes.                                                      *)

\* Where equiv_D_Scope of st stops its walk at s, and the scopes it meets from s on.
StopsIn(all, y, st, s) ==
  \/ all[s].syms # <<>> \/ s = 1
  \/ \E k \in DOMAIN all[s].updates : all[y[all[s].updates[k]].scope].depth <= all[st].depth
  \/ all[s].upUpdates = 0
EquivsIn(all, y, st, from) ==
  LET walk[s \in DOMAIN all] ==
        IF all[s].depth < all[st].depth THEN {}
        ELSE IF all[s].depth = all[st].depth /\ all[s].up # all[st].up THEN {}
        ELSE (IF all[s].depth = all[st].depth THEN {s} ELSE {})
             \cup (IF StopsIn(all, y, st, s) THEN {} ELSE walk[all[s].upUpdates])
  IN  walk[from]

\* It meets a scope, and goes on in the history before it.
LEMMA EquivsUnfold ==
  ASSUME NEW all, Links(all), NEW y, NEW st, NEW s \in 1..Len(all)
  PROVE  EquivsIn(all, y, st, s) =
           IF all[s].depth < all[st].depth THEN {}
           ELSE IF all[s].depth = all[st].depth /\ all[s].up # all[st].up THEN {}
           ELSE (IF all[s].depth = all[st].depth THEN {s} ELSE {})
                \cup (IF StopsIn(all, y, st, s) THEN {} ELSE EquivsIn(all, y, st, all[s].upUpdates))
<1> DEFINE m == Len(all)
           d == all[st].depth
           Ends(t) == StopsIn(all, y, st, t)
           Out(t) == all[t].depth < d \/ (all[t].depth = d /\ all[t].up # all[st].up)
           stops == {t \in 1..m : Out(t) \/ Ends(t)}
           next == [t \in 1..m |-> all[t].upUpdates]
           base == [t \in 1..m |-> IF Out(t) THEN {} ELSE IF all[t].depth = d THEN {t} ELSE {}]
           Of(f, t) == IF all[t].depth < d THEN {}
                       ELSE IF all[t].depth = d /\ all[t].up # all[st].up THEN {}
                       ELSE (IF all[t].depth = d THEN {t} ELSE {}) \cup (IF Ends(t) THEN {} ELSE f[all[t].upUpdates])
           IsWalk(f) == f = [t \in 1..m |-> Of(f, t)]
           walk == CHOOSE f : IsWalk(f)
<1>1. m \in Nat /\ DOMAIN all = 1..m
  BY SeqFacts DEF Links
<1>2. \E f : IsWalk(f)
  <2>1. Earlier(1, m, stops, next)
    <3>1. \A t \in 1..m : t \notin stops => all[t].upUpdates # 0 /\ all[t].upUpdates \in 0..(t - 1)
      BY DEF Links, StopsIn
    <3>2. \A t \in 1..m : t \notin stops => all[t].upUpdates \in 1..(t - 1)
      <4> HIDE DEF m, stops
      <4> QED
        BY <1>1, <3>1
    <3> HIDE DEF m, stops
    <3> QED
      BY <1>1, <3>2 DEF Earlier
  <2> HIDE DEF stops, next, base, m
  <2>2. Gathering(1, m, stops, next, base)
    BY <1>1, <2>1, GatheringExists
  <2>3. PICK f : f = [t \in 1..m |-> base[t] \cup (IF t \in stops THEN {} ELSE f[next[t]])]
    BY <2>2 DEF Gathering
  <2>4. ASSUME NEW t \in 1..m
        PROVE  base[t] \cup (IF t \in stops THEN {} ELSE f[next[t]]) = Of(f, t)
    <3> HIDE DEF d, Ends
    <3> QED
      BY DEF stops, next, base
  <2>5. IsWalk(f)
    <3> HIDE DEF Of
    <3> QED
      BY <2>3, <2>4
  <2> QED
    BY <2>5
<1>3. IsWalk(walk)
  <2> HIDE DEF IsWalk
  <2> QED
    BY <1>2
<1>4. \A t : EquivsIn(all, y, st, t) = walk[t]
  BY <1>1 DEF EquivsIn
<1> HIDE DEF walk, d, Ends
<1>5. walk[s] = Of(walk, s)
  <2> HIDE DEF Of
  <2> QED
    BY <1>1, <1>3
<1> QED
  BY <1>4, <1>5 DEF d, Ends

\* equiv_D_Scope gives the oldest of the scopes it meets.
LEMMA EquivMet ==
  ASSUME TableOK, NEW st \in 1..Len(sc)
  PROVE  Equiv(st) \in EquivsIn(sc, sy, st, st)
<1> DEFINE W == EquivsIn(sc, sy, st, st)
<1>1. Links(sc) /\ Len(sc) \in Nat
  BY SeqFacts DEF TableOK, Links
<1>2. Equiv(st) = CHOOSE s \in W : \A t \in W : s <= t
  BY DEF Equiv, EquivsIn, StopsIn
<1>3. st \in W
  <2>1. sc[st].depth \in Nat
    BY <1>1 DEF Links
  <2>2. ~(sc[st].depth < sc[st].depth)
    BY <2>1
  <2> QED
    BY <1>1, <2>2, EquivsUnfold
<1>4. W \subseteq Nat
  <2> DEFINE n == Len(sc)
             Good(z) == EquivsIn(sc, sy, st, z) \subseteq Nat
             B == {z \in 1..n : Good(z)}
  <2>1. ASSUME NEW z \in 1..n, 1..(z - 1) \subseteq B PROVE Good(z)
    <3> DEFINE u == sc[z].upUpdates
    <3>1. EquivsIn(sc, sy, st, z) \subseteq {z} \cup (IF StopsIn(sc, sy, st, z) THEN {} ELSE EquivsIn(sc, sy, st, u))
      BY <1>1, EquivsUnfold
    <3>2. u = 0 => StopsIn(sc, sy, st, z)
      BY DEF StopsIn
    <3>3. u \in 0..(z - 1)
      BY <1>1 DEF Links
    <3>4. u # 0 => EquivsIn(sc, sy, st, u) \subseteq Nat
      BY <2>1, <3>3
    <3> HIDE DEF u
    <3> QED
      BY <3>1, <3>2, <3>4
  <2> HIDE DEF n, Good
  <2>2. \A z \in 1..n : 1..(z - 1) \subseteq B => z \in B
    BY <2>1
  <2>3. n \in Nat
    BY <1>1 DEF n
  <2> HIDE DEF B
  <2>4. 1..n \subseteq B
    BY ONLY <2>2, <2>3, CountingInduction
  <2> QED
    BY <2>4 DEF B, Good, n
<1> HIDE DEF W
<1>5. \E s \in W : \A t \in W : s <= t
  BY <1>3, <1>4, MinExists DEF MinOf
<1> QED
  BY <1>2, <1>5 DEF W

\* A symbol that find_D_Sym finds from a scope is declared at most as deep as the scope.
LEMMA FindDeclared ==
  ASSUME NEW all, Links(all), Tree(all), NEW y, Content(all, y), Declared(all, y), NEW st \in 1..Len(all), NEW nm,
         FindIn(all, y, st, nm) # NotFound
  PROVE  LET x == FindIn(all, y, st, nm)
         IN  x \in 1..Len(y) /\ y[x].of = 0 /\ all[y[x].scope].depth <= all[st].depth
<1> DEFINE n == Len(all)
           Good(z) == LET x == FindIn(all, y, z, nm)
                      IN  x # NotFound => x \in 1..Len(y) /\ y[x].of = 0 /\ all[y[x].scope].depth <= all[z].depth
           B == {z \in 1..n : Good(z)}
<1>1. n \in Nat
  BY SeqFacts DEF Links
<1>2. ASSUME NEW z \in 1..n, 1..(z - 1) \subseteq B PROVE Good(z)
  <2> DEFINE u == all[z].search
             e == SymOf(all, y, z, nm)
             x == FindIn(all, y, z, nm)
  <2>1. z # 0 /\ z \in 0..n /\ all[z].depth \in Nat
    BY <1>1 DEF Links
  <2>2. x = IF e # NotFound THEN e ELSE FindIn(all, y, u, nm)
    BY <2>1, FindUnfold
  <2>3. CASE e # NotFound
    <3>1. e \in ToSet(all[z].syms) /\ e \in 1..Len(y)
      BY <2>3, SymOfFacts
    <3>2. y[e].of = 0 /\ y[e].scope = z
      BY <3>1 DEF Declared
    <3> HIDE DEF e, x
    <3>3. all[y[e].scope].depth <= all[z].depth
      BY <2>1, <3>2
    <3> QED
      BY <2>2, <2>3, <3>1, <3>2, <3>3 DEF x
  <2>4. CASE e = NotFound
    <3>1. x = FindIn(all, y, u, nm)
      BY <2>2, <2>4
    <3>2. u \in 0..(z - 1)
      BY DEF Links
    <3>3. CASE u = 0
      <4>1. 0 \in 0..n
        BY <1>1
      <4>2. FindIn(all, y, 0, nm) = NotFound
        BY <4>1, FindUnfold
      <4> QED
        BY <3>1, <3>3, <4>2
    <3>4. CASE u # 0
      <4>1. u \in 1..(z - 1) /\ u \in 1..n
        BY <1>1, <3>2, <3>4
      <4>2. Good(u)
        BY <1>2, <4>1
      <4>3. all[u].depth <= all[z].depth /\ all[u].depth \in Nat
        <5>1. z \in 2..n
          BY <1>1, <4>1
        <5>2. \/ all[z].search = all[z].up /\ all[z].depth = all[all[z].up].depth + 1
              \/ all[z].up = all[all[z].search].up /\ all[z].depth = all[all[z].search].depth
          BY <5>1 DEF Tree
        <5>3. all[u].depth \in Nat
          BY <4>1 DEF Links
        <5>4. all[z].depth = all[u].depth + 1 \/ all[z].depth = all[u].depth
          BY <5>2
        <5> HIDE DEF u
        <5> QED
          BY <5>3, <5>4
      <4> HIDE DEF u, x
      <4>4. ASSUME x # NotFound PROVE x \in 1..Len(y) /\ y[x].of = 0 /\ all[y[x].scope].depth <= all[z].depth
        <5>1. x \in 1..Len(y) /\ y[x].of = 0 /\ all[y[x].scope].depth <= all[u].depth
          BY <3>1, <4>2, <4>4
        <5>2. y[x].scope \in 1..Len(all)
          BY <5>1 DEF Declared
        <5>3. all[y[x].scope].depth \in Nat
          BY <5>2 DEF Links
        <5> QED
          BY <2>1, <4>3, <5>1, <5>3
      <4> QED
        BY <4>4 DEF x
    <3> QED
      BY <3>3, <3>4
  <2> QED
    BY <2>3, <2>4
<1> HIDE DEF n, Good
<1>3. \A z \in 1..n : 1..(z - 1) \subseteq B => z \in B
  BY <1>2
<1> HIDE DEF B
<1>4. 1..n \subseteq B
  BY ONLY <1>1, <1>3, CountingInduction
<1>5. Good(st)
  BY <1>4 DEF B, n
<1> QED
  BY <1>5 DEF Good

\* A scope where the walk goes on has no update of a symbol that st can see.
LEMMA NoUpdateHere ==
  ASSUME NEW all, Links(all), NEW y, Content(all, y), Declared(all, y), NEW st, NEW s \in 1..Len(all),
         ~StopsIn(all, y, st, s), NEW o \in 1..Len(y), all[y[o].scope].depth <= all[st].depth
  PROVE  UpdateOf(all, y, s, o) = NotFound
<1> DEFINE u == UpdateOf(all, y, s, o)
           q == all[s].updates
<1>1. SUFFICES ASSUME u # NotFound PROVE FALSE
  OBVIOUS
<1>2. u \in ToSet(q) /\ u \in 1..Len(y) /\ y[u].of = o
  BY <1>1, UpdateOfFacts
<1>3. o # 0 /\ y[o].scope = y[u].scope
  <2>1. o # 0
    <3>1. Len(y) \in Nat
      BY SeqFacts DEF Content
    <3> QED
      BY <3>1
  <2> HIDE DEF u
  <2> QED
    BY <1>2, <2>1 DEF Declared
<1>4. PICK k \in DOMAIN q : q[k] = u
  <2> HIDE DEF u, q
  <2> QED
    BY <1>2 DEF ToSet
<1>5. all[y[q[k]].scope].depth <= all[st].depth
  BY <1>3, <1>4
<1> QED
  BY <1>5 DEF StopsIn

\* The scopes the walk meets find the symbols, and the versions of the symbols, that st finds.
Alike(all, y, st, r, s) ==
  /\ r \in 1..Len(all) /\ all[r].depth = all[st].depth
  /\ \A nm : FindIn(all, y, r, nm) = FindIn(all, y, LevelIn(all, s, all[st].depth), nm)
  /\ \A o \in 1..Len(y) :
       y[o].of = 0 /\ all[y[o].scope].depth <= all[st].depth => VersionIn(all, y, r, o) = VersionIn(all, y, s, o)

\* All the scopes the walk meets from s on are alike.
LEMMA EquivsAlike ==
  ASSUME NEW all, Links(all), Tree(all), NEW y, Content(all, y), Declared(all, y), NEW st \in 1..Len(all),
         NEW s \in 1..Len(all)
  PROVE  \A r \in EquivsIn(all, y, st, s) : Alike(all, y, st, r, s)
<1> DEFINE n == Len(all)
           d == all[st].depth
           Good(z) == \A r \in EquivsIn(all, y, st, z) : Alike(all, y, st, r, z)
           B == {z \in 1..n : Good(z)}
<1>1. n \in Nat /\ d \in Nat
  BY SeqFacts DEF Links
<1>2. ASSUME NEW z \in 1..n, 1..(z - 1) \subseteq B PROVE Good(z)
  <2> DEFINE u == all[z].upUpdates
  <2>1. EquivsIn(all, y, st, z) =
           IF all[z].depth < d THEN {}
           ELSE IF all[z].depth = d /\ all[z].up # all[st].up THEN {}
           ELSE (IF all[z].depth = d THEN {z} ELSE {})
                \cup (IF StopsIn(all, y, st, z) THEN {} ELSE EquivsIn(all, y, st, u))
    BY EquivsUnfold
  <2>2. all[z].depth \in Nat /\ z # 0 /\ z \in 0..n /\ u \in 0..(z - 1)
    BY <1>1 DEF Links
  <2>3. ASSUME all[z].depth = d PROVE Alike(all, y, st, z, z)
    <3>1. all[z].depth <= d
      BY <1>1, <2>3
    <3>2. LevelIn(all, z, d) = z
      BY <1>1, <3>1, LevelFacts
    <3> QED
      BY <2>3, <3>2 DEF Alike
  <2>4. ASSUME ~StopsIn(all, y, st, z), all[z].depth >= d, NEW r \in EquivsIn(all, y, st, u)
        PROVE  Alike(all, y, st, r, z)
    <3>1. all[z].syms = <<>> /\ z # 1 /\ u # 0
      BY <2>4 DEF StopsIn
    <3>2. u \in 1..(z - 1) /\ u \in 1..n /\ z \in 2..n
      BY <1>1, <2>2, <3>1
    <3>3. Alike(all, y, st, r, u)
      <4>1. Good(u)
        BY <1>2, <3>2
      <4> QED
        BY <2>4, <4>1
    <3>4. ASSUME NEW o \in 1..Len(y), y[o].of = 0, all[y[o].scope].depth <= d
          PROVE  VersionIn(all, y, r, o) = VersionIn(all, y, z, o)
      <4>1. UpdateOf(all, y, z, o) = NotFound
        BY <2>4, <3>4, NoUpdateHere
      <4>2. VersionIn(all, y, z, o) = VersionIn(all, y, u, o)
        BY <2>2, <4>1, VersionUnfold
      <4> QED
        BY <3>3, <3>4, <4>2 DEF Alike
    <3>5. ASSUME NEW nm PROVE FindIn(all, y, r, nm) = FindIn(all, y, LevelIn(all, z, d), nm)
      <4>1. FindIn(all, y, r, nm) = FindIn(all, y, LevelIn(all, u, d), nm)
        BY <3>3 DEF Alike
      <4>2. CASE all[z].depth = d
        <5>1. all[z].depth <= d
          BY <1>1, <4>2
        <5>2. LevelIn(all, z, d) = z
          BY <1>1, <5>1, LevelFacts
        <5>3. LevelIn(all, u, d) = all[z].search
          BY <3>2, <4>2 DEF Tree
        <5>4. SymOf(all, y, z, nm) = NotFound
          <6>1. ToSet(all[z].syms) = {}
            BY <3>1 DEF ToSet
          <6>2. SymOf(all, y, z, nm) # NotFound => SymOf(all, y, z, nm) \in ToSet(all[z].syms)
            BY SymOfFacts
          <6> QED
            BY <6>1, <6>2
        <5>5. FindIn(all, y, z, nm) = FindIn(all, y, all[z].search, nm)
          BY <2>2, <5>4, FindUnfold
        <5> QED
          BY <4>1, <5>2, <5>3, <5>5
      <4>3. CASE all[z].depth # d
        <5>1. ~(all[z].depth <= d)
          BY <1>1, <2>2, <2>4, <4>3
        <5>2. LevelIn(all, z, d) = LevelIn(all, u, d)
          BY <1>1, <5>1, LevelFacts
        <5> QED
          BY <4>1, <5>2
      <4> QED
        BY <4>2, <4>3
    <3> QED
      BY <3>3, <3>4, <3>5 DEF Alike
  <2>5. ASSUME NEW r \in EquivsIn(all, y, st, z) PROVE Alike(all, y, st, r, z)
    <3> DEFINE E == EquivsIn(all, y, st, u)
               b == all[z].depth
    <3>1. /\ ~(b < d)
          /\ \/ b = d /\ r = z
             \/ ~StopsIn(all, y, st, z) /\ r \in E
      <4> HIDE DEF E, b, u, d
      <4> QED
        BY <2>1, <2>5 DEF E, b
    <3>2. b >= d
      <4> HIDE DEF b, d
      <4>1. b \in Nat
        BY <2>2 DEF b
      <4> QED
        BY <1>1, <3>1, <4>1
    <3> QED
      BY <2>3, <2>4, <3>1, <3>2
  <2> QED
    BY <2>5
<1> HIDE DEF n, Good
<1>3. \A z \in 1..n : 1..(z - 1) \subseteq B => z \in B
  BY <1>2
<1>4. n \in Nat
  BY <1>1
<1> HIDE DEF B
<1>5. 1..n \subseteq B
  BY ONLY <1>3, <1>4, CountingInduction
<1>6. Good(s)
  BY <1>5 DEF B, n
<1> QED
  BY <1>6 DEF Good

\* equiv_D_Scope gives a scope that reads as its argument does.
LEMMA EquivReads ==
  ASSUME Inv
  PROVE  EquivKeepsView
<1> SUFFICES ASSUME NEW p \in Live, NEW n \in Names
             PROVE  FindSym(Equiv(at[p].cur), n) = FindSym(at[p].cur, n)
  BY DEF EquivKeepsView
<1> DEFINE c == at[p].cur
           e == Equiv(c)
<1>1. TableOK /\ Links(sc) /\ Tree(sc) /\ Content(sc, sy) /\ PathOK(sc, at[p]) /\ Len(sc) \in Nat
  <2>1. TableOK /\ PathsOK /\ Links(sc) /\ Tree(sc) /\ Content(sc, sy)
    BY DEF Inv, TableOK
  <2>2. Len(sc) \in Nat
    BY <2>1, SeqFacts DEF Links
  <2> QED
    BY <2>1, <2>2 DEF PathsOK
<1>2. c \in 1..Len(sc)
  BY <1>1 DEF PathOK
<1>3. e \in EquivsIn(sc, sy, c, c)
  BY <1>1, <1>2, EquivMet
<1>4. CASE phase = "committed"
  <2>1. c = 1
    BY <1>4 DEF Inv
  <2>2. StopsIn(sc, sy, c, c)
    BY <2>1 DEF StopsIn
  <2>3. EquivsIn(sc, sy, c, c) \subseteq {c}
    BY <1>1, <1>2, <2>2, EquivsUnfold
  <2>4. e = c
    <3> HIDE DEF e, c
    <3> QED
      BY <1>3, <2>3
  <2> QED
    BY <2>4
<1>5. CASE phase = "parsing"
  <2>1. Declared(sc, sy)
    BY <1>5 DEF Inv, Parsing
  <2>2. Alike(sc, sy, c, e, c)
    <3> HIDE DEF e, c
    <3> QED
      BY <1>1, <1>2, <1>3, <2>1, EquivsAlike
  <2>3. sc[c].depth \in Nat
    BY <1>1, <1>2 DEF Links
  <2>4. LevelIn(sc, c, sc[c].depth) = c
    <3> DEFINE d == sc[c].depth
    <3>1. d \in Nat /\ sc[c].depth <= d
      BY <2>3
    <3> HIDE DEF c, d
    <3>2. LevelIn(sc, c, d) = c
      BY <1>1, <1>2, <3>1, LevelFacts
    <3> QED
      BY <3>2 DEF d
  <2>5. e \in 1..Len(sc) /\ FindIn(sc, sy, e, n) = FindIn(sc, sy, c, n)
    BY <2>2, <2>4 DEF Alike
  <2> DEFINE x == FindIn(sc, sy, c, n)
  <2>6. Find(e, n) = x /\ Find(c, n) = x
    BY <2>5, LookupsOfTable
  <2>7. ASSUME x # NotFound PROVE Current(e, x) = Current(c, x)
    <3>1. x \in 1..Len(sy) /\ sy[x].of = 0 /\ sc[sy[x].scope].depth <= sc[c].depth
      BY <1>1, <1>2, <2>1, <2>7, FindDeclared
    <3>2. VersionIn(sc, sy, e, x) = VersionIn(sc, sy, c, x)
      BY <2>2, <3>1 DEF Alike
    <3>3. Current(e, x) = CurrentIn(sc, sy, e, x) /\ Current(c, x) = CurrentIn(sc, sy, c, x)
      BY LookupsOfTable
    <3> HIDE DEF x, e, c
    <3> QED
      BY <3>1, <3>2, <3>3 DEF CurrentIn
  <2> HIDE DEF x, e
  <2>8. FindSym(e, n) = FindSym(c, n)
    BY <2>6, <2>7 DEF FindSym
  <2> QED
    BY <2>8 DEF e
<1> QED
  BY <1>4, <1>5 DEF Inv

-----------------------------------------------------------------------------
(* The specification.                                                      *)

\* The parse starts in the top scope, with no symbol: the invariant holds, and the view
\* is an initial one.
LEMMA StartStep ==
  ASSUME Init
  PROVE  /\ Inv
         /\ \E p \in Paths :
              TheViews = [q \in {p} |-> [here |-> 1, parent |-> [f \in {1} |-> 0],
                                         vals |-> [f \in {1} |-> [n \in Names |-> <<>>]]]]
<1> DEFINE e == sc[1]
           b == [cur |-> 1, saved |-> [f \in {1} |-> 1], trail |-> <<>>]
<1>1. /\ sc = <<[depth |-> 0, up |-> 0, search |-> 0, upUpdates |-> 0, syms |-> <<>>, updates |-> <<>>]>>
      /\ sy = <<>> /\ phase = "parsing" /\ steps = 0
      /\ \E p \in Paths : at = [q \in {p} |-> b]
  BY DEF Init
<1>2. PICK p \in Paths : at = [q \in {p} |-> b]
  BY <1>1
<1>3. e = [depth |-> 0, up |-> 0, search |-> 0, upUpdates |-> 0, syms |-> <<>>, updates |-> <<>>]
  BY <1>1
<1>4. IsSeq(sc) /\ Len(sc) = 1 /\ 1..Len(sc) = {1} /\ 2..Len(sc) = {}
  <2>1. Len(sc) = 1 /\ sc \in Seq({sc[1]})
    BY <1>1
  <2>2. 1..1 = {1} /\ 2..1 = {}
    OBVIOUS
  <2> QED
    BY <2>1, <2>2, SeqIntro
<1>5. IsSeq(sy) /\ Len(sy) = 0 /\ 1..Len(sy) = {}
  <2>1. sy \in Seq({}) /\ Len(sy) = 0
    BY <1>1
  <2>2. 1..0 = {}
    OBVIOUS
  <2> QED
    BY <2>1, <2>2, SeqIntro
<1>6. /\ e.depth = 0 /\ e.up = 0 /\ e.search = 0 /\ e.upUpdates = 0 /\ e.syms = <<>> /\ e.updates = <<>>
      /\ e = [depth |-> e.depth, up |-> e.up, search |-> e.search,
              upUpdates |-> e.upUpdates, syms |-> e.syms, updates |-> e.updates]
  BY <1>3
<1>7. IsSeq(<<>>) /\ ToSet(<<>>) = {}
  <2>1. <<>> \in Seq({}) /\ DOMAIN <<>> = {}
    OBVIOUS
  <2>2. IsSeq(<<>>)
    BY <2>1, SeqIntro
  <2>3. ToSet(<<>>) = {}
    BY <2>1 DEF ToSet
  <2> QED
    BY <2>2, <2>3
<1> HIDE DEF e
<1>8. Links(sc)
  <2>1. 0 \in Nat /\ 0 \in 0..(1 - 1)
    OBVIOUS
  <2>2. \A s \in 1..Len(sc) : s = 1 /\ sc[s] = e
    BY <1>4 DEF e
  <2>3. \A s \in 1..Len(sc) :
          /\ sc[s].depth \in Nat
          /\ sc[s].up \in 0..(s - 1) /\ sc[s].search \in 0..(s - 1) /\ sc[s].upUpdates \in 0..(s - 1)
          /\ s # 1 => sc[s].search # 0 /\ sc[s].upUpdates # 0
    BY <1>6, <2>1, <2>2
  <2> QED
    BY <1>4, <2>3 DEF Links
<1>9. Tree(sc)
  BY <1>4, <1>6 DEF Tree, e
<1>10. Content(sc, sy)
  <2>1. \A s \in 1..Len(sc) : sc[s] = e
    BY <1>4 DEF e
  <2>2. \A s \in 1..Len(sc) :
          /\ sc[s] = [depth |-> sc[s].depth, up |-> sc[s].up, search |-> sc[s].search,
                      upUpdates |-> sc[s].upUpdates, syms |-> sc[s].syms, updates |-> sc[s].updates]
          /\ IsSeq(sc[s].syms) /\ ToSet(sc[s].syms) \subseteq 1..Len(sy)
          /\ IsSeq(sc[s].updates) /\ ToSet(sc[s].updates) \subseteq 1..Len(sy)
    BY <1>6, <1>7, <2>1
  <2>3. sc[1].updates = <<>>
    BY <1>6 DEF e
  <2> QED
    BY <1>5, <2>2, <2>3 DEF Content
<1>11. /\ PathOK(sc, b) /\ FrameIn(sc, 1) = 1 /\ AroundIn(sc, 1) = {1} /\ FrameUpIn(sc, 1) = 0
  <2> DEFINE t == <<>>
             a == [cur |-> 1, saved |-> [f \in {1} |-> 1], trail |-> t]
  <2> HIDE DEF t
  <2>1. a = [cur |-> 1, saved |-> [f \in {1} |-> 1], trail |-> t]
    OBVIOUS
  <2> HIDE DEF a
  <2>2. PathOK(sc, a) /\ FrameIn(sc, 1) = 1 /\ AroundIn(sc, 1) = {1} /\ FrameUpIn(sc, 1) = 0
    BY <1>8, <1>9, <2>1, TopPath
  <2>3. a = b
    BY DEF a, t
  <2> QED
    BY <2>2, <2>3
<1>12. DeclsIn(sc, 1) = {} /\ \A n : InScopeIn(sc, sy, 1, n) = NotFound
  <2>1. 1 \in 1..Len(sc) /\ ToSet(sc[1].syms) = {} /\ sc[1].search = 0
    BY <1>4, <1>6, <1>7 DEF e
  <2>2. DeclsIn(sc, 1) = {}
    BY <1>8, <2>1, DeclsUnfold
  <2>3. ASSUME NEW n PROVE InScopeIn(sc, sy, 1, n) = NotFound
    <3>1. SymOf(sc, sy, 1, n) = NotFound
      <4>1. SymOf(sc, sy, 1, n) # NotFound => SymOf(sc, sy, 1, n) \in ToSet(sc[1].syms)
        BY <1>10, <2>1, SymOfFacts
      <4> QED
        BY <2>1, <4>1
    <3> QED
      BY <1>8, <2>1, <3>1, InScopeUnfold
  <2> QED
    BY <2>2, <2>3
<1>13. b.cur = 1 /\ b.saved[1] = 1 /\ DOMAIN b.saved = {1}
  OBVIOUS
<1> HIDE DEF b
<1>14. Live = {p} /\ at = [q \in Live |-> at[q]] /\ \A q \in Live : at[q] = b
  BY <1>2 DEF Live
<1>15. Inv
  <2>1. TableOK /\ PathsOK
    BY <1>8, <1>9, <1>10, <1>11, <1>14 DEF TableOK, PathsOK
  <2>2. Declared(sc, sy)
    <3>1. \A s \in 1..Len(sc) : ToSet(sc[s].syms) = {} /\ ToSet(sc[s].updates) = {}
      BY <1>4, <1>6, <1>7 DEF e
    <3> QED
      BY <1>5, <3>1 DEF Declared
  <2>3. \A q \in Live : Distinct(sc, sy, at[q].saved[1])
    BY <1>12, <1>13, <1>14 DEF Distinct
  <2>4. Len(sc) <= steps + 1 /\ steps \in 0..MaxSteps
    BY <1>1, <1>4, StepsAssumption
  <2> QED
    BY <1>1, <2>1, <2>2, <2>3, <2>4 DEF Inv, Parsing
<1>16. ASSUME NEW q \in Live
       PROVE  ViewOf(q) = [here |-> 1, parent |-> [f \in {1} |-> 0], vals |-> [f \in {1} |-> [n \in Names |-> <<>>]]]
  <2>1. ViewOf(q) = ViewIn(sc, sy, b)
    BY <1>14, ViewOfTable
  <2>2. \A f \in {1} : \A n : ValueIn(sc, sy, b, f, n) = <<>>
    BY <1>12, <1>13 DEF ValueIn
  <2>3. [f \in {1} |-> [n \in Names |-> ValueIn(sc, sy, b, f, n)]] = [f \in {1} |-> [n \in Names |-> <<>>]]
    BY <2>2
  <2>4. [f \in {1} |-> FrameUpIn(sc, f)] = [f \in {1} |-> 0]
    BY <1>11
  <2> QED
    BY <1>11, <1>13, <2>1, <2>3, <2>4 DEF ViewIn
<1>17. TheViews = [q \in {p} |-> [here |-> 1, parent |-> [f \in {1} |-> 0],
                                  vals |-> [f \in {1} |-> [n \in Names |-> <<>>]]]]
  <2> DEFINE v == [here |-> 1, parent |-> [f \in {1} |-> 0], vals |-> [f \in {1} |-> [n \in Names |-> <<>>]]]
  <2>1. \A q \in Live : ViewOf(q) = v
    BY <1>16
  <2> HIDE DEF v
  <2>2. TheViews = [q \in {p} |-> v]
    BY <1>14, <2>1 DEF TheViews
  <2> QED
    BY <2>2 DEF v
<1> QED
  BY <1>2, <1>15, <1>17

\* Every step keeps the invariant, and is a step of one view or leaves the views alone.
LEMMA AnyStep ==
  ASSUME Inv, Usage = {}, [Next]_vars
  PROVE  Inv' /\ (TheViews' = TheViews \/ Views!Next)
<1>1. ASSUME NEW p \in Live, Open(p) PROVE Inv' /\ Views!Next
  <2>1. Inv' /\ Views!Open(p, Len(sc) + 1) /\ Len(sc) + 1 \in 1..(MaxSteps + 1)
    BY <1>1, OpenStep
  <2> QED
    BY <2>1 DEF Views!Next, Views!Live
<1>2. ASSUME NEW p \in Live, EnterGlobal(p) PROVE Inv' /\ Views!Next
  <2>1. Inv' /\ Views!Enter(p, 1) /\ 1 \in 1..(MaxSteps + 1)
    BY <1>2, EnterGlobalStep
  <2> QED
    BY <2>1 DEF Views!Next, Views!Live
<1>3. ASSUME NEW p \in Live, NEW f \in DOMAIN at[p].saved, Enter(p, f) PROVE Inv' /\ Views!Next
  <2>1. Inv' /\ Views!Enter(p, f) /\ f \in 1..(MaxSteps + 1)
    BY <1>3, EnterStep
  <2> QED
    BY <2>1 DEF Views!Next, Views!Live
<1>4. ASSUME NEW p \in Live, NEW n \in Names, Declare(p, n) PROVE Inv' /\ Views!Next
  <2>1. Inv' /\ Views!Declare(p, n)
    BY <1>4, DeclareStep
  <2> QED
    BY <2>1 DEF Views!Next, Views!Live
<1>5. ASSUME NEW p \in Live, NEW n \in Names, Update(p, n) \/ UpdateMore(p, n) PROVE Inv' /\ Views!Next
  <2>1. Inv' /\ Views!Update(p, n)
    BY <1>5, UpdateStep, UpdateMoreStep
  <2> QED
    BY <2>1 DEF Views!Next, Views!Live
<1>6. ASSUME NEW p \in Live, NEW q \in Paths, Fork(p, q) PROVE Inv' /\ Views!Next
  <2>1. Inv' /\ Views!Fork(p, q)
    BY <1>6, ForkStep
  <2> QED
    BY <2>1 DEF Views!Next, Views!Live
<1>7. ASSUME NEW p \in Live, Drop(p) PROVE Inv' /\ Views!Next
  <2>1. Inv' /\ Views!Drop(p)
    BY <1>7, DropStep
  <2> QED
    BY <2>1 DEF Views!Next, Views!Live
<1>8. ASSUME NEW p \in Live, Commit(p) PROVE Inv' /\ TheViews' = TheViews
  BY <1>8, CommitStep
<1>9. ASSUME UNCHANGED vars PROVE Inv' /\ TheViews' = TheViews
  BY <1>9 DEF vars, Inv, TableOK, PathsOK, Parsing, Live, TheViews, ViewOf, ValueAt, Frame, FrameUp, FindInScope,
              SymIn, Current, UpdateIn, Earliest
<1>10. CASE Next
  BY <1>1, <1>2, <1>3, <1>4, <1>5, <1>6, <1>7, <1>8, <1>10 DEF Next
<1> QED
  BY <1>9, <1>10

\* The scopes that a path reaches, by search and by up_updates, are those its own operations
\* made: the table keeps its invariant.
THEOREM TableInvariant == ASSUME Usage = {} PROVE Spec => []Inv
<1>1. Init => Inv
  BY StartStep
<1>2. Inv /\ [Next]_vars => Inv'
  BY AnyStep
<1> QED
  BY <1>1, <1>2, PTL DEF Spec

\* Each path reads what its own operations made, whatever the other paths do in between:
\* a step of the table is a step of the view of one path, or changes no view
\* (SPECULATIVE_PARSING.md 193-240).
THEOREM TableImplementsView == ASSUME Usage = {} PROVE Spec => ImplementsView
<1>1. Init => Views!Init
  <2> SUFFICES ASSUME Init PROVE Views!Init
    OBVIOUS
  <2>1. \E p \in Paths :
          TheViews = [q \in {p} |-> [here |-> 1, parent |-> [f \in {1} |-> 0],
                                     vals |-> [f \in {1} |-> [n \in Names |-> <<>>]]]]
    BY StartStep
  <2> QED
    BY <2>1 DEF Views!Init, Views!Top, Views!EmptyFrame, Views!None, TheViews
<1>2. Inv /\ [Next]_vars => [Views!Next]_([p \in Live |-> ViewOf(p)])
  <2> SUFFICES ASSUME Inv, [Next]_vars PROVE [Views!Next]_([p \in Live |-> ViewOf(p)])
    OBVIOUS
  <2>1. TheViews' = TheViews \/ Views!Next
    BY AnyStep
  <2> QED
    BY <2>1 DEF TheViews
<1> QED
  BY <1>1, <1>2, TableInvariant, PTL DEF Spec, ImplementsView, Views!Spec

\* find_D_Sym and find_global_D_Sym read the innermost declaration of a name, in its last
\* version on the path.
THEOREM InnermostIsRead == ASSUME Usage = {} PROVE Spec => []ReadsInnermost
<1>1. Inv => ReadsInnermost
  BY InnermostRead DEF Inv
<1> QED
  BY <1>1, TableInvariant, PTL

\* The scope of equiv_D_Scope, by which PNodes are told apart, reads as the scope itself.
THEOREM EquivalentScopesRead == ASSUME Usage = {} PROVE Spec => []EquivKeepsView
<1>1. Inv => EquivKeepsView
  BY EquivReads
<1> QED
  BY <1>1, TableInvariant, PTL
=============================================================================

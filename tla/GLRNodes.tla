------------------------------ MODULE GLRNodes ------------------------------
(***************************************************************************)
(* The invariant of the parser of GLR, ParserOK, and that the operators    *)
(* that every step of the engine is made of keep it: those that queue work *)
(* and make nodes, goto_PNode with the link that it adds, and add_PNode,   *)
(* with the one latest version that each symbol and span has in the hash.  *)
(* The parts of the invariant speak of the fields of the parser they       *)
(* depend on, so that an operator disturbs only the parts whose fields it  *)
(* changes.                                                                *)
(***************************************************************************)
EXTENDS GLRStack, HelperProofs

\* A parser has these fields and no others.
IsParser(q) ==
  q = [t |-> q.t, sn |-> q.sn, zn |-> q.zn, pn |-> q.pn, hashS |-> q.hashS, hashP |-> q.hashP,
       lastS |-> q.lastS, todo |-> q.todo, shifts |-> q.shifts, accept |-> q.accept, epos |-> q.epos]

-----------------------------------------------------------------------------
(* The stack.                                                              *)

\* An SNode, of a stack with nz ZNodes and a forest of np PNodes, over an input of
\* length n.
SNodeOK(T, n, nz, np, v) ==
  /\ v = [state |-> v.state, loc |-> v.loc, depth |-> v.depth, lastPn |-> v.lastPn, zns |-> v.zns]
  /\ v.state \in DOMAIN T.items /\ v.loc \in 0..n /\ v.lastPn \in 0..np
  /\ IsSeq(v.zns) /\ ToSet(v.zns) \subseteq 1..nz

SNodesOK(T, n, sn, nz, np) == IsSeq(sn) /\ \A s \in 1..Len(sn) : SNodeOK(T, n, nz, np, sn[s])

\* A ZNode leads to different SNodes.
Distinct(seq) == \A i, j \in 1..Len(seq) : seq[i] = seq[j] => i = j

ZNodeOK(ns, np, v) ==
  /\ v = [pn |-> v.pn, sns |-> v.sns]
  /\ v.pn \in 1..np /\ IsSeq(v.sns) /\ ToSet(v.sns) \subseteq 1..ns /\ Distinct(v.sns)

ZNodesOK(zn, ns, np) == IsSeq(zn) /\ \A z \in 1..Len(zn) : ZNodeOK(ns, np, zn[z])

\* A PNode; its latest version comes after it and has its symbol and span.
PNodeOK(n, np, v) ==
  /\ v = [sym |-> v.sym, start |-> v.start, end |-> v.end, skip |-> v.skip, term |-> v.term, red |-> v.red,
          kids |-> v.kids, assoc |-> v.assoc, prio |-> v.prio, opAssoc |-> v.opAssoc, opPrio |-> v.opPrio,
          height |-> v.height, latest |-> v.latest, amb |-> v.amb]
  /\ v.start \in 0..n /\ v.end \in v.start..n /\ v.skip \in v.end..n
  /\ IsSeq(v.kids) /\ ToSet(v.kids) \subseteq 1..np
  /\ IsSeq(v.amb) /\ ToSet(v.amb) \subseteq 1..np

SameSpan(v, w) == v.sym = w.sym /\ v.start = w.start /\ v.skip = w.skip

PNodesOK(n, pn) ==
  /\ IsSeq(pn) /\ \A x \in 1..Len(pn) : PNodeOK(n, Len(pn), pn[x])
  /\ \A x \in 1..Len(pn) : pn[x].latest \in x..Len(pn) /\ SameSpan(pn[x], pn[pn[x].latest])

\* A ZNode is a link of one SNode.
Owned(sn) ==
  \A s, t \in 1..Len(sn) : \A z \in ToSet(sn[s].zns) : z \in ToSet(sn[t].zns) => s = t

\* The ZNodes of an SNode have different PNodes.
Single(sn, zn) ==
  \A s \in 1..Len(sn) : \A y, z \in ToSet(sn[s].zns) : zn[y].pn = zn[z].pn => y = z

\* A link goes from the node its PNode starts at to one at or behind the end of it.
Joined(sn, zn, pn) ==
  \A s \in 1..Len(sn) : \A z \in ToSet(sn[s].zns) :
    /\ pn[zn[z].pn].skip <= sn[s].loc
    /\ \A b \in ToSet(zn[z].sns) : pn[zn[z].pn].start = sn[b].loc

-----------------------------------------------------------------------------
(* The work lists: in the order of their locations, none behind epos.      *)

EntryOK(T, epos, sn, e) ==
  /\ e.sn \in 1..Len(sn) /\ epos <= sn[e.sn].loc /\ ReductionOK(T, sn[e.sn].state, e.red)
  /\ IF e.red.n = 0 THEN e.z = 0 ELSE e.z \in ToSet(sn[e.sn].zns)

TodoOK(T, epos, sn, todo) ==
  /\ IsSeq(todo) /\ \A i \in 1..Len(todo) : EntryOK(T, epos, sn, todo[i])
  /\ \A i, j \in 1..Len(todo) : i < j => sn[todo[i].sn].loc <= sn[todo[j].sn].loc

ShiftsOK(epos, sn, shifts) ==
  /\ IsSeq(shifts) /\ \A i \in 1..Len(shifts) : shifts[i] \in 1..Len(sn) /\ epos <= sn[shifts[i]].loc
  /\ \A i, j \in 1..Len(shifts) : i < j => sn[shifts[i]].loc <= sn[shifts[j]].loc

-----------------------------------------------------------------------------
(* The hash of live nodes.  A state is entered by one symbol, and while    *)
(* epos stays, a symbol leads to one location: a nonterminal to epos, a    *)
(* token to the blanks after it.  So find_SNode, which looks at the state  *)
(* only, finds a node at the right location.                               *)

AfterBlanks(text, i, j) ==
  /\ j \in i..Len(text) /\ \A k \in (i+1)..j : text[k] = Blank
  /\ j < Len(text) => text[j+1] # Blank

Lands(T, text, epos, X, loc) ==
  IF X \in DOMAIN T.spell THEN AfterBlanks(text, epos + Len(T.spell[X]), loc) ELSE loc = epos

Enters(T, X, s) == \E u \in DOMAIN T.items : X \in DOMAIN T.goto[u] /\ T.goto[u][X] = s

HashOK(T, text, epos, sn, hashS) ==
  /\ hashS \subseteq 1..Len(sn)
  /\ \A s, t \in hashS : sn[s].state = sn[t].state => s = t
  /\ \A s \in hashS : epos <= sn[s].loc /\ \A X : Enters(T, X, sn[s].state) => Lands(T, text, epos, X, sn[s].loc)

\* The farthest node in an accepting state.
AcceptOK(T, sn, accept) ==
  /\ accept \in 0..Len(sn) /\ (accept # 0 => sn[accept].state \in T.accept)
  /\ \A s \in 1..Len(sn) : sn[s].state \in T.accept => accept # 0 /\ sn[s].loc <= sn[accept].loc

ParserOK(T, text, q) ==
  /\ IsSeq(text) /\ IsParser(q) /\ q.t = T /\ q.epos \in -1..Len(text) /\ q.hashP \subseteq 1..Len(q.pn)
  /\ SNodesOK(T, Len(text), q.sn, Len(q.zn), Len(q.pn))
  /\ ZNodesOK(q.zn, Len(q.sn), Len(q.pn)) /\ PNodesOK(Len(text), q.pn)
  /\ Owned(q.sn) /\ Joined(q.sn, q.zn, q.pn) /\ Single(q.sn, q.zn)
  /\ TodoOK(T, q.epos, q.sn, q.todo) /\ ShiftsOK(q.epos, q.sn, q.shifts)
  /\ HashOK(T, text, q.epos, q.sn, q.hashS) /\ AcceptOK(T, q.sn, q.accept)

-----------------------------------------------------------------------------
(* The work lists.                                                         *)

\* M is L with v put before the first one that is not below it.
Ordered(n, L) == (\A i \in 1..n : L[i] \in Int) /\ \A i, j \in 1..n : i < j => L[i] <= L[j]
PutInto(n, k, v, L, M) ==
  /\ \A i \in 1..(k - 1) : M[i] = L[i] /\ L[i] <= v
  /\ M[k] = v /\ (k <= n => v <= L[k])
  /\ \A i \in (k + 1)..(n + 1) : M[i] = L[i - 1]

\* A list in order stays in order.
LEMMA PutKeepsOrder ==
  ASSUME NEW n \in Nat, NEW k \in 1..(n + 1), NEW L, NEW M, NEW v \in Int,
         Ordered(n, L), PutInto(n, k, v, L, M)
  PROVE  \A i, j \in 1..(n + 1) : i < j => M[i] <= M[j]
<1>1. SUFFICES ASSUME NEW i \in 1..(n + 1), NEW j \in 1..(n + 1), i < j PROVE M[i] <= M[j]
  OBVIOUS
<1>2. CASE i < k /\ j < k
  BY <1>1, <1>2 DEF Ordered, PutInto
<1>3. CASE i < k /\ j = k
  BY <1>3 DEF Ordered, PutInto
<1>4. CASE i < k /\ j > k
  BY <1>4 DEF Ordered, PutInto
<1>5. CASE i = k /\ j > k
  <2>1. j - 1 \in 1..n /\ k \in 1..n /\ k <= j - 1
    BY <1>5
  <2>2. v <= L[k] /\ L[k] <= L[j - 1] /\ L[k] \in Int /\ L[j - 1] \in Int
    BY <2>1 DEF Ordered, PutInto
  <2> QED
    BY <1>5, <2>1, <2>2 DEF PutInto
<1>6. CASE i > k /\ j > k
  BY <1>1, <1>6 DEF Ordered, PutInto
<1> QED
  BY <1>1, <1>2, <1>3, <1>4, <1>5, <1>6

\* The first of the indices where something holds, or the end.
LEMMA FirstIndex ==
  ASSUME NEW n \in Nat, NEW stop, stop \subseteq 1..n
  PROVE  LET at == IF stop = {} THEN n + 1 ELSE MinOf(stop)
         IN  /\ at \in 1..(n + 1) /\ (at <= n => at \in stop)
             /\ \A i \in 1..(at - 1) : i \notin stop
<1>1. CASE stop = {}
  BY <1>1
<1>2. CASE stop # {}
  <2>0. stop \subseteq Nat
    OBVIOUS
  <2>1. MinOf(stop) \in stop /\ \A y \in stop : MinOf(stop) <= y
    BY <1>2, <2>0, MinExists
  <2>2. ASSUME NEW m \in stop, \A y \in stop : m <= y
        PROVE  m \in 1..(n + 1) /\ \A i \in 1..(m - 1) : i \notin stop
    BY <2>2
  <2> QED
    BY <1>2, <2>1, <2>2
<1> QED
  BY <1>1, <1>2

\* What the lists need to know of a parser, and a change of the reductions only.
Located(q) == IsParser(q) /\ q.epos \in Int /\ \A s \in 1..Len(q.sn) : q.sn[s].loc \in Int

OnlyTodo(T, q, u) == \E todo : u = [q EXCEPT !.todo = todo] /\ TodoOK(T, q.epos, q.sn, todo)

\* add_Reduction changes only the list, and keeps it in order.
LEMMA AddReductionOK ==
  ASSUME NEW q, Located(q), NEW T, TodoOK(T, q.epos, q.sn, q.todo),
         NEW z, NEW s, NEW red, NEW newSn, NEW newDepth,
         EntryOK(T, q.epos, q.sn, Entry(z, s, red, newSn, newDepth))
  PROVE  OnlyTodo(T, q, AddReduction(q, z, s, red, newSn, newDepth))
<1> DEFINE new == Entry(z, s, red, newSn, newDepth)
           d == ZNodeDepth(q, z)
           n == Len(q.todo)
           stop == {i \in DOMAIN q.todo : \/ Loc(q, s) < Loc(q, q.todo[i].sn)
                                          \/ Loc(q, q.todo[i].sn) = Loc(q, s) /\ d >= ZNodeDepth(q, q.todo[i].z)}
           at == IF stop = {} THEN n + 1 ELSE MinOf(stop)
           todo == InsertAt(q.todo, at, new)
<1>0. IsParser(q) /\ q.epos \in Int /\ \A x \in 1..Len(q.sn) : q.sn[x].loc \in Int
  BY DEF Located
<1>1. AddReduction(q, z, s, red, newSn, newDepth) \in {q, [q EXCEPT !.todo = todo]}
  BY DEF AddReduction
<1>2. n \in Nat /\ DOMAIN q.todo = 1..n /\ IsSeq(q.todo) /\ stop \subseteq 1..n
  BY SeqFacts DEF TodoOK
<1>3. at \in 1..(n + 1) /\ (at <= n => at \in stop) /\ \A i \in 1..(at - 1) : i \notin stop
  <2> HIDE DEF stop, n
  <2> QED
    BY <1>2, FirstIndex
<1>4. /\ IsSeq(todo) /\ Len(todo) = n + 1
      /\ \A i \in 1..(at - 1) : todo[i] = q.todo[i]
      /\ todo[at] = new
      /\ \A i \in (at + 1)..(n + 1) : todo[i] = q.todo[i - 1]
  <2> HIDE DEF at
  <2> QED
    BY SMTT(30), <1>2, <1>3, InsertAtFacts
<1>5. EntryOK(T, q.epos, q.sn, new) /\ new.sn = s /\ s \in 1..Len(q.sn)
  BY DEF EntryOK, Entry
<1>6. \A i \in 1..n : EntryOK(T, q.epos, q.sn, q.todo[i]) /\ q.todo[i].sn \in 1..Len(q.sn)
  BY DEF TodoOK, EntryOK
<1>7. \A i \in 1..(at - 1) : ~(Loc(q, s) < Loc(q, q.todo[i].sn))
  BY SMTT(30), <1>2, <1>3
<1>8. at <= n => Loc(q, s) <= Loc(q, q.todo[at].sn)
  <2>1. SUFFICES ASSUME at <= n PROVE Loc(q, s) <= Loc(q, q.todo[at].sn)
    OBVIOUS
  <2> HIDE DEF at, n
  <2>2. at \in 1..n /\ at \in stop
    BY <1>2, <1>3, <2>1
  <2>3. Loc(q, s) \in Int /\ Loc(q, q.todo[at].sn) \in Int
    BY <1>0, <1>5, <1>6, <2>2 DEF Loc
  <2> QED
    BY <2>2, <2>3
<1> HIDE DEF at, todo, stop, n, d
<1>9. \A i \in 1..(n + 1) : EntryOK(T, q.epos, q.sn, todo[i])
  <2>1. SUFFICES ASSUME NEW i \in 1..(n + 1) PROVE EntryOK(T, q.epos, q.sn, todo[i])
    OBVIOUS
  <2>2. CASE i < at
    BY <1>2, <1>3, <1>4, <1>6, <2>2
  <2>3. CASE i = at
    BY <1>4, <1>5, <2>3
  <2>4. CASE i > at
    <3>1. i - 1 \in 1..n /\ todo[i] = q.todo[i - 1]
      BY <1>2, <1>3, <1>4, <2>4
    <3> QED
      BY <1>6, <3>1
  <2> QED
    BY <1>2, <1>3, <2>2, <2>3, <2>4
<1>10. \A i, j \in 1..(n + 1) : i < j => q.sn[todo[i].sn].loc <= q.sn[todo[j].sn].loc
  <2> DEFINE L == [i \in 1..n |-> q.sn[q.todo[i].sn].loc]
             M == [i \in 1..(n + 1) |-> q.sn[todo[i].sn].loc]
             v == q.sn[s].loc
  <2>1. v \in Int /\ \A i \in 1..n : L[i] \in Int
    BY <1>0, <1>5, <1>6
  <2>2. \A i, j \in 1..n : i < j => L[i] <= L[j]
    BY DEF TodoOK, n
  <2>3. \A i \in 1..(at - 1) : M[i] = L[i] /\ L[i] <= v
    <3>1. SUFFICES ASSUME NEW i \in 1..(at - 1) PROVE M[i] = L[i] /\ L[i] <= v
      OBVIOUS
    <3>2. i \in 1..n /\ i \in 1..(n + 1)
      BY <1>2, <1>3
    <3>3. M[i] = L[i] /\ L[i] \in Int
      BY <1>4, <2>1, <3>2
    <3>4. ~(v < L[i])
      BY <1>7, <3>2 DEF Loc
    <3> HIDE DEF L, M, v
    <3> QED
      BY <2>1, <3>3, <3>4
  <2>4. M[at] = v /\ (at <= n => v <= L[at])
    <3>1. M[at] = v
      BY <1>3, <1>4, <1>5
    <3>2. ASSUME at <= n PROVE v <= L[at]
      <4>1. at \in 1..n
        BY <1>2, <1>3, <3>2
      <4> QED
        BY <1>8, <3>2, <4>1 DEF Loc
    <3> QED
      BY <3>1, <3>2
  <2>5. \A i \in (at + 1)..(n + 1) : M[i] = L[i - 1]
    <3>1. SUFFICES ASSUME NEW i \in (at + 1)..(n + 1) PROVE M[i] = L[i - 1]
      OBVIOUS
    <3>2. i \in 1..(n + 1) /\ i - 1 \in 1..n /\ todo[i] = q.todo[i - 1]
      BY <1>2, <1>3, <1>4
    <3> QED
      BY <3>2
  <2> HIDE DEF L, M, v
  <2>6. \A i, j \in 1..(n + 1) : i < j => M[i] <= M[j]
    <3>1. Ordered(n, L)
      BY <2>1, <2>2 DEF Ordered
    <3>2. PutInto(n, at, v, L, M)
      BY <2>3, <2>4, <2>5 DEF PutInto
    <3> QED
      BY <1>2, <1>3, <2>1, <3>1, <3>2, PutKeepsOrder
  <2> QED
    BY <2>6 DEF M
<1>11. TodoOK(T, q.epos, q.sn, todo)
  BY <1>4, <1>9, <1>10 DEF TodoOK
<1>12. q = [q EXCEPT !.todo = q.todo]
  BY <1>0 DEF IsParser
<1> QED
  BY <1>1, <1>11, <1>12 DEF OnlyTodo

\* add_Shift likewise.
LEMMA AddShiftOK ==
  ASSUME NEW q, Located(q), ShiftsOK(q.epos, q.sn, q.shifts),
         NEW s \in 1..Len(q.sn), q.epos <= q.sn[s].loc
  PROVE  \E shifts : AddShift(q, s) = [q EXCEPT !.shifts = shifts] /\ ShiftsOK(q.epos, q.sn, shifts)
<1> DEFINE n == Len(q.shifts)
           stop == {i \in DOMAIN q.shifts : Loc(q, s) <= Loc(q, q.shifts[i])}
           at == IF stop = {} THEN n + 1 ELSE MinOf(stop)
           shifts == InsertAt(q.shifts, at, s)
<1>0. q.epos \in Int /\ \A x \in 1..Len(q.sn) : q.sn[x].loc \in Int
  BY DEF Located
<1>1. AddShift(q, s) = [q EXCEPT !.shifts = shifts]
  BY DEF AddShift
<1>2. n \in Nat /\ DOMAIN q.shifts = 1..n /\ IsSeq(q.shifts) /\ stop \subseteq 1..n
  BY SeqFacts DEF ShiftsOK
<1>3. at \in 1..(n + 1) /\ (at <= n => at \in stop) /\ \A i \in 1..(at - 1) : i \notin stop
  <2> HIDE DEF stop, n
  <2> QED
    BY <1>2, FirstIndex
<1>4. /\ IsSeq(shifts) /\ Len(shifts) = n + 1
      /\ \A i \in 1..(at - 1) : shifts[i] = q.shifts[i]
      /\ shifts[at] = s
      /\ \A i \in (at + 1)..(n + 1) : shifts[i] = q.shifts[i - 1]
  <2> HIDE DEF at
  <2> QED
    BY SMTT(30), <1>2, <1>3, InsertAtFacts
<1>6. \A i \in 1..n : q.shifts[i] \in 1..Len(q.sn) /\ q.epos <= q.sn[q.shifts[i]].loc
  BY DEF ShiftsOK
<1>7. \A i \in 1..(at - 1) : ~(Loc(q, s) <= Loc(q, q.shifts[i]))
  <2>1. SUFFICES ASSUME NEW i \in 1..(at - 1) PROVE ~(Loc(q, s) <= Loc(q, q.shifts[i]))
    OBVIOUS
  <2>2. i \notin stop
    BY <1>3
  <2>3. i \in 1..n
    <3> HIDE DEF at, n
    <3> QED
      BY <1>2, <1>3
  <2> QED
    BY <1>2, <2>2, <2>3
<1>8. at <= n => Loc(q, s) <= Loc(q, q.shifts[at])
  BY <1>3
<1> HIDE DEF at, shifts, stop, n
<1>9. \A i \in 1..(n + 1) : shifts[i] \in 1..Len(q.sn) /\ q.epos <= q.sn[shifts[i]].loc
  <2>1. SUFFICES ASSUME NEW i \in 1..(n + 1) PROVE shifts[i] \in 1..Len(q.sn) /\ q.epos <= q.sn[shifts[i]].loc
    OBVIOUS
  <2>2. CASE i < at
    BY SMTT(30), <1>2, <1>3, <1>4, <1>6, <2>2
  <2>3. CASE i = at
    BY <1>4, <2>3
  <2>4. CASE i > at
    <3>1. i - 1 \in 1..n /\ shifts[i] = q.shifts[i - 1]
      BY <1>2, <1>3, <1>4, <2>4
    <3> QED
      BY <1>6, <3>1
  <2> QED
    BY <1>2, <1>3, <2>2, <2>3, <2>4
<1>10. \A i, j \in 1..(n + 1) : i < j => q.sn[shifts[i]].loc <= q.sn[shifts[j]].loc
  <2> DEFINE L == [i \in 1..n |-> q.sn[q.shifts[i]].loc]
             M == [i \in 1..(n + 1) |-> q.sn[shifts[i]].loc]
             v == q.sn[s].loc
  <2>1. v \in Int /\ \A i \in 1..n : L[i] \in Int
    BY <1>0, <1>6
  <2>2. \A i, j \in 1..n : i < j => L[i] <= L[j]
    BY DEF ShiftsOK, n
  <2>3. \A i \in 1..(at - 1) : M[i] = L[i] /\ L[i] <= v
    <3>1. SUFFICES ASSUME NEW i \in 1..(at - 1) PROVE M[i] = L[i] /\ L[i] <= v
      OBVIOUS
    <3>2. i \in 1..n /\ i \in 1..(n + 1)
      BY <1>2, <1>3
    <3>3. M[i] = L[i] /\ L[i] \in Int
      BY <1>4, <2>1, <3>2
    <3>4. ~(v <= L[i])
      BY <1>7, <3>2 DEF Loc
    <3> HIDE DEF L, M, v
    <3> QED
      BY <2>1, <3>3, <3>4
  <2>4. M[at] = v /\ (at <= n => v <= L[at])
    <3>1. M[at] = v
      BY <1>3, <1>4
    <3>2. ASSUME at <= n PROVE v <= L[at]
      <4>1. at \in 1..n
        BY <1>2, <1>3, <3>2
      <4> QED
        BY <1>8, <3>2, <4>1 DEF Loc
    <3> QED
      BY <3>1, <3>2
  <2>5. \A i \in (at + 1)..(n + 1) : M[i] = L[i - 1]
    <3>1. SUFFICES ASSUME NEW i \in (at + 1)..(n + 1) PROVE M[i] = L[i - 1]
      OBVIOUS
    <3>2. i \in 1..(n + 1) /\ i - 1 \in 1..n
      BY <1>2, <1>3
    <3>3. shifts[i] = q.shifts[i - 1]
      BY <1>4
    <3> QED
      BY <3>2, <3>3
  <2> HIDE DEF L, M, v
  <2>6. \A i, j \in 1..(n + 1) : i < j => M[i] <= M[j]
    <3>1. Ordered(n, L)
      BY <2>1, <2>2 DEF Ordered
    <3>2. PutInto(n, at, v, L, M)
      BY <2>3, <2>4, <2>5 DEF PutInto
    <3> QED
      BY <1>2, <1>3, <2>1, <3>1, <3>2, PutKeepsOrder
  <2> QED
    BY <2>6 DEF M
<1>11. ShiftsOK(q.epos, q.sn, shifts)
  BY <1>4, <1>9, <1>10 DEF ShiftsOK
<1> QED
  BY <1>1, <1>11

-----------------------------------------------------------------------------
(* Queueing several reductions.                                            *)

\* A parser with another list of reductions has its other fields.
LEMMA TodoFields ==
  ASSUME NEW q, IsParser(q), NEW todo, NEW u, u = [q EXCEPT !.todo = todo]
  PROVE  /\ IsParser(u) /\ u.todo = todo
         /\ u.t = q.t /\ u.sn = q.sn /\ u.zn = q.zn /\ u.pn = q.pn /\ u.hashS = q.hashS /\ u.hashP = q.hashP
         /\ u.lastS = q.lastS /\ u.shifts = q.shifts /\ u.accept = q.accept /\ u.epos = q.epos
BY DEF IsParser

\* So has one whose list of reductions has changed.
LEMMA OnlyTodoFields ==
  ASSUME NEW T, NEW q, IsParser(q), NEW u, OnlyTodo(T, q, u)
  PROVE  /\ IsParser(u) /\ TodoOK(T, q.epos, q.sn, u.todo)
         /\ u.t = q.t /\ u.sn = q.sn /\ u.zn = q.zn /\ u.pn = q.pn /\ u.hashS = q.hashS /\ u.hashP = q.hashP
         /\ u.lastS = q.lastS /\ u.shifts = q.shifts /\ u.accept = q.accept /\ u.epos = q.epos
BY TodoFields DEF OnlyTodo

\* add_Reduction after other changes of the list.
LEMMA AddReductionKeeps ==
  ASSUME NEW T, NEW q, Located(q), NEW u, OnlyTodo(T, q, u),
         NEW z, NEW s, NEW red, NEW newSn, NEW newDepth,
         s \in 1..Len(q.sn), q.epos <= q.sn[s].loc, ReductionOK(T, q.sn[s].state, red),
         IF red.n = 0 THEN z = 0 ELSE z \in ToSet(q.sn[s].zns)
  PROVE  OnlyTodo(T, q, AddReduction(u, z, s, red, newSn, newDepth))
<1>0. IsParser(q)
  BY DEF Located
<1>1. u.sn = q.sn /\ u.epos = q.epos
  BY <1>0, OnlyTodoFields
<1>2. Located(u) /\ TodoOK(T, u.epos, u.sn, u.todo)
  BY <1>0, <1>1, OnlyTodoFields DEF Located
<1>3. EntryOK(T, u.epos, u.sn, Entry(z, s, red, newSn, newDepth))
  BY <1>1 DEF EntryOK, Entry
<1>4. OnlyTodo(T, u, AddReduction(u, z, s, red, newSn, newDepth))
  BY <1>2, <1>3, AddReductionOK
<1>5. PICK todo : /\ AddReduction(u, z, s, red, newSn, newDepth) = [u EXCEPT !.todo = todo]
                  /\ TodoOK(T, u.epos, u.sn, todo)
  BY <1>4 DEF OnlyTodo
<1>6. [u EXCEPT !.todo = todo] = [q EXCEPT !.todo = todo]
  BY <1>0 DEF OnlyTodo, IsParser
<1> QED
  BY <1>1, <1>5, <1>6 DEF OnlyTodo

\* The folds of GLR over lists of reductions.
EpsStep(s, b, c, u, red) == IF red.n = 0 THEN AddReduction(u, 0, s, red, 0, 0) ELSE u
OwnStep(z, s, c, u, red) == IF red.n > 0 THEN AddReduction(u, z, s, red, 0, 0) ELSE u
AgainStep(pre, h, s, u, y) == AddReduction(u, y, pre, h.red, s, h.depth)
QueueAgain(q, pre, h, s, zns) ==
  FoldSteps(LAMBDA u, y : AddReduction(u, y, pre, h.red, s, h.depth), q, zns)
HintStep(s, b, c, r, h) ==
  LET pre == FindSNode(r, h.state)
  IN  IF pre = 0 THEN r ELSE QueueAgain(r, pre, h, s, r.sn[pre].zns)

TodoHolds(d, u) == OnlyTodo(d[1], d[2], u)

EpsFold == INSTANCE Folding WITH Step <- EpsStep, Holds <- TodoHolds
OwnFold == INSTANCE Folding WITH Step <- OwnStep, Holds <- TodoHolds
AgainFold == INSTANCE Folding WITH Step <- AgainStep, Holds <- TodoHolds
HintFold == INSTANCE Folding WITH Step <- HintStep, Holds <- TodoHolds

\* The epsilon reductions of a state.
QueueEps(q, s, reds) ==
  FoldSteps(LAMBDA r, red : IF red.n = 0 THEN AddReduction(r, 0, s, red, 0, 0) ELSE r, q, reds)

\* add_SNode queues the epsilon reductions of the state.
LEMMA QueueEpsOK ==
  ASSUME NEW T, NEW q, Located(q),
         TodoOK(T, q.epos, q.sn, q.todo), NEW s \in 1..Len(q.sn), q.epos <= q.sn[s].loc,
         NEW reds, IsSeq(reds), \A k \in DOMAIN reds : ReductionOK(T, q.sn[s].state, reds[k])
  PROVE  OnlyTodo(T, q, QueueEps(q, s, reds))
<1> DEFINE d == <<T, q>>
<1>1. QueueEps(q, s, reds) = EpsFold!Values(s, 0, 0, q, reds)[Len(reds)]
  BY DEF EpsStep, QueueEps, EpsFold!Values, EpsFold!FoldsTo, FoldSteps
<1>2. Len(reds) \in Nat /\ DOMAIN reds = 1..Len(reds)
  BY SeqFacts
<1>3. TodoHolds(d, q)
  <2>1. q = [q EXCEPT !.todo = q.todo]
    BY DEF Located, IsParser
  <2> QED
    BY <2>1 DEF TodoHolds, OnlyTodo
<1>4. ASSUME NEW k \in 1..Len(reds), NEW u, TodoHolds(d, u) PROVE TodoHolds(d, EpsStep(s, 0, 0, u, reds[k]))
  <2>1. OnlyTodo(T, q, u) /\ ReductionOK(T, q.sn[s].state, reds[k])
    BY <1>2, <1>4 DEF TodoHolds
  <2>2. CASE reds[k].n = 0
    <3>1. OnlyTodo(T, q, AddReduction(u, 0, s, reds[k], 0, 0))
      BY <2>1, <2>2, AddReductionKeeps
    <3> QED
      BY <2>2, <3>1 DEF TodoHolds, EpsStep
  <2>3. CASE reds[k].n # 0
    BY <2>1, <2>3 DEF TodoHolds, EpsStep
  <2> QED
    BY <2>2, <2>3
<1> HIDE DEF d
<1>5. TodoHolds(d, EpsFold!Values(s, 0, 0, q, reds)[Len(reds)])
  BY <1>2, <1>3, <1>4, EpsFold!FoldKeeps
<1> QED
  BY <1>1, <1>5 DEF d, TodoHolds

\* find_SNode: 0, or the live node of the state.
LEMMA FindSNodeOK ==
  ASSUME NEW q, NEW state
  PROVE  \/ FindSNode(q, state) = 0 /\ \A s \in q.hashS : StateOf(q, s) # state
         \/ FindSNode(q, state) \in q.hashS /\ StateOf(q, FindSNode(q, state)) = state
BY DEF FindSNode

\* The reductions of a state that are not empty, and those its hints name.
QueueOwn(q, z, s, reds) ==
  FoldSteps(LAMBDA r, red : IF red.n > 0 THEN AddReduction(r, z, s, red, 0, 0) ELSE r, q, reds)
QueueHints(q, s, hints) ==
  FoldSteps(LAMBDA r, h : LET pre == FindSNode(r, h.state)
                          IN  IF pre = 0 THEN r ELSE QueueAgain(r, pre, h, s, r.sn[pre].zns), q, hints)

\* goto_PNode queues the reductions of the state for a new ZNode.
LEMMA QueueOwnOK ==
  ASSUME NEW T, NEW q, Located(q), NEW v, OnlyTodo(T, q, v),
         NEW s \in 1..Len(q.sn), q.epos <= q.sn[s].loc, NEW z \in ToSet(q.sn[s].zns),
         NEW reds, IsSeq(reds), \A k \in DOMAIN reds : ReductionOK(T, q.sn[s].state, reds[k])
  PROVE  OnlyTodo(T, q, QueueOwn(v, z, s, reds))
<1> DEFINE d == <<T, q>>
<1>1. QueueOwn(v, z, s, reds) = OwnFold!Values(z, s, 0, v, reds)[Len(reds)]
  BY DEF OwnStep, QueueOwn, OwnFold!Values, OwnFold!FoldsTo, FoldSteps
<1>2. Len(reds) \in Nat /\ DOMAIN reds = 1..Len(reds)
  BY SeqFacts
<1>3. TodoHolds(d, v)
  BY DEF TodoHolds
<1>4. ASSUME NEW k \in 1..Len(reds), NEW u, TodoHolds(d, u) PROVE TodoHolds(d, OwnStep(z, s, 0, u, reds[k]))
  <2>1. OnlyTodo(T, q, u) /\ ReductionOK(T, q.sn[s].state, reds[k])
    BY <1>2, <1>4 DEF TodoHolds
  <2>2. CASE reds[k].n > 0
    <3>1. IF reds[k].n = 0 THEN z = 0 ELSE z \in ToSet(q.sn[s].zns)
      BY <2>1, <2>2 DEF ReductionOK
    <3>2. OnlyTodo(T, q, AddReduction(u, z, s, reds[k], 0, 0))
      BY <2>1, <3>1, AddReductionKeeps
    <3> QED
      BY <2>2, <3>2 DEF TodoHolds, OwnStep
  <2>3. CASE ~(reds[k].n > 0)
    BY <2>1, <2>3 DEF TodoHolds, OwnStep
  <2> QED
    BY <2>2, <2>3
<1> HIDE DEF d
<1>5. TodoHolds(d, OwnFold!Values(z, s, 0, v, reds)[Len(reds)])
  BY <1>2, <1>3, <1>4, OwnFold!FoldKeeps
<1> QED
  BY <1>1, <1>5 DEF d, TodoHolds

\* A reduction that a hint names is queued for every ZNode of the node it starts from.
LEMMA QueueAgainOK ==
  ASSUME NEW T, NEW q, Located(q), NEW v, OnlyTodo(T, q, v),
         NEW pre \in 1..Len(q.sn), q.epos <= q.sn[pre].loc, IsSeq(q.sn[pre].zns),
         NEW h, h.red.n > 0, ReductionOK(T, q.sn[pre].state, h.red), NEW s
  PROVE  OnlyTodo(T, q, QueueAgain(v, pre, h, s, q.sn[pre].zns))
<1> DEFINE d == <<T, q>>
           zns == q.sn[pre].zns
<1>1. QueueAgain(v, pre, h, s, zns) = AgainFold!Values(pre, h, s, v, zns)[Len(zns)]
  BY DEF AgainStep, QueueAgain, AgainFold!Values, AgainFold!FoldsTo, FoldSteps
<1>2. Len(zns) \in Nat /\ DOMAIN zns = 1..Len(zns)
  BY SeqFacts
<1>3. TodoHolds(d, v)
  BY DEF TodoHolds
<1>4. ASSUME NEW k \in 1..Len(zns), NEW u, TodoHolds(d, u) PROVE TodoHolds(d, AgainStep(pre, h, s, u, zns[k]))
  <2>1. OnlyTodo(T, q, u)
    BY <1>4 DEF TodoHolds
  <2>2. IF h.red.n = 0 THEN zns[k] = 0 ELSE zns[k] \in ToSet(q.sn[pre].zns)
    BY <1>2 DEF ReductionOK, ToSet
  <2>3. OnlyTodo(T, q, AddReduction(u, zns[k], pre, h.red, s, h.depth))
    BY <2>1, <2>2, AddReductionKeeps
  <2> QED
    BY <2>3 DEF TodoHolds, AgainStep
<1> HIDE DEF d, zns
<1>5. TodoHolds(d, AgainFold!Values(pre, h, s, v, zns)[Len(zns)])
  BY <1>2, <1>3, <1>4, AgainFold!FoldKeeps
<1> QED
  BY <1>1, <1>5 DEF d, TodoHolds, zns

\* The hints of a state other than the first.
HintsOK(T, hints) ==
  IsSeq(hints) /\ \A k \in DOMAIN hints : hints[k].red.n > 0 /\ ReductionOK(T, hints[k].state, hints[k].red)

\* The live nodes of the hash that a hint may find.
Live(q) ==
  q.hashS \subseteq 1..Len(q.sn) /\ \A s \in q.hashS : q.epos <= q.sn[s].loc /\ IsSeq(q.sn[s].zns)

\* goto_PNode queues the reductions that the hints of the state name.
LEMMA QueueHintsOK ==
  ASSUME NEW T, NEW q, Located(q), Live(q), NEW v, OnlyTodo(T, q, v), NEW s,
         NEW hints, HintsOK(T, hints), 0 \notin q.hashS
  PROVE  OnlyTodo(T, q, QueueHints(v, s, hints))
<1> DEFINE d == <<T, q>>
<1>1. QueueHints(v, s, hints) = HintFold!Values(s, 0, 0, v, hints)[Len(hints)]
  BY DEF HintStep, QueueHints, HintFold!Values, HintFold!FoldsTo, FoldSteps
<1>2. Len(hints) \in Nat /\ DOMAIN hints = 1..Len(hints)
  BY SeqFacts DEF HintsOK
<1>3. TodoHolds(d, v)
  BY DEF TodoHolds
<1>4. ASSUME NEW k \in 1..Len(hints), NEW u, TodoHolds(d, u) PROVE TodoHolds(d, HintStep(s, 0, 0, u, hints[k]))
  <2> DEFINE h == hints[k]
             pre == FindSNode(u, h.state)
  <2>1. OnlyTodo(T, q, u)
    BY <1>4 DEF TodoHolds
  <2>2. u.sn = q.sn /\ u.hashS = q.hashS
    BY <2>1, OnlyTodoFields DEF Located
  <2>3. h.red.n > 0 /\ ReductionOK(T, h.state, h.red)
    BY <1>2 DEF HintsOK
  <2>4. CASE pre = 0
    BY <2>1, <2>4 DEF TodoHolds, HintStep
  <2>5. CASE pre # 0
    <3>1. pre \in q.hashS /\ q.sn[pre].state = h.state
      BY <2>2, <2>5, FindSNodeOK DEF StateOf
    <3>2. pre \in 1..Len(q.sn) /\ q.epos <= q.sn[pre].loc /\ IsSeq(q.sn[pre].zns)
      BY <3>1 DEF Live
    <3> HIDE DEF pre, h
    <3>3. OnlyTodo(T, q, QueueAgain(u, pre, h, s, q.sn[pre].zns))
      BY <2>1, <2>3, <3>1, <3>2, QueueAgainOK
    <3>4. HintStep(s, 0, 0, u, h) = QueueAgain(u, pre, h, s, q.sn[pre].zns)
      BY <2>2, <2>5 DEF HintStep, pre
    <3> QED
      BY <3>3, <3>4 DEF TodoHolds, h
  <2> QED
    BY <2>4, <2>5
<1> HIDE DEF d
<1>5. TodoHolds(d, HintFold!Values(s, 0, 0, v, hints)[Len(hints)])
  BY <1>2, <1>3, <1>4, HintFold!FoldKeeps
<1> QED
  BY <1>1, <1>5 DEF d, TodoHolds

\* The reductions that goto_PNode queues.
LEMMA QueueForNewZNodeOK ==
  ASSUME NEW T, TableOK(T), NEW q, Located(q), q.t = T, TodoOK(T, q.epos, q.sn, q.todo), Live(q),
         NEW s \in 1..Len(q.sn), q.epos <= q.sn[s].loc, NEW z \in ToSet(q.sn[s].zns),
         q.sn[s].state \in DOMAIN T.items, q.sn[s].state # 1
  PROVE  OnlyTodo(T, q, QueueForNewZNode(q, z, s))
<1> DEFINE state == q.sn[s].state
           hints == IF q.pn[q.zn[z].pn].term THEN <<>> ELSE T.hints[state]
           v == QueueOwn(q, z, s, T.reds[state])
<1>1. QueueForNewZNode(q, z, s) = QueueHints(v, s, hints)
  BY DEF QueueForNewZNode, QueueHints, QueueOwn, QueueAgain, StateOf, FoldSteps
<1>2. OnlyTodo(T, q, q)
  <2>1. q = [q EXCEPT !.todo = q.todo]
    BY DEF Located, IsParser
  <2> QED
    BY <2>1 DEF OnlyTodo
<1>3. IsSeq(T.reds[state]) /\ \A k \in DOMAIN T.reds[state] : ReductionOK(T, state, T.reds[state][k])
  BY DEF TableOK
<1>4. OnlyTodo(T, q, v)
  BY <1>2, <1>3, QueueOwnOK
<1>5. HintsOK(T, hints)
  <2>1. HintsOK(T, T.hints[state])
    BY DEF TableOK, HintsOK
  <2>2. HintsOK(T, <<>>)
    BY EmptyFacts DEF HintsOK
  <2> QED
    BY <2>1, <2>2
<1>6. 0 \notin q.hashS
  BY DEF Live
<1> HIDE DEF v, hints
<1>7. OnlyTodo(T, q, QueueHints(v, s, hints))
  BY <1>4, <1>5, <1>6, QueueHintsOK
<1> QED
  BY <1>1, <1>7

-----------------------------------------------------------------------------
(* A stack that grows.                                                     *)

\* sn2 has the SNodes of sn, with their links, and perhaps more.
Grown(sn, sn2) ==
  /\ Len(sn) \in Nat /\ Len(sn2) \in Nat /\ Len(sn) <= Len(sn2)
  /\ \A s \in 1..Len(sn) : /\ sn2[s].state = sn[s].state /\ sn2[s].loc = sn[s].loc
                           /\ ToSet(sn[s].zns) \subseteq ToSet(sn2[s].zns)

\* A reduction stays one when nodes and links are added.
LEMMA GrownEntry ==
  ASSUME NEW T, NEW epos, NEW sn, NEW sn2, Grown(sn, sn2), NEW e, EntryOK(T, epos, sn, e)
  PROVE  EntryOK(T, epos, sn2, e) /\ sn2[e.sn].loc = sn[e.sn].loc
BY SMTT(30) DEF Grown, EntryOK

\* The list of reductions stays in order when nodes and links are added.
LEMMA GrownTodo ==
  ASSUME NEW T, NEW epos, NEW sn, NEW sn2, Grown(sn, sn2), NEW todo, TodoOK(T, epos, sn, todo)
  PROVE  TodoOK(T, epos, sn2, todo)
<1>1. \A i \in 1..Len(todo) : EntryOK(T, epos, sn, todo[i])
  BY DEF TodoOK
<1>2. \A i \in 1..Len(todo) : EntryOK(T, epos, sn2, todo[i]) /\ sn2[todo[i].sn].loc = sn[todo[i].sn].loc
  BY <1>1, GrownEntry
<1> QED
  BY <1>2 DEF TodoOK

\* So does the list of shifts.
LEMMA GrownShifts ==
  ASSUME NEW epos, NEW sn, NEW sn2, Grown(sn, sn2), NEW shifts, ShiftsOK(epos, sn, shifts)
  PROVE  ShiftsOK(epos, sn2, shifts)
<1>1. \A i \in 1..Len(shifts) : shifts[i] \in 1..Len(sn2) /\ sn2[shifts[i]].loc = sn[shifts[i]].loc
  BY DEF Grown, ShiftsOK
<1> QED
  BY <1>1 DEF ShiftsOK

\* The live nodes are those of other states, at their locations.
LEMMA GrownHash ==
  ASSUME NEW T, NEW text, NEW epos, NEW sn, NEW sn2, Grown(sn, sn2), NEW hashS, HashOK(T, text, epos, sn, hashS)
  PROVE  HashOK(T, text, epos, sn2, hashS)
<1>1. hashS \subseteq 1..Len(sn) /\ hashS \subseteq 1..Len(sn2)
  BY DEF Grown, HashOK
<1>2. \A s \in hashS : sn2[s].state = sn[s].state /\ sn2[s].loc = sn[s].loc
  BY <1>1 DEF Grown
<1>3. \A s \in hashS : epos <= sn2[s].loc /\ \A X : Enters(T, X, sn2[s].state) => Lands(T, text, epos, X, sn2[s].loc)
  BY <1>2 DEF HashOK
<1>4. \A s, t \in hashS : sn2[s].state = sn2[t].state => s = t
  BY <1>2 DEF HashOK
<1> QED
  BY <1>1, <1>3, <1>4 DEF HashOK

\* An SNode is at a state and a location, and its ZNodes are in range.
LEMMA SNodeFacts ==
  ASSUME NEW T, NEW n \in Nat, NEW nz, NEW np, NEW v, SNodeOK(T, n, nz, np, v)
  PROVE  v.state \in DOMAIN T.items /\ v.loc \in Int /\ v.loc \in 0..n /\ IsSeq(v.zns) /\ ToSet(v.zns) \subseteq 1..nz
BY DEF SNodeOK

\* A parser that is well formed, by parts.
LEMMA ParserFacts ==
  ASSUME NEW T, NEW text, NEW q, ParserOK(T, text, q)
  PROVE  /\ Located(q) /\ Live(q) /\ IsSeq(q.sn) /\ IsSeq(q.zn) /\ IsSeq(q.pn)
         /\ Len(q.sn) \in Nat /\ Len(q.zn) \in Nat /\ Len(q.pn) \in Nat /\ Len(text) \in Nat
         /\ \A s \in 1..Len(q.sn) : SNodeOK(T, Len(text), Len(q.zn), Len(q.pn), q.sn[s])
         /\ \A z \in 1..Len(q.zn) : ZNodeOK(Len(q.sn), Len(q.pn), q.zn[z])
         /\ \A x \in 1..Len(q.pn) : PNodeOK(Len(text), Len(q.pn), q.pn[x])
<1>1. /\ IsParser(q) /\ q.epos \in Int /\ q.hashS \subseteq 1..Len(q.sn) /\ \A s \in q.hashS : q.epos <= q.sn[s].loc
      /\ IsSeq(q.sn) /\ IsSeq(q.zn) /\ IsSeq(q.pn)
      /\ \A s \in 1..Len(q.sn) : SNodeOK(T, Len(text), Len(q.zn), Len(q.pn), q.sn[s])
      /\ \A z \in 1..Len(q.zn) : ZNodeOK(Len(q.sn), Len(q.pn), q.zn[z])
      /\ \A x \in 1..Len(q.pn) : PNodeOK(Len(text), Len(q.pn), q.pn[x])
  BY DEF ParserOK, SNodesOK, ZNodesOK, PNodesOK, HashOK
<1>3. Len(q.sn) \in Nat /\ Len(q.zn) \in Nat /\ Len(q.pn) \in Nat /\ Len(text) \in Nat
  BY <1>1, SeqFacts DEF ParserOK
<1>2. \A s \in 1..Len(q.sn) : q.sn[s].loc \in Int /\ IsSeq(q.sn[s].zns)
  BY <1>1, <1>3, SNodeFacts
<1>4. Located(q) /\ Live(q)
  BY <1>1, <1>2 DEF Located, Live
<1> QED
  BY <1>1, <1>3, <1>4

\* u is q but for its SNodes, their hash, the accepting one and the work lists.
SameLinks(q, u) == u.t = q.t /\ u.zn = q.zn /\ u.pn = q.pn /\ u.hashP = q.hashP /\ u.epos = q.epos

\* A change of the list of reductions keeps the invariant.
LEMMA OnlyTodoKeeps ==
  ASSUME NEW T, NEW text, NEW q, ParserOK(T, text, q), NEW u, OnlyTodo(T, q, u)
  PROVE  ParserOK(T, text, u) /\ SameLinks(q, u) /\ u.sn = q.sn /\ u.hashS = q.hashS
<1>1. IsParser(q)
  BY DEF ParserOK
<1>2. /\ IsParser(u) /\ TodoOK(T, q.epos, q.sn, u.todo)
      /\ u.t = q.t /\ u.sn = q.sn /\ u.zn = q.zn /\ u.pn = q.pn /\ u.hashS = q.hashS /\ u.hashP = q.hashP
      /\ u.lastS = q.lastS /\ u.shifts = q.shifts /\ u.accept = q.accept /\ u.epos = q.epos
  BY <1>1, OnlyTodoFields
<1> QED
  BY <1>2 DEF ParserOK, SameLinks

\* add_Shift keeps the invariant.
LEMMA AddShiftKeeps ==
  ASSUME NEW T, NEW text, NEW q, ParserOK(T, text, q), NEW s \in 1..Len(q.sn), q.epos <= q.sn[s].loc
  PROVE  /\ ParserOK(T, text, AddShift(q, s)) /\ SameLinks(q, AddShift(q, s))
         /\ AddShift(q, s).sn = q.sn /\ AddShift(q, s).hashS = q.hashS
<1>1. Located(q) /\ ShiftsOK(q.epos, q.sn, q.shifts)
  BY ParserFacts DEF ParserOK
<1>2. PICK shifts : AddShift(q, s) = [q EXCEPT !.shifts = shifts] /\ ShiftsOK(q.epos, q.sn, shifts)
  BY <1>1, AddShiftOK
<1> DEFINE u == AddShift(q, s)
<1>3. /\ IsParser(u) /\ u.shifts = shifts
      /\ u.t = q.t /\ u.sn = q.sn /\ u.zn = q.zn /\ u.pn = q.pn /\ u.hashS = q.hashS /\ u.hashP = q.hashP
      /\ u.todo = q.todo /\ u.accept = q.accept /\ u.epos = q.epos
  BY <1>1, <1>2 DEF Located, IsParser
<1> HIDE DEF u
<1>4. ParserOK(T, text, u)
  BY <1>2, <1>3 DEF ParserOK
<1> QED
  BY <1>3, <1>4 DEF u, SameLinks

\* ZNodes stay in range when there are more nodes.
LEMMA ZNodesGrow ==
  ASSUME NEW zn, NEW ns \in Nat, NEW np \in Nat, ZNodesOK(zn, ns, np), NEW ns2 \in Nat, NEW np2 \in Nat,
         ns <= ns2, np <= np2
  PROVE  ZNodesOK(zn, ns2, np2)
<1>1. 1..ns \subseteq 1..ns2 /\ 1..np \subseteq 1..np2
  OBVIOUS
<1>2. ASSUME NEW z \in 1..Len(zn) PROVE ZNodeOK(ns2, np2, zn[z])
  <2>1. ZNodeOK(ns, np, zn[z])
    BY DEF ZNodesOK
  <2> QED
    BY <1>1, <2>1 DEF ZNodeOK
<1> QED
  BY <1>2 DEF ZNodesOK

\* So do SNodes.
LEMMA SNodeGrows ==
  ASSUME NEW T, NEW n, NEW v, NEW nz \in Nat, NEW np \in Nat, SNodeOK(T, n, nz, np, v), NEW nz2 \in Nat, NEW np2 \in Nat,
         nz <= nz2, np <= np2
  PROVE  SNodeOK(T, n, nz2, np2, v)
<1>1. 1..nz \subseteq 1..nz2 /\ 0..np \subseteq 0..np2
  OBVIOUS
<1> QED
  BY <1>1 DEF SNodeOK

\* new_SNode makes a node without links, where the gotos of its state lead.
Fresh(state, loc) == [state |-> state, loc |-> loc, depth |-> 0, lastPn |-> 0, zns |-> <<>>]

\* The fields of a new SNode.
LEMMA FreshFacts ==
  ASSUME NEW state, NEW loc
  PROVE  /\ Fresh(state, loc).state = state /\ Fresh(state, loc).loc = loc /\ Fresh(state, loc).zns = <<>>
         /\ Fresh(state, loc).lastPn = 0
         /\ \A T, n, nz, np : np \in Nat /\ state \in DOMAIN T.items /\ loc \in 0..n => SNodeOK(T, n, nz, np, Fresh(state, loc))
<1>1. IsSeq(<<>>) /\ ToSet(<<>>) = {}
  BY EmptyFacts
<1> QED
  BY <1>1 DEF Fresh, SNodeOK

\* new_SNode, for a state that no live node has, keeps the invariant.
LEMMA NewSNodeOK ==
  ASSUME NEW T, NEW text, NEW q, ParserOK(T, text, q),
         NEW state \in DOMAIN T.items, NEW loc \in 0..Len(text), q.epos <= loc,
         \A X : Enters(T, X, state) => Lands(T, text, q.epos, X, loc),
         \A s \in q.hashS : q.sn[s].state # state
  PROVE  /\ ParserOK(T, text, NewSNode(q, state, loc))
         /\ NewSNode(q, state, loc).sn = Append(q.sn, Fresh(state, loc))
         /\ NewSNode(q, state, loc).hashS = q.hashS \cup {Len(q.sn) + 1}
         /\ SameLinks(q, NewSNode(q, state, loc))
<1> DEFINE n == Len(q.sn)
           node == Fresh(state, loc)
           u == NewSNode(q, state, loc)
           better == state \in T.accept /\ (q.accept = 0 \/ loc > Loc(q, q.accept))
<1>1. /\ Located(q) /\ IsSeq(q.sn) /\ n \in Nat /\ Len(q.zn) \in Nat /\ Len(q.pn) \in Nat /\ Len(text) \in Nat
      /\ \A s \in 1..n : SNodeOK(T, Len(text), Len(q.zn), Len(q.pn), q.sn[s])
  BY ParserFacts
<1>2. q.t = T /\ IsParser(q) /\ IsSeq(text)
  BY DEF ParserOK
<1>3. u = [q EXCEPT !.sn = Append(q.sn, node), !.hashS = q.hashS \cup {n + 1}, !.accept = IF better THEN n + 1 ELSE q.accept]
  BY <1>2 DEF NewSNode, Fresh
<1>4. /\ IsParser(u) /\ u.sn = Append(q.sn, node) /\ u.hashS = q.hashS \cup {n + 1}
      /\ u.accept = (IF better THEN n + 1 ELSE q.accept)
      /\ u.t = q.t /\ u.zn = q.zn /\ u.pn = q.pn /\ u.hashP = q.hashP
      /\ u.todo = q.todo /\ u.shifts = q.shifts /\ u.epos = q.epos
  <2> HIDE DEF better, node, n
  <2> QED
    BY <1>2, <1>3 DEF IsParser
<1> HIDE DEF u, node, better
<1>5. /\ IsSeq(u.sn) /\ Len(u.sn) = n + 1 /\ u.sn[n + 1] = node
      /\ \A s \in 1..n : u.sn[s] = q.sn[s]
  BY <1>1, <1>4, AppendFacts
<1>6. node.state = state /\ node.loc = loc /\ node.zns = <<>> /\ SNodeOK(T, Len(text), Len(q.zn), Len(q.pn), node)
  BY <1>1, FreshFacts DEF node
<1>7. ToSet(<<>>) = {}
  BY EmptyFacts
<1>8. Grown(q.sn, u.sn)
  BY <1>1, <1>5 DEF Grown
<1>9. \A s \in 1..(n + 1) : s \in 1..n \/ s = n + 1
  BY <1>1
<1>10. SNodesOK(T, Len(text), u.sn, Len(u.zn), Len(u.pn))
  BY <1>1, <1>4, <1>5, <1>6, <1>9 DEF SNodesOK
<1>11. ZNodesOK(u.zn, Len(u.sn), Len(u.pn))
  BY <1>1, <1>4, <1>5, ZNodesGrow DEF ParserOK
<1>12. Owned(u.sn)
  BY <1>1, <1>5, <1>6, <1>7, <1>9 DEF ParserOK, Owned
<1>13. Joined(u.sn, u.zn, u.pn)
  <2>1. SUFFICES ASSUME NEW s \in 1..(n + 1), NEW z \in ToSet(u.sn[s].zns)
                 PROVE  /\ u.pn[u.zn[z].pn].skip <= u.sn[s].loc
                        /\ \A b \in ToSet(u.zn[z].sns) : u.pn[u.zn[z].pn].start = u.sn[b].loc
    BY <1>5 DEF Joined
  <2>2. s \in 1..n /\ u.sn[s] = q.sn[s] /\ z \in ToSet(q.sn[s].zns)
    BY <1>5, <1>6, <1>7, <1>9
  <2>3. z \in 1..Len(q.zn)
    BY <1>1, <2>2, SNodeFacts
  <2>4. ToSet(q.zn[z].sns) \subseteq 1..n
    BY <2>3, ParserFacts DEF ZNodeOK
  <2> QED
    BY <1>4, <1>5, <2>2, <2>4 DEF ParserOK, Joined
<1>20. Single(u.sn, u.zn)
  <2>1. SUFFICES ASSUME NEW s \in 1..(n + 1), NEW y \in ToSet(u.sn[s].zns), NEW z \in ToSet(u.sn[s].zns),
                        u.zn[y].pn = u.zn[z].pn
                 PROVE  y = z
    BY <1>5 DEF Single
  <2>2. s \in 1..n /\ u.sn[s] = q.sn[s] /\ u.zn = q.zn
    BY <1>4, <1>5, <1>6, <1>7, <1>9
  <2> QED
    BY <2>1, <2>2 DEF ParserOK, Single
<1>14. TodoOK(T, u.epos, u.sn, u.todo) /\ ShiftsOK(u.epos, u.sn, u.shifts)
  BY <1>4, <1>8, GrownTodo, GrownShifts DEF ParserOK
<1>15. HashOK(T, text, u.epos, u.sn, u.hashS)
  <2>0. HashOK(T, text, q.epos, q.sn, q.hashS)
    BY DEF ParserOK
  <2>1. HashOK(T, text, q.epos, u.sn, q.hashS) /\ q.hashS \subseteq 1..n
    <3>1. HashOK(T, text, q.epos, u.sn, q.hashS)
      BY <1>8, <2>0, GrownHash
    <3> QED
      BY <2>0, <3>1 DEF HashOK
  <2>2. \A s \in q.hashS : u.sn[s].state = q.sn[s].state
    BY <1>5, <2>1
  <2>3. u.hashS \subseteq 1..(n + 1)
    BY <1>1, <1>4, <2>1
  <2>4. \A s, t \in u.hashS : u.sn[s].state = u.sn[t].state => s = t
    BY <1>4, <1>5, <1>6, <2>1, <2>2 DEF HashOK
  <2>5. \A s \in u.hashS : q.epos <= u.sn[s].loc /\ \A X : Enters(T, X, u.sn[s].state) => Lands(T, text, q.epos, X, u.sn[s].loc)
    BY <1>4, <1>5, <1>6, <2>1 DEF HashOK
  <2> QED
    BY <1>4, <1>5, <2>3, <2>4, <2>5 DEF HashOK
<1>16. AcceptOK(T, u.sn, u.accept)
  <2>1. AcceptOK(T, q.sn, q.accept)
    BY DEF ParserOK
  <2>2. \A s \in 1..n : q.sn[s].loc \in Int
    BY <1>1 DEF Located
  <2>3. CASE better
    <3>1. u.accept = n + 1 /\ state \in T.accept /\ (q.accept = 0 \/ loc > q.sn[q.accept].loc)
      BY <1>4, <2>3 DEF better, Loc
    <3>2. q.accept \in 0..n /\ \A s \in 1..n : q.sn[s].state \in T.accept => q.accept # 0 /\ q.sn[s].loc <= q.sn[q.accept].loc
      BY <2>1 DEF AcceptOK
    <3>3. \A s \in 1..n : q.sn[s].state \in T.accept => q.sn[s].loc <= loc
      <4>1. SUFFICES ASSUME NEW s \in 1..n, q.sn[s].state \in T.accept PROVE q.sn[s].loc <= loc
        OBVIOUS
      <4>2. q.accept \in 1..n /\ q.sn[s].loc <= q.sn[q.accept].loc /\ loc > q.sn[q.accept].loc
        BY <1>1, <3>1, <3>2, <4>1
      <4>3. q.sn[s].loc \in Int /\ q.sn[q.accept].loc \in Int /\ loc \in Int
        BY <1>1, <2>2, <4>2
      <4> QED
        BY <4>2, <4>3
    <3> QED
      BY SMTT(30), <1>1, <1>5, <1>6, <1>9, <3>1, <3>3 DEF AcceptOK
  <2>4. CASE ~better
    <3>1. u.accept = q.accept
      BY <1>4, <2>4
    <3>2. state \in T.accept => q.accept # 0 /\ loc <= q.sn[q.accept].loc
      BY <1>1, <2>1, <2>2, <2>4 DEF better, Loc, AcceptOK
    <3>3. /\ q.accept \in 0..n /\ (q.accept # 0 => q.sn[q.accept].state \in T.accept)
          /\ \A s \in 1..n : q.sn[s].state \in T.accept => q.accept # 0 /\ q.sn[s].loc <= q.sn[q.accept].loc
      BY <2>1 DEF AcceptOK
    <3>4. q.accept # 0 => u.sn[q.accept] = q.sn[q.accept]
      BY <1>1, <1>5, <3>3
    <3>5. ASSUME NEW s \in 1..(n + 1), u.sn[s].state \in T.accept
          PROVE  q.accept # 0 /\ u.sn[s].loc <= u.sn[q.accept].loc
      BY <1>5, <1>6, <1>9, <3>2, <3>3, <3>4, <3>5
    <3>6. q.accept \in 0..(n + 1)
      BY <1>1, <3>3
    <3> QED
      BY <1>5, <3>1, <3>3, <3>4, <3>5, <3>6 DEF AcceptOK
  <2> QED
    BY <2>3, <2>4
<1>17. u.hashP \subseteq 1..Len(u.pn) /\ PNodesOK(Len(text), u.pn) /\ u.epos \in -1..Len(text)
  BY <1>4 DEF ParserOK
<1>18. ParserOK(T, text, u)
  BY <1>2, <1>4, <1>10, <1>11, <1>12, <1>13, <1>14, <1>15, <1>16, <1>17, <1>20 DEF ParserOK
<1>19. SameLinks(q, u)
  BY <1>4 DEF SameLinks
<1> QED
  BY <1>4, <1>18, <1>19 DEF u, node

\* add_SNode: afterwards find_SNode finds a node of the state.
LEMMA AddSNodeOK ==
  ASSUME NEW T, TableOK(T), NEW text, NEW q, ParserOK(T, text, q),
         NEW state \in DOMAIN T.items, NEW loc \in 0..Len(text), q.epos <= loc,
         \A X : Enters(T, X, state) => Lands(T, text, q.epos, X, loc)
  PROVE  LET u == AddSNode(q, state, loc)
         IN  /\ ParserOK(T, text, u) /\ SameLinks(q, u) /\ u.sn \in {q.sn, Append(q.sn, Fresh(state, loc))}
             /\ FindSNode(u, state) # 0
<1> DEFINE n == Len(q.sn)
           v == NewSNode(q, state, loc)
           w == IF q.t.shifts[state] # {} THEN AddShift(v, n + 1) ELSE v
           u == QueueEps(w, n + 1, q.t.reds[state])
<1>0. IsParser(q) /\ q.t = T /\ n \in Nat /\ IsSeq(q.sn) /\ q.hashS \subseteq 1..n
  BY ParserFacts DEF ParserOK, Live
<1>1. CASE FindSNode(q, state) # 0
  BY <1>1 DEF AddSNode, SameLinks
<1>2. CASE FindSNode(q, state) = 0
  <2>1. AddSNode(q, state, loc) = u
    BY <1>2 DEF AddSNode, QueueEps
  <2>2. \A s \in q.hashS : q.sn[s].state # state
    <3>1. 0 \notin q.hashS
      BY <1>0
    <3> QED
      BY <1>2, <3>1, FindSNodeOK DEF StateOf
  <2>3. /\ ParserOK(T, text, v) /\ v.sn = Append(q.sn, Fresh(state, loc)) /\ v.hashS = q.hashS \cup {n + 1}
        /\ SameLinks(q, v)
    BY <2>2, NewSNodeOK
  <2> HIDE DEF v
  <2>4. Len(v.sn) = n + 1 /\ v.sn[n + 1] = Fresh(state, loc) /\ n + 1 \in 1..Len(v.sn)
    BY <1>0, <2>3, AppendFacts
  <2>5. v.sn[n + 1].state = state /\ v.sn[n + 1].loc = loc /\ v.epos <= v.sn[n + 1].loc
    BY <2>3, <2>4, FreshFacts DEF SameLinks
  <2>6. ParserOK(T, text, w) /\ SameLinks(v, w) /\ w.sn = v.sn /\ w.hashS = v.hashS
    <3>1. CASE q.t.shifts[state] # {}
      <4> DEFINE s == n + 1
      <4> HIDE DEF s
      <4>1. ParserOK(T, text, AddShift(v, s)) /\ SameLinks(v, AddShift(v, s))
            /\ AddShift(v, s).sn = v.sn /\ AddShift(v, s).hashS = v.hashS
        BY <2>3, <2>4, <2>5, AddShiftKeeps DEF s
      <4> QED
        BY <3>1, <4>1 DEF s
    <3> QED
      BY <2>3, <3>1 DEF SameLinks
  <2> HIDE DEF w
  <2>7. IsSeq(T.reds[state]) /\ \A k \in DOMAIN T.reds[state] : ReductionOK(T, state, T.reds[state][k])
    BY DEF TableOK
  <2>8. Located(w) /\ TodoOK(T, w.epos, w.sn, w.todo)
    BY <2>6, ParserFacts DEF ParserOK
  <2>9. OnlyTodo(T, w, u)
    <3> DEFINE reds == T.reds[state]
    <3>1. n + 1 \in 1..Len(w.sn) /\ w.epos <= w.sn[n + 1].loc /\ w.sn[n + 1].state = state
      BY <2>4, <2>5, <2>6 DEF SameLinks
    <3>2. IsSeq(reds) /\ \A k \in DOMAIN reds : ReductionOK(T, w.sn[n + 1].state, reds[k])
      BY <2>7, <3>1
    <3> HIDE DEF reds
    <3>3. OnlyTodo(T, w, QueueEps(w, n + 1, reds))
      BY <2>8, <3>1, <3>2, QueueEpsOK
    <3> QED
      BY <1>0, <3>3 DEF reds
  <2> HIDE DEF u
  <2>10. ParserOK(T, text, u) /\ SameLinks(w, u) /\ u.sn = w.sn /\ u.hashS = w.hashS
    BY <2>6, <2>9, OnlyTodoKeeps
  <2>11. FindSNode(u, state) # 0
    <3>1. n + 1 \in u.hashS /\ u.sn[n + 1].state = state /\ 0 \notin u.hashS
      BY <1>0, <2>3, <2>5, <2>6, <2>10
    <3> QED
      BY <3>1, FindSNodeOK DEF StateOf
  <2> QED
    BY <2>1, <2>3, <2>6, <2>10, <2>11 DEF SameLinks
<1> QED
  BY <1>1, <1>2

\* A change of the links only.
SameNodes(q, u) ==
  /\ u.t = q.t /\ u.pn = q.pn /\ u.hashS = q.hashS /\ u.hashP = q.hashP /\ u.todo = q.todo /\ u.shifts = q.shifts
  /\ u.accept = q.accept /\ u.epos = q.epos
  /\ Grown(q.sn, u.sn) /\ Len(u.sn) = Len(q.sn)

\* A change of the links keeps the invariant if they stay in range and joined.
LEMMA SameNodesKeeps ==
  ASSUME NEW T, NEW text, NEW q, ParserOK(T, text, q), NEW u, IsParser(u), SameNodes(q, u),
         SNodesOK(T, Len(text), u.sn, Len(u.zn), Len(u.pn)), ZNodesOK(u.zn, Len(u.sn), Len(u.pn)),
         Owned(u.sn), Joined(u.sn, u.zn, u.pn), Single(u.sn, u.zn)
  PROVE  ParserOK(T, text, u)
<1>1. TodoOK(T, u.epos, u.sn, u.todo) /\ ShiftsOK(u.epos, u.sn, u.shifts) /\ HashOK(T, text, u.epos, u.sn, u.hashS)
  BY GrownTodo, GrownShifts, GrownHash DEF SameNodes, ParserOK
<1>2. AcceptOK(T, u.sn, u.accept)
  <2>1. /\ q.accept \in 0..Len(q.sn) /\ (q.accept # 0 => q.sn[q.accept].state \in T.accept)
        /\ \A s \in 1..Len(q.sn) : q.sn[s].state \in T.accept => q.accept # 0 /\ q.sn[s].loc <= q.sn[q.accept].loc
    BY DEF ParserOK, AcceptOK
  <2>2. Len(q.sn) \in Nat /\ u.accept = q.accept /\ Len(u.sn) = Len(q.sn)
    BY DEF SameNodes, Grown
  <2>3. \A s \in 1..Len(q.sn) : u.sn[s].state = q.sn[s].state /\ u.sn[s].loc = q.sn[s].loc
    BY DEF SameNodes, Grown
  <2>4. q.accept # 0 => q.accept \in 1..Len(q.sn)
    BY <2>1, <2>2
  <2> QED
    BY <2>1, <2>2, <2>3, <2>4 DEF AcceptOK
<1> QED
  BY <1>1, <1>2 DEF ParserOK, SameNodes

ReachedBy(v, x, depth) == [v EXCEPT !.lastPn = x, !.depth = depth]

\* An SNode that was reached stays one.
LEMMA SNodeReached ==
  ASSUME NEW T, NEW n, NEW nz, NEW np, NEW v, SNodeOK(T, n, nz, np, v), NEW x \in 0..np, NEW depth
  PROVE  LET w == ReachedBy(v, x, depth)
         IN  SNodeOK(T, n, nz, np, w) /\ w.state = v.state /\ w.loc = v.loc /\ w.zns = v.zns
<1> DEFINE w == ReachedBy(v, x, depth)
<1>0. w = [v EXCEPT !.lastPn = x, !.depth = depth]
  BY DEF ReachedBy
<1> HIDE DEF w
<1>1. v = [state |-> v.state, loc |-> v.loc, depth |-> v.depth, lastPn |-> v.lastPn, zns |-> v.zns]
  BY DEF SNodeOK
<1>2. w.state = v.state /\ w.loc = v.loc /\ w.lastPn = x /\ w.zns = v.zns
  BY <1>0, <1>1
<1>3. w = [state |-> w.state, loc |-> w.loc, depth |-> w.depth, lastPn |-> w.lastPn, zns |-> w.zns]
  BY <1>0, <1>1
<1>4. SNodeOK(T, n, nz, np, w)
  BY <1>2, <1>3 DEF SNodeOK
<1> QED
  BY <1>2, <1>4 DEF w

\* goto_PNode notes the PNode by which a node was reached last, and its depth.
LEMMA ReachedOK ==
  ASSUME NEW T, NEW text, NEW q, ParserOK(T, text, q), NEW s \in 1..Len(q.sn), NEW x \in 1..Len(q.pn), NEW ps
  PROVE  LET u == Reached(q, x, s, ps)
         IN  /\ ParserOK(T, text, u) /\ SameLinks(q, u) /\ u.hashS = q.hashS /\ Len(u.sn) = Len(q.sn)
             /\ \A t \in 1..Len(q.sn) : /\ u.sn[t].state = q.sn[t].state /\ u.sn[t].loc = q.sn[t].loc
                                       /\ u.sn[t].zns = q.sn[t].zns
<1> DEFINE n == Len(q.sn)
           depth == IF ps # s /\ q.sn[s].depth < q.sn[ps].depth + 1 THEN q.sn[ps].depth + 1 ELSE q.sn[s].depth
           v == ReachedBy(q.sn[s], x, depth)
           u == Reached(q, x, s, ps)
<1>1. /\ Located(q) /\ IsSeq(q.sn) /\ n \in Nat /\ Len(q.zn) \in Nat /\ Len(q.pn) \in Nat /\ Len(text) \in Nat
      /\ \A t \in 1..n : SNodeOK(T, Len(text), Len(q.zn), Len(q.pn), q.sn[t])
  BY ParserFacts
<1>2. IsParser(q)
  BY <1>1 DEF Located
<1>3. SNodeOK(T, Len(text), Len(q.zn), Len(q.pn), v) /\ v.state = q.sn[s].state /\ v.loc = q.sn[s].loc /\ v.zns = q.sn[s].zns
  <2> HIDE DEF depth
  <2>1. SNodeOK(T, Len(text), Len(q.zn), Len(q.pn), q.sn[s])
    BY <1>1
  <2>2. x \in 0..Len(q.pn)
    BY <1>1
  <2> QED
    BY <2>1, <2>2, SNodeReached
<1>4. u = [q EXCEPT !.sn = [q.sn EXCEPT ![s] = v]]
  <2>1. s \in DOMAIN q.sn
    BY <1>1, SeqFacts
  <2>2. IsSeq(q.sn) /\ q.sn[s] = [state |-> q.sn[s].state, loc |-> q.sn[s].loc, depth |-> q.sn[s].depth,
                                 lastPn |-> q.sn[s].lastPn, zns |-> q.sn[s].zns]
    BY <1>1 DEF SNodeOK
  <2> QED
    BY <1>2, <2>1, <2>2 DEF Reached, ReachedBy, IsParser
<1> HIDE DEF v
<1> DEFINE sn == [q.sn EXCEPT ![s] = v]
<1>5. IsSeq(sn) /\ Len(sn) = n /\ sn[s] = v /\ \A t \in 1..n : t # s => sn[t] = q.sn[t]
  <2>1. n \in Nat /\ s \in 1..n /\ DOMAIN q.sn = 1..n
    BY <1>1, SeqFacts
  <2> HIDE DEF n
  <2>2. /\ sn = [t \in 1..n |-> sn[t]] /\ sn[s] = v
        /\ \A t \in 1..n : t # s => sn[t] = q.sn[t]
    BY ONLY <2>1
  <2> HIDE DEF sn
  <2>3. IsSeq(sn) /\ Len(sn) = n
    BY ONLY <2>1, <2>2, FunctionIsSeq
  <2> QED
    BY ONLY <2>2, <2>3
<1> HIDE DEF sn
<1>6. /\ IsParser(u) /\ u.sn = sn /\ u.zn = q.zn
      /\ u.t = q.t /\ u.pn = q.pn /\ u.hashS = q.hashS /\ u.hashP = q.hashP /\ u.todo = q.todo /\ u.shifts = q.shifts
      /\ u.accept = q.accept /\ u.epos = q.epos
  BY <1>2, <1>4 DEF IsParser, sn
<1> HIDE DEF u
<1>7. \A t \in 1..n : u.sn[t].state = q.sn[t].state /\ u.sn[t].loc = q.sn[t].loc /\ u.sn[t].zns = q.sn[t].zns
  BY <1>3, <1>5, <1>6
<1>8. SameNodes(q, u)
  BY <1>1, <1>5, <1>6, <1>7 DEF SameNodes, Grown
<1>9. SNodesOK(T, Len(text), u.sn, Len(u.zn), Len(u.pn))
  BY <1>1, <1>3, <1>5, <1>6 DEF SNodesOK
<1>10. ZNodesOK(u.zn, Len(u.sn), Len(u.pn)) /\ Owned(u.sn)
  BY <1>5, <1>6, <1>7 DEF ParserOK, Owned
<1>11. Joined(u.sn, u.zn, u.pn)
  <2>1. SUFFICES ASSUME NEW t \in 1..n, NEW z \in ToSet(u.sn[t].zns)
                 PROVE  /\ u.pn[u.zn[z].pn].skip <= u.sn[t].loc
                        /\ \A b \in ToSet(u.zn[z].sns) : u.pn[u.zn[z].pn].start = u.sn[b].loc
    BY <1>5, <1>6 DEF Joined
  <2>2. z \in ToSet(q.sn[t].zns) /\ z \in 1..Len(q.zn)
    BY ZenonT(40), <1>1, <1>7, <2>1, SNodeFacts
  <2>3. ToSet(q.zn[z].sns) \subseteq 1..n
    BY <2>2, ParserFacts DEF ZNodeOK
  <2> QED
    BY <1>6, <1>7, <2>2, <2>3 DEF ParserOK, Joined
<1>13. Single(u.sn, u.zn)
  BY <1>5, <1>6, <1>7 DEF ParserOK, Single
<1>12. ParserOK(T, text, u)
  BY <1>6, <1>8, <1>9, <1>10, <1>11, <1>13, SameNodesKeeps
<1> QED
  BY <1>5, <1>6, <1>7, <1>12 DEF u, SameLinks

-----------------------------------------------------------------------------
(* Links.                                                                  *)

\* A link from SNode s through ZNode z down to SNode b.
IsLink(q, s, z, b) == s \in 1..Len(q.sn) /\ z \in ToSet(q.sn[s].zns) /\ b \in ToSet(q.zn[z].sns)

LinkAdded(q, u, s, z, b) == \A t, y, c : IsLink(u, t, y, c) <=> IsLink(q, t, y, c) \/ (t = s /\ y = z /\ c = b)
SameTriples(q, u) == \A t, y, c : IsLink(u, t, y, c) <=> IsLink(q, t, y, c)

\* zn2 has the ZNodes of zn, with what they lead to, and perhaps more.
GrownLinks(zn, zn2) ==
  /\ Len(zn) \in Nat /\ Len(zn2) \in Nat /\ Len(zn) <= Len(zn2)
  /\ \A z \in 1..Len(zn) : zn2[z].pn = zn[z].pn /\ ToSet(zn[z].sns) \subseteq ToSet(zn2[z].sns)

SameForest(q, u) == u.t = q.t /\ u.pn = q.pn /\ u.hashP = q.hashP /\ u.epos = q.epos

\* The new ZNode of a link, before its reductions are queued.
WithZNode(q, x, s) ==
  [q EXCEPT !.zn = Append(@, [pn |-> x, sns |-> <<>>]), !.sn[s].zns = Append(@, Len(q.zn) + 1)]

WithZns(v, zns) == [v EXCEPT !.zns = zns]
NoSNodes(x) == [pn |-> x, sns |-> <<>>]

\* An SNode with other links.
LEMMA WithZnsOK ==
  ASSUME NEW T, NEW n, NEW nz, NEW np, NEW v, SNodeOK(T, n, nz, np, v), NEW zns, IsSeq(zns), ToSet(zns) \subseteq 1..nz
  PROVE  LET w == WithZns(v, zns)
         IN  SNodeOK(T, n, nz, np, w) /\ w.state = v.state /\ w.loc = v.loc /\ w.zns = zns
<1> DEFINE w == WithZns(v, zns)
<1>0. w = [v EXCEPT !.zns = zns]
  BY DEF WithZns
<1> HIDE DEF w
<1>1. v = [state |-> v.state, loc |-> v.loc, depth |-> v.depth, lastPn |-> v.lastPn, zns |-> v.zns]
  BY DEF SNodeOK
<1>2. w.state = v.state /\ w.loc = v.loc /\ w.lastPn = v.lastPn /\ w.zns = zns
  BY <1>0, <1>1
<1>3. w = [state |-> w.state, loc |-> w.loc, depth |-> w.depth, lastPn |-> w.lastPn, zns |-> w.zns]
  BY <1>0, <1>1
<1>4. SNodeOK(T, n, nz, np, w)
  BY <1>2, <1>3 DEF SNodeOK
<1> QED
  BY <1>2, <1>4 DEF w

\* A ZNode without links.
LEMMA NoSNodesOK ==
  ASSUME NEW ns, NEW np, NEW x \in 1..np
  PROVE  NoSNodes(x).pn = x /\ NoSNodes(x).sns = <<>> /\ ZNodeOK(ns, np, NoSNodes(x))
<1>1. IsSeq(<<>>) /\ ToSet(<<>>) = {} /\ Distinct(<<>>)
  BY EmptyFacts DEF Distinct
<1> QED
  BY <1>1 DEF NoSNodes, ZNodeOK

\* goto_PNode makes a ZNode that leads nowhere yet.
LEMMA WithZNodeOK ==
  ASSUME NEW T, NEW text, NEW q, ParserOK(T, text, q), NEW s \in 1..Len(q.sn), NEW x \in 1..Len(q.pn),
         q.pn[x].skip <= q.sn[s].loc, \A y \in ToSet(q.sn[s].zns) : q.zn[y].pn # x
  PROVE  LET u == WithZNode(q, x, s)
             z == Len(q.zn) + 1
         IN  /\ ParserOK(T, text, u) /\ SameForest(q, u) /\ SameTriples(q, u)
             /\ Grown(q.sn, u.sn) /\ Len(u.sn) = Len(q.sn) /\ GrownLinks(q.zn, u.zn)
             /\ z \in 1..Len(u.zn) /\ z \in ToSet(u.sn[s].zns) /\ u.zn[z].pn = x
<1> DEFINE n == Len(q.sn)
           m == Len(q.zn)
           z == m + 1
           zns == Append(q.sn[s].zns, z)
           v == WithZns(q.sn[s], zns)
           u == WithZNode(q, x, s)
           sn == [q.sn EXCEPT ![s] = v]
           zn == Append(q.zn, NoSNodes(x))
<1>1. /\ Located(q) /\ IsSeq(q.sn) /\ IsSeq(q.zn)
      /\ n \in Nat /\ m \in Nat /\ Len(q.pn) \in Nat /\ Len(text) \in Nat
      /\ \A t \in 1..n : SNodeOK(T, Len(text), m, Len(q.pn), q.sn[t])
  BY ParserFacts
<1>2. IsParser(q) /\ s \in DOMAIN q.sn
  BY <1>1, SeqFacts DEF Located
<1>3. u = [q EXCEPT !.zn = zn, !.sn = sn]
  <2>1. q.sn[s] = [state |-> q.sn[s].state, loc |-> q.sn[s].loc, depth |-> q.sn[s].depth,
                   lastPn |-> q.sn[s].lastPn, zns |-> q.sn[s].zns]
    BY <1>1 DEF SNodeOK
  <2> QED
    BY <1>2, <2>1 DEF WithZNode, WithZns, NoSNodes, IsParser
<1> HIDE DEF v, zn
<1>4. IsSeq(zn) /\ Len(zn) = m + 1 /\ zn[z] = NoSNodes(x) /\ \A y \in 1..m : zn[y] = q.zn[y]
  BY <1>1, AppendFacts DEF zn
<1>5. NoSNodes(x).pn = x /\ NoSNodes(x).sns = <<>> /\ ZNodeOK(n, Len(q.pn), NoSNodes(x)) /\ ToSet(<<>>) = {}
  BY NoSNodesOK, EmptyFacts
<1>6. IsSeq(q.sn[s].zns) /\ ToSet(q.sn[s].zns) \subseteq 1..m
  BY <1>1, SNodeFacts
<1>7. IsSeq(zns) /\ ToSet(zns) = ToSet(q.sn[s].zns) \cup {z} /\ ToSet(zns) \subseteq 1..(m + 1)
  <2>1. IsSeq(zns) /\ ToSet(zns) = ToSet(q.sn[s].zns) \cup {z}
    BY <1>6, AppendFacts
  <2> HIDE DEF zns
  <2> QED
    BY <1>1, <1>6, <2>1
<1>8. SNodeOK(T, Len(text), m + 1, Len(q.pn), v) /\ v.state = q.sn[s].state /\ v.loc = q.sn[s].loc /\ v.zns = zns
  <2>1. SNodeOK(T, Len(text), m + 1, Len(q.pn), q.sn[s])
    BY SMTT(30), <1>1, SNodeGrows
  <2> HIDE DEF zns
  <2> QED
    BY <1>7, <2>1, WithZnsOK DEF v
<1>9. IsSeq(sn) /\ Len(sn) = n /\ sn[s] = v /\ \A t \in 1..n : t # s => sn[t] = q.sn[t]
  <2>1. IsSeq(q.sn)
    BY <1>1
  <2> QED
    BY SMTT(30), <2>1, ExceptFacts
<1> HIDE DEF sn, zns
<1>10. /\ IsParser(u) /\ u.sn = sn /\ u.zn = zn
       /\ u.t = q.t /\ u.pn = q.pn /\ u.hashS = q.hashS /\ u.hashP = q.hashP /\ u.todo = q.todo /\ u.shifts = q.shifts
       /\ u.accept = q.accept /\ u.epos = q.epos
  BY <1>2, <1>3 DEF IsParser
<1> HIDE DEF u
<1>11. \A t \in 1..n : /\ u.sn[t].state = q.sn[t].state /\ u.sn[t].loc = q.sn[t].loc
                      /\ ToSet(u.sn[t].zns) = ToSet(q.sn[t].zns) \cup (IF t = s THEN {z} ELSE {})
  BY <1>7, <1>8, <1>9, <1>10
<1>12. \A t \in 1..n : ToSet(q.sn[t].zns) \subseteq 1..m
  BY <1>1, SNodeFacts
<1>13. \A y \in 1..m : u.zn[y] = q.zn[y] /\ y # z
  BY <1>1, <1>4, <1>10
<1>14. Grown(q.sn, u.sn) /\ GrownLinks(q.zn, u.zn)
  <2>1. Grown(q.sn, u.sn)
    <3>1. \A t \in 1..n : /\ u.sn[t].state = q.sn[t].state /\ u.sn[t].loc = q.sn[t].loc
                         /\ ToSet(q.sn[t].zns) \subseteq ToSet(u.sn[t].zns)
      BY <1>11
    <3>2. n \in Nat /\ Len(u.sn) = n
      BY <1>1, <1>9, <1>10
    <3>3. Len(q.sn) \in Nat /\ Len(u.sn) \in Nat /\ Len(q.sn) <= Len(u.sn)
      BY <3>2
    <3>4. ASSUME NEW t \in 1..Len(q.sn)
          PROVE  /\ u.sn[t].state = q.sn[t].state /\ u.sn[t].loc = q.sn[t].loc
                 /\ ToSet(q.sn[t].zns) \subseteq ToSet(u.sn[t].zns)
      BY <3>1
    <3> QED
      BY <3>3, <3>4 DEF Grown
  <2>2. GrownLinks(q.zn, u.zn)
    BY <1>1, <1>4, <1>10, <1>13 DEF GrownLinks
  <2> QED
    BY <2>1, <2>2
<1>15. SNodesOK(T, Len(text), u.sn, Len(u.zn), Len(u.pn))
  <2>1. ASSUME NEW t \in 1..n PROVE SNodeOK(T, Len(text), m + 1, Len(q.pn), sn[t])
    <3>1. CASE t = s
      BY <1>8, <1>9, <3>1
    <3>2. CASE t # s
      BY <1>1, <1>9, <3>2, SNodeGrows
    <3> QED
      BY <3>1, <3>2
  <2> QED
    BY <1>4, <1>9, <1>10, <2>1 DEF SNodesOK
<1>16. ZNodesOK(u.zn, Len(u.sn), Len(u.pn))
  <2>1. \A y \in 1..m : ZNodeOK(n, Len(q.pn), q.zn[y])
    BY ParserFacts
  <2>2. \A y \in 1..(m + 1) : y \in 1..m \/ y = z
    BY <1>1
  <2> QED
    BY <1>4, <1>5, <1>9, <1>10, <2>1, <2>2 DEF ZNodesOK
<1>17. Owned(u.sn)
  <2>1. SUFFICES ASSUME NEW t \in 1..n, NEW r \in 1..n, NEW y, y \in ToSet(u.sn[t].zns), y \in ToSet(u.sn[r].zns)
                 PROVE  t = r
    BY <1>9, <1>10 DEF Owned
  <2>2. z \notin 1..m
    BY <1>1
  <2>3. Owned(q.sn)
    BY DEF ParserOK
  <2>4. CASE y = z
    BY <1>11, <1>12, <2>1, <2>2, <2>4
  <2>5. CASE y # z
    <3>1. y \in ToSet(q.sn[t].zns) /\ y \in ToSet(q.sn[r].zns)
      BY <1>11, <2>1, <2>5
    <3> QED
      BY <2>3, <3>1 DEF Owned
  <2> QED
    BY <2>4, <2>5
<1>18. Joined(u.sn, u.zn, u.pn)
  <2>1. SUFFICES ASSUME NEW t \in 1..n, NEW y \in ToSet(u.sn[t].zns)
                 PROVE  /\ u.pn[u.zn[y].pn].skip <= u.sn[t].loc
                        /\ \A b \in ToSet(u.zn[y].sns) : u.pn[u.zn[y].pn].start = u.sn[b].loc
    BY <1>9, <1>10 DEF Joined
  <2>2. CASE y \in ToSet(q.sn[t].zns)
    <3>1. y \in 1..m
      BY <1>12, <2>2
    <3>2. ToSet(q.zn[y].sns) \subseteq 1..n
      BY <3>1, ParserFacts DEF ZNodeOK
    <3>3. /\ q.pn[q.zn[y].pn].skip <= q.sn[t].loc
          /\ \A b \in ToSet(q.zn[y].sns) : q.pn[q.zn[y].pn].start = q.sn[b].loc
      BY <2>2 DEF ParserOK, Joined
    <3>4. u.zn[y] = q.zn[y] /\ u.pn = q.pn /\ u.sn[t].loc = q.sn[t].loc
      BY <1>10, <1>11, <1>13, <3>1
    <3> QED
      BY <1>11, <3>2, <3>3, <3>4
  <2>3. CASE y \notin ToSet(q.sn[t].zns)
    <3>1. y = z /\ t = s
      BY <1>11, <2>3
    <3> QED
      BY <1>4, <1>5, <1>10, <1>11, <3>1
  <2> QED
    BY <2>2, <2>3
<1>19. SameNodes(q, u)
  BY <1>9, <1>10, <1>14 DEF SameNodes
<1>24. Single(u.sn, u.zn)
  <2>1. SUFFICES ASSUME NEW t \in 1..n, NEW y \in ToSet(u.sn[t].zns), NEW r \in ToSet(u.sn[t].zns),
                        u.zn[y].pn = u.zn[r].pn
                 PROVE  y = r
    BY <1>9, <1>10 DEF Single
  <2>2. \A e \in ToSet(q.sn[t].zns) : e \in 1..m /\ u.zn[e].pn = q.zn[e].pn
    BY <1>12, <1>13
  <2>3. u.zn[z].pn = x
    BY <1>4, <1>5, <1>10
  <2>4. CASE y \in ToSet(q.sn[t].zns) /\ r \in ToSet(q.sn[t].zns)
    BY <2>1, <2>2, <2>4 DEF ParserOK, Single
  <2>5. CASE y \in ToSet(q.sn[t].zns) /\ r \notin ToSet(q.sn[t].zns)
    <3>1. r = z /\ t = s
      BY <1>11, <2>5
    <3> QED
      BY <2>1, <2>2, <2>3, <2>5, <3>1
  <2>6. CASE y \notin ToSet(q.sn[t].zns) /\ r \in ToSet(q.sn[t].zns)
    <3>1. y = z /\ t = s
      BY <1>11, <2>6
    <3> QED
      BY <2>1, <2>2, <2>3, <2>6, <3>1
  <2>7. CASE y \notin ToSet(q.sn[t].zns) /\ r \notin ToSet(q.sn[t].zns)
    <3>1. y = z
      BY <1>11, <2>7
    <3>2. r = z
      BY <1>11, <2>7
    <3> QED
      BY <3>1, <3>2
  <2> QED
    BY <2>4, <2>5, <2>6, <2>7
<1>20. ParserOK(T, text, u)
  BY <1>10, <1>15, <1>16, <1>17, <1>18, <1>19, <1>24, SameNodesKeeps
<1>21. SameTriples(q, u)
  <2>1. ASSUME NEW t, NEW y, NEW c, IsLink(u, t, y, c) PROVE IsLink(q, t, y, c)
    <3>1. t \in 1..n /\ y \in ToSet(u.sn[t].zns) /\ c \in ToSet(u.zn[y].sns)
      BY <1>9, <1>10, <2>1 DEF IsLink
    <3>2. y # z
      BY <1>4, <1>5, <1>10, <3>1
    <3>3. y \in ToSet(q.sn[t].zns)
      BY <1>11, <3>1, <3>2
    <3> QED
      BY <1>12, <1>13, <3>1, <3>3 DEF IsLink
  <2>2. ASSUME NEW t, NEW y, NEW c, IsLink(q, t, y, c) PROVE IsLink(u, t, y, c)
    BY <1>9, <1>10, <1>11, <1>12, <1>13, <2>2 DEF IsLink
  <2> QED
    BY <2>1, <2>2 DEF SameTriples
<1>22. z \in 1..Len(u.zn) /\ z \in ToSet(u.sn[s].zns) /\ u.zn[z].pn = x
  <2>1. z \in ToSet(u.sn[s].zns)
    BY <1>11
  <2> QED
    BY <1>1, <1>4, <1>5, <1>10, <2>1
<1>23. SameForest(q, u) /\ Len(u.sn) = Len(q.sn)
  BY <1>9, <1>10 DEF SameForest
<1> QED
  BY <1>14, <1>20, <1>21, <1>22, <1>23 DEF u

-----------------------------------------------------------------------------
(* Following a goto.                                                       *)

WithSNodes(v, sns) == [v EXCEPT !.sns = sns]

\* A ZNode with other nodes below it.
LEMMA WithSNodesOK ==
  ASSUME NEW ns, NEW np, NEW v, ZNodeOK(ns, np, v), NEW sns, IsSeq(sns), ToSet(sns) \subseteq 1..ns, Distinct(sns)
  PROVE  LET w == WithSNodes(v, sns)
         IN  ZNodeOK(ns, np, w) /\ w.pn = v.pn /\ w.sns = sns
<1> DEFINE w == WithSNodes(v, sns)
<1>0. w = [v EXCEPT !.sns = sns]
  BY DEF WithSNodes
<1> HIDE DEF w
<1>1. v = [pn |-> v.pn, sns |-> v.sns]
  BY DEF ZNodeOK
<1>2. w.pn = v.pn /\ w.sns = sns
  BY <1>0, <1>1
<1>3. w = [pn |-> w.pn, sns |-> w.sns]
  BY <1>0, <1>1
<1>4. ZNodeOK(ns, np, w)
  BY <1>2, <1>3 DEF ZNodeOK
<1> QED
  BY <1>2, <1>4 DEF w

\* Links that grow twice have grown.
LEMMA GrownLinksTrans ==
  ASSUME NEW a, NEW b, NEW c, GrownLinks(a, b), GrownLinks(b, c)
  PROVE  GrownLinks(a, c)
<1>1. ASSUME NEW z \in 1..Len(a) PROVE c[z].pn = a[z].pn /\ ToSet(a[z].sns) \subseteq ToSet(c[z].sns)
  <2>1. z \in 1..Len(b) /\ b[z].pn = a[z].pn /\ ToSet(a[z].sns) \subseteq ToSet(b[z].sns)
    BY DEF GrownLinks
  <2>2. c[z].pn = b[z].pn /\ ToSet(b[z].sns) \subseteq ToSet(c[z].sns)
    BY <2>1 DEF GrownLinks
  <2> QED
    BY <2>1, <2>2
<1>2. Len(a) \in Nat /\ Len(c) \in Nat /\ Len(a) <= Len(c)
  BY DEF GrownLinks
<1> QED
  BY <1>1, <1>2 DEF GrownLinks

\* Nodes that grow twice have grown.
LEMMA GrownTrans ==
  ASSUME NEW a, NEW b, NEW c, Grown(a, b), Grown(b, c)
  PROVE  Grown(a, c)
<1>1. ASSUME NEW s \in 1..Len(a)
      PROVE  c[s].state = a[s].state /\ c[s].loc = a[s].loc /\ ToSet(a[s].zns) \subseteq ToSet(c[s].zns)
  <2>1. s \in 1..Len(b) /\ b[s].state = a[s].state /\ b[s].loc = a[s].loc /\ ToSet(a[s].zns) \subseteq ToSet(b[s].zns)
    BY DEF Grown
  <2>2. c[s].state = b[s].state /\ c[s].loc = b[s].loc /\ ToSet(b[s].zns) \subseteq ToSet(c[s].zns)
    BY <2>1 DEF Grown
  <2> QED
    BY <2>1, <2>2
<1>2. Len(a) \in Nat /\ Len(c) \in Nat /\ Len(a) <= Len(c)
  BY DEF Grown
<1> QED
  BY <1>1, <1>2 DEF Grown

\* An element that was not there keeps the elements different.
LEMMA AppendDistinct ==
  ASSUME NEW seq, IsSeq(seq), Distinct(seq), NEW e, e \notin ToSet(seq)
  PROVE  Distinct(Append(seq, e))
<1> DEFINE n == Len(seq)
           new == Append(seq, e)
<1>1. n \in Nat /\ DOMAIN seq = 1..n
  BY SeqFacts
<1>2. Len(new) = n + 1 /\ new[n + 1] = e /\ \A i \in 1..n : new[i] = seq[i]
  BY AppendFacts
<1>3. \A i \in 1..n : seq[i] # e
  BY <1>1 DEF ToSet
<1> HIDE DEF new
<1>4. ASSUME NEW i \in 1..(n + 1), NEW j \in 1..(n + 1), new[i] = new[j] PROVE i = j
  <2>1. CASE i \in 1..n /\ j \in 1..n
    BY <1>2, <1>4, <2>1 DEF Distinct
  <2>2. CASE i = n + 1 \/ j = n + 1
    BY <1>1, <1>2, <1>3, <1>4, <2>2
  <2> QED
    BY <1>1, <2>1, <2>2
<1> QED
  BY <1>2, <1>4 DEF new, Distinct

\* A link is added once.
LEMMA AddLinkOK ==
  ASSUME NEW T, NEW text, NEW q, ParserOK(T, text, q), NEW s \in 1..Len(q.sn), NEW z \in ToSet(q.sn[s].zns),
         NEW ps \in 1..Len(q.sn), q.pn[q.zn[z].pn].start = q.sn[ps].loc
  PROVE  LET u == AddLink(q, z, ps)
         IN  /\ ParserOK(T, text, u) /\ SameForest(q, u) /\ LinkAdded(q, u, s, z, ps)
             /\ u.sn = q.sn /\ GrownLinks(q.zn, u.zn)
<1> DEFINE n == Len(q.sn)
           m == Len(q.zn)
           u == AddLink(q, z, ps)
<1>1. /\ Located(q) /\ IsSeq(q.sn) /\ IsSeq(q.zn)
      /\ n \in Nat /\ m \in Nat /\ Len(q.pn) \in Nat /\ Len(text) \in Nat
      /\ \A t \in 1..n : SNodeOK(T, Len(text), m, Len(q.pn), q.sn[t])
      /\ \A y \in 1..m : ZNodeOK(n, Len(q.pn), q.zn[y])
  BY ParserFacts
<1>2. IsParser(q) /\ z \in 1..m /\ z \in DOMAIN q.zn
  <2>1. z \in 1..m
    BY <1>1, SNodeFacts
  <2> QED
    BY <1>1, <2>1, SeqFacts DEF Located
<1>3. Owned(q.sn) /\ (Contains(q.zn[z].sns, ps) <=> ps \in ToSet(q.zn[z].sns))
  <2>1. IsSeq(q.zn[z].sns)
    BY <1>1, <1>2 DEF ZNodeOK
  <2>2. Contains(q.zn[z].sns, ps) <=> ps \in ToSet(q.zn[z].sns)
    BY <2>1, ContainsFacts
  <2> QED
    BY <2>2 DEF ParserOK
<1>4. CASE ps \in ToSet(q.zn[z].sns)
  <2>1. u = q
    BY <1>3, <1>4 DEF AddLink
  <2>2. GrownLinks(q.zn, q.zn)
    BY <1>1 DEF GrownLinks
  <2>3. LinkAdded(q, q, s, z, ps)
    BY <1>4 DEF LinkAdded, IsLink
  <2> QED
    BY <2>1, <2>2, <2>3 DEF SameForest
<1>5. CASE ps \notin ToSet(q.zn[z].sns)
  <2> DEFINE sns == Append(q.zn[z].sns, ps)
             v == WithSNodes(q.zn[z], sns)
             zn == [q.zn EXCEPT ![z] = v]
  <2>1. u = [q EXCEPT !.zn = zn]
    <3>1. q.zn[z] = [pn |-> q.zn[z].pn, sns |-> q.zn[z].sns]
      BY <1>1, <1>2 DEF ZNodeOK
    <3> QED
      BY <1>2, <1>3, <1>5, <3>1 DEF AddLink, WithSNodes, IsParser
  <2> HIDE DEF u, v
  <2>2. IsSeq(q.zn[z].sns) /\ ToSet(q.zn[z].sns) \subseteq 1..n
    BY <1>1, <1>2 DEF ZNodeOK
  <2>3. IsSeq(sns) /\ ToSet(sns) = ToSet(q.zn[z].sns) \cup {ps} /\ ToSet(sns) \subseteq 1..n
    <3>1. IsSeq(sns) /\ ToSet(sns) = ToSet(q.zn[z].sns) \cup {ps}
      BY <2>2, AppendFacts
    <3> HIDE DEF sns
    <3> QED
      BY <2>2, <3>1
  <2>17. Distinct(sns)
    <3>1. Distinct(q.zn[z].sns)
      BY <1>1, <1>2 DEF ZNodeOK
    <3> QED
      BY <1>5, <2>2, <3>1, AppendDistinct
  <2> HIDE DEF sns
  <2>4. ZNodeOK(n, Len(q.pn), v) /\ v.pn = q.zn[z].pn /\ v.sns = sns
    <3>1. ZNodeOK(n, Len(q.pn), q.zn[z])
      BY <1>1, <1>2
    <3> QED
      BY <2>3, <2>17, <3>1, WithSNodesOK DEF v
  <2>5. IsSeq(zn) /\ Len(zn) = m /\ zn[z] = v /\ \A y \in 1..m : y # z => zn[y] = q.zn[y]
    <3>1. IsSeq(q.zn) /\ z \in 1..Len(q.zn)
      BY <1>1, <1>2
    <3> QED
      BY <3>1, ExceptFacts
  <2> HIDE DEF zn
  <2>6. /\ IsParser(u) /\ u.zn = zn /\ u.sn = q.sn
        /\ u.t = q.t /\ u.pn = q.pn /\ u.hashS = q.hashS /\ u.hashP = q.hashP /\ u.todo = q.todo /\ u.shifts = q.shifts
        /\ u.accept = q.accept /\ u.epos = q.epos
    BY <1>2, <2>1 DEF IsParser
  <2>7. \A y \in 1..m : u.zn[y].pn = q.zn[y].pn
    BY <2>4, <2>5, <2>6
  <2>8. ToSet(u.zn[z].sns) = ToSet(q.zn[z].sns) \cup {ps}
    BY <2>3, <2>4, <2>5, <2>6
  <2>9. \A y \in 1..m : y # z => u.zn[y] = q.zn[y]
    BY <2>5, <2>6
  <2>10. GrownLinks(q.zn, u.zn)
    <3>1. ASSUME NEW y \in 1..Len(q.zn) PROVE u.zn[y].pn = q.zn[y].pn /\ ToSet(q.zn[y].sns) \subseteq ToSet(u.zn[y].sns)
      BY <2>7, <2>8, <2>9
    <3>2. Len(q.zn) \in Nat /\ Len(u.zn) \in Nat /\ Len(q.zn) <= Len(u.zn)
      BY <1>1, <2>5, <2>6
    <3> QED
      BY <3>1, <3>2 DEF GrownLinks
  <2>11. SNodesOK(T, Len(text), u.sn, Len(u.zn), Len(u.pn)) /\ Owned(u.sn)
    BY <2>5, <2>6 DEF ParserOK
  <2>12. ZNodesOK(u.zn, Len(u.sn), Len(u.pn))
    BY <1>1, <2>4, <2>5, <2>6 DEF ZNodesOK
  <2>13. Joined(u.sn, u.zn, u.pn)
    <3>1. SUFFICES ASSUME NEW t \in 1..n, NEW y \in ToSet(q.sn[t].zns)
                   PROVE  /\ q.pn[u.zn[y].pn].skip <= q.sn[t].loc
                          /\ \A b \in ToSet(u.zn[y].sns) : q.pn[u.zn[y].pn].start = q.sn[b].loc
      BY <2>6 DEF Joined
    <3>2. y \in 1..m
      BY <1>1, SNodeFacts
    <3>3. /\ q.pn[q.zn[y].pn].skip <= q.sn[t].loc
          /\ \A b \in ToSet(q.zn[y].sns) : q.pn[q.zn[y].pn].start = q.sn[b].loc
      BY DEF ParserOK, Joined
    <3>4. CASE y = z
      BY <2>7, <2>8, <3>2, <3>3, <3>4
    <3>5. CASE y # z
      BY <2>9, <3>2, <3>3, <3>5
    <3> QED
      BY <3>4, <3>5
  <2>14. SameNodes(q, u)
    <3>1. Grown(q.sn, q.sn)
      BY <1>1 DEF Grown
    <3> QED
      BY <2>6, <3>1 DEF SameNodes
  <2>18. Single(u.sn, u.zn)
    <3>1. SUFFICES ASSUME NEW t \in 1..n, NEW y \in ToSet(q.sn[t].zns), NEW r \in ToSet(q.sn[t].zns),
                          u.zn[y].pn = u.zn[r].pn
                   PROVE  y = r
      BY <2>6 DEF Single
    <3>2. y \in 1..m /\ r \in 1..m
      BY <1>1, SNodeFacts
    <3> QED
      BY <2>7, <3>1, <3>2 DEF ParserOK, Single
  <2>15. ParserOK(T, text, u)
    BY <2>6, <2>11, <2>12, <2>13, <2>14, <2>18, SameNodesKeeps
  <2>16. LinkAdded(q, u, s, z, ps)
    <3>1. ASSUME NEW t, NEW y, NEW c, IsLink(u, t, y, c) PROVE IsLink(q, t, y, c) \/ (t = s /\ y = z /\ c = ps)
      <4>1. t \in 1..n /\ y \in ToSet(q.sn[t].zns) /\ c \in ToSet(u.zn[y].sns)
        BY <2>6, <3>1 DEF IsLink
      <4>2. y \in 1..m
        BY <1>1, <4>1, SNodeFacts
      <4>3. CASE y = z
        <5>1. t = s
          BY <1>3, <4>1, <4>3 DEF Owned
        <5> QED
          BY <2>8, <4>1, <4>3, <5>1 DEF IsLink
      <4>4. CASE y # z
        BY <2>9, <4>1, <4>2, <4>4 DEF IsLink
      <4> QED
        BY <4>3, <4>4
    <3>2. ASSUME NEW t, NEW y, NEW c, IsLink(q, t, y, c) PROVE IsLink(u, t, y, c)
      <4>1. t \in 1..n /\ y \in ToSet(q.sn[t].zns) /\ c \in ToSet(q.zn[y].sns)
        BY <3>2 DEF IsLink
      <4>2. y \in 1..m
        BY <1>1, <4>1, SNodeFacts
      <4> QED
        BY <2>6, <2>8, <2>9, <4>1, <4>2 DEF IsLink
    <3>3. IsLink(u, s, z, ps)
      BY <2>6, <2>8 DEF IsLink
    <3> QED
      BY <3>1, <3>2, <3>3 DEF LinkAdded
  <2> QED
    BY <2>6, <2>10, <2>15, <2>16 DEF u, SameForest
<1> QED
  BY <1>4, <1>5

\* u is q with a link from s to ps through PNode x.
Linked(q, u, x, s, ps) ==
  \E z : z \in 1..Len(u.zn) /\ u.zn[z].pn = x /\ LinkAdded(q, u, s, z, ps)

\* goto_PNode links a node to the one below it through a ZNode of the PNode.
LEMMA LinkPNodeOK ==
  ASSUME NEW T, TableOK(T), NEW text, NEW q, ParserOK(T, text, q),
         NEW s \in 1..Len(q.sn), NEW x \in 1..Len(q.pn), NEW ps \in 1..Len(q.sn),
         q.pn[x].start = q.sn[ps].loc, q.pn[x].skip <= q.sn[s].loc, q.epos <= q.sn[s].loc, q.sn[s].state # 1
  PROVE  LET u == LinkPNode(q, x, s, ps)
         IN  /\ ParserOK(T, text, u) /\ SameForest(q, u) /\ Linked(q, u, x, s, ps)
             /\ Grown(q.sn, u.sn) /\ Len(u.sn) = Len(q.sn) /\ GrownLinks(q.zn, u.zn)
<1> DEFINE n == Len(q.sn)
           z == FindZNode(q, s, x)
           u == LinkPNode(q, x, s, ps)
<1>1. /\ n \in Nat /\ Len(q.zn) \in Nat /\ Len(q.pn) \in Nat /\ Len(text) \in Nat
      /\ \A t \in 1..n : SNodeOK(T, Len(text), Len(q.zn), Len(q.pn), q.sn[t])
  BY ParserFacts
<1>2. CASE z # 0
  <2>1. z \in ToSet(q.sn[s].zns) /\ q.zn[z].pn = x
    BY <1>2 DEF FindZNode
  <2>2. u = AddLink(q, z, ps)
    BY <1>2 DEF LinkPNode
  <2> HIDE DEF z
  <2>3. /\ ParserOK(T, text, u) /\ SameForest(q, u) /\ LinkAdded(q, u, s, z, ps)
        /\ u.sn = q.sn /\ GrownLinks(q.zn, u.zn)
    BY <2>1, <2>2, AddLinkOK
  <2> HIDE DEF u
  <2>4. Grown(q.sn, u.sn)
    BY <1>1, <2>3 DEF Grown
  <2>5. z \in 1..Len(u.zn) /\ u.zn[z].pn = x
    <3>1. z \in 1..Len(q.zn)
      BY <1>1, <2>1, SNodeFacts
    <3> QED
      BY SMTT(30), <2>1, <2>3, <3>1 DEF GrownLinks
  <2> QED
    BY <2>3, <2>4, <2>5 DEF u, Linked
<1>3. CASE z = 0
  <2> DEFINE y == Len(q.zn) + 1
             v == WithZNode(q, x, s)
             w == QueueForNewZNode(v, y, s)
  <2>1. u = AddLink(w, y, ps)
    BY <1>3 DEF LinkPNode, AddZNode, WithZNode
  <2>13. \A c \in ToSet(q.sn[s].zns) : q.zn[c].pn # x
    <3> DEFINE zs == {c \in ToSet(q.sn[s].zns) : q.zn[c].pn = x}
    <3>1. z = IF zs = {} THEN 0 ELSE CHOOSE c \in zs : TRUE
      BY DEF FindZNode
    <3>2. 0 \notin ToSet(q.sn[s].zns)
      <4>1. ToSet(q.sn[s].zns) \subseteq 1..Len(q.zn)
        BY <1>1, SNodeFacts
      <4> HIDE DEF zs, z
      <4> QED
        BY <1>1, <4>1
    <3>3. zs = {}
      BY <1>3, <3>1, <3>2
    <3> QED
      BY <3>3
  <2>2. /\ ParserOK(T, text, v) /\ SameForest(q, v) /\ SameTriples(q, v)
        /\ Grown(q.sn, v.sn) /\ Len(v.sn) = Len(q.sn) /\ GrownLinks(q.zn, v.zn)
        /\ y \in 1..Len(v.zn) /\ y \in ToSet(v.sn[s].zns) /\ v.zn[y].pn = x
    <3> HIDE DEF z
    <3> QED
      BY <2>13, WithZNodeOK
  <2> HIDE DEF v, y
  <2>3. v.sn[s].state = q.sn[s].state /\ v.sn[s].loc = q.sn[s].loc /\ v.sn[ps].loc = q.sn[ps].loc
    BY <2>2 DEF Grown
  <2>4. s \in 1..Len(v.sn) /\ ps \in 1..Len(v.sn) /\ v.epos = q.epos /\ v.pn = q.pn /\ v.t = T
    BY <2>2 DEF SameForest, ParserOK
  <2>5. OnlyTodo(T, v, w)
    <3>1. Located(v) /\ Live(v) /\ TodoOK(T, v.epos, v.sn, v.todo)
      BY <2>2, ParserFacts DEF ParserOK
    <3>2. v.epos <= v.sn[s].loc /\ v.sn[s].state \in DOMAIN T.items /\ v.sn[s].state # 1
      BY <1>1, <2>3, <2>4, SNodeFacts
    <3> QED
      BY <2>2, <2>4, <3>1, <3>2, QueueForNewZNodeOK
  <2> HIDE DEF w
  <2>6. ParserOK(T, text, w) /\ SameLinks(v, w) /\ w.sn = v.sn
    BY <2>2, <2>5, OnlyTodoKeeps
  <2>7. w.zn = v.zn /\ w.pn = v.pn /\ w.t = v.t /\ w.hashP = v.hashP /\ w.epos = v.epos
    BY <2>6 DEF SameLinks
  <2>8. /\ ParserOK(T, text, u) /\ SameForest(w, u) /\ LinkAdded(w, u, s, y, ps)
        /\ u.sn = w.sn /\ GrownLinks(w.zn, u.zn)
    <3>1. s \in 1..Len(w.sn) /\ ps \in 1..Len(w.sn) /\ y \in ToSet(w.sn[s].zns) /\ w.pn[w.zn[y].pn].start = w.sn[ps].loc
      BY <2>2, <2>3, <2>4, <2>6, <2>7
    <3>2. ParserOK(T, text, w)
      BY <2>6
    <3> QED
      BY <2>1, <3>1, <3>2, AddLinkOK
  <2> HIDE DEF u
  <2>9. SameForest(q, u) /\ Grown(q.sn, u.sn) /\ Len(u.sn) = n
    BY <2>2, <2>6, <2>7, <2>8 DEF SameForest
  <2>10. GrownLinks(q.zn, u.zn)
    <3>1. GrownLinks(v.zn, u.zn)
      BY <2>7, <2>8
    <3> QED
      BY <2>2, <3>1, GrownLinksTrans
  <2>11. y \in 1..Len(u.zn) /\ u.zn[y].pn = x
    BY SMTT(30), <2>2, <2>7, <2>8 DEF GrownLinks
  <2>12. LinkAdded(q, u, s, y, ps)
    <3>1. \A t, c, b : IsLink(w, t, c, b) <=> IsLink(q, t, c, b)
      BY <2>2, <2>6, <2>7 DEF SameTriples, IsLink
    <3> QED
      BY <2>8, <3>1 DEF LinkAdded
  <2> QED
    BY <2>8, <2>9, <2>10, <2>11, <2>12 DEF u, Linked
<1> QED
  BY <1>2, <1>3

\* A state is entered by one symbol, and a symbol lands at one location.
LEMMA EntersOnce ==
  ASSUME NEW T, TableOK(T), GotoOK(T), NEW s \in DOMAIN T.items, NEW X, NEW Y, Enters(T, X, s), Enters(T, Y, s)
  PROVE  X = Y
<1>0. s # 0
  BY DEF TableOK
<1>1. PICK a \in DOMAIN T.items : X \in DOMAIN T.goto[a] /\ T.goto[a][X] = s
  BY DEF Enters
<1>2. PICK b \in DOMAIN T.items : Y \in DOMAIN T.goto[b] /\ T.goto[b][Y] = s
  BY DEF Enters
<1>3. Moved(T, a, X, s)
  BY <1>0, <1>1 DEF GotoOK
<1>4. Moved(T, b, Y, s)
  BY <1>0, <1>2 DEF GotoOK
<1>5. PICK it \in T.items[s] : it[2] > 0
  BY <1>3 DEF Moved
<1>6. T.grammar.rules[it[1]].rhs[it[2]] = X
  BY <1>3, <1>5 DEF Moved
<1>7. T.grammar.rules[it[1]].rhs[it[2]] = Y
  BY <1>4, <1>5 DEF Moved
<1> QED
  BY <1>6, <1>7

\* The blanks from one location end at one location.
LEMMA BlanksEnd ==
  ASSUME NEW text, Len(text) \in Nat, NEW i \in Int, NEW a, NEW b, AfterBlanks(text, i, a), AfterBlanks(text, i, b)
  PROVE  ~(a < b)
<1>1. SUFFICES ASSUME a < b PROVE FALSE
  OBVIOUS
<1>2. a \in i..Len(text) /\ b \in i..Len(text)
  BY DEF AfterBlanks
<1>3. a < Len(text) /\ a + 1 \in (i + 1)..b
  BY <1>1, <1>2
<1>4. text[a + 1] # Blank
  BY <1>3 DEF AfterBlanks
<1>5. text[a + 1] = Blank
  BY <1>3 DEF AfterBlanks
<1> QED
  BY <1>4, <1>5

\* A symbol reaches one location from the one the engine is at.
LEMMA LandsOnce ==
  ASSUME NEW T, TableOK(T), NEW text, Len(text) \in Nat, NEW epos \in Int, NEW X, NEW a, NEW b,
         Lands(T, text, epos, X, a), Lands(T, text, epos, X, b)
  PROVE  a = b
<1>1. CASE X \in DOMAIN T.spell
  <2> DEFINE i == epos + Len(T.spell[X])
  <2>1. IsSeq(T.spell[X])
    BY <1>1 DEF TableOK
  <2>2. i \in Int
    BY <2>1, SeqFacts
  <2>3. AfterBlanks(text, i, a) /\ AfterBlanks(text, i, b)
    BY <1>1 DEF Lands
  <2>4. a \in Int /\ b \in Int
    BY <2>2, <2>3 DEF AfterBlanks
  <2> HIDE DEF i
  <2>5. ~(a < b) /\ ~(b < a)
    BY <2>2, <2>3, BlanksEnd
  <2> QED
    BY <2>4, <2>5
<1>2. CASE X \notin DOMAIN T.spell
  BY <1>2 DEF Lands
<1> QED
  BY <1>1, <1>2

\* A new node without links changes no link.
LEMMA FreshLinks ==
  ASSUME NEW T, NEW text, NEW q, ParserOK(T, text, q), NEW u, SameLinks(q, u), NEW state, NEW loc,
         u.sn \in {q.sn, Append(q.sn, Fresh(state, loc))}
  PROVE  /\ SameForest(q, u) /\ SameTriples(q, u) /\ Grown(q.sn, u.sn) /\ GrownLinks(q.zn, u.zn)
         /\ \A t \in 1..Len(u.sn) : t \in 1..Len(q.sn) \/ u.sn[t] = Fresh(state, loc)
<1>1. IsSeq(q.sn) /\ Len(q.sn) \in Nat /\ Len(q.zn) \in Nat
  BY ParserFacts
<1>2. SameForest(q, u) /\ u.zn = q.zn
  BY DEF SameLinks, SameForest
<1>3. GrownLinks(q.zn, u.zn)
  BY <1>1, <1>2 DEF GrownLinks
<1>4. CASE u.sn = q.sn
  BY <1>1, <1>2, <1>3, <1>4 DEF SameTriples, IsLink, Grown
<1>5. CASE u.sn = Append(q.sn, Fresh(state, loc))
  <2>1. /\ Len(u.sn) = Len(q.sn) + 1 /\ u.sn[Len(q.sn) + 1] = Fresh(state, loc)
        /\ \A t \in 1..Len(q.sn) : u.sn[t] = q.sn[t]
    BY <1>1, <1>5, AppendFacts
  <2>2. \A t \in 1..Len(u.sn) : t \in 1..Len(q.sn) \/ t = Len(q.sn) + 1
    BY <1>1, <2>1
  <2>3. ToSet(u.sn[Len(q.sn) + 1].zns) = {}
    BY <2>1, FreshFacts, EmptyFacts
  <2>4. Grown(q.sn, u.sn)
    BY <1>1, <2>1 DEF Grown
  <2>5. SameTriples(q, u)
    <3>1. ASSUME NEW t, NEW y, NEW c, IsLink(u, t, y, c) PROVE IsLink(q, t, y, c)
      BY <1>2, <2>1, <2>2, <2>3, <3>1 DEF IsLink
    <3>2. ASSUME NEW t, NEW y, NEW c, IsLink(q, t, y, c) PROVE IsLink(u, t, y, c)
      BY <1>1, <1>2, <2>1, <3>2 DEF IsLink
    <3> QED
      BY <3>1, <3>2 DEF SameTriples
  <2> QED
    BY <1>2, <1>3, <2>1, <2>2, <2>4, <2>5
<1> QED
  BY <1>4, <1>5

\* u is q with a link from ps to a node of state `to` at loc; a new node is one of these.
Reaches(q, u, x, ps, to, loc) ==
  \E s : /\ s \in 1..Len(u.sn) /\ u.sn[s].state = to /\ u.sn[s].loc = loc
         /\ Linked(q, u, x, s, ps)
         /\ \A t \in 1..Len(u.sn) : t \in 1..Len(q.sn) \/ (u.sn[t].state = to /\ u.sn[t].loc = loc)

\* goto_PNode, for a PNode that ends at loc.
LEMMA GotoPNodeOK ==
  ASSUME NEW T, TableOK(T), GotoOK(T), NEW text, NEW q, ParserOK(T, text, q),
         NEW x \in 1..Len(q.pn), NEW ps \in 1..Len(q.sn), NEW loc \in 0..Len(text),
         HasColumn(T, q.pn[x].sym), Lands(T, text, q.epos, q.pn[x].sym, loc), q.epos <= loc,
         q.pn[x].start = q.sn[ps].loc, q.pn[x].skip <= loc
  PROVE  LET u == GotoPNode(q, loc, x, ps)
             to == T.goto[q.sn[ps].state][q.pn[x].sym]
         IN  /\ ParserOK(T, text, u) /\ SameForest(q, u) /\ Grown(q.sn, u.sn) /\ GrownLinks(q.zn, u.zn)
             /\ IF to = 0 THEN u = q ELSE Reaches(q, u, x, ps, to, loc)
<1> DEFINE X == q.pn[x].sym
           to == T.goto[q.sn[ps].state][X]
           u == GotoPNode(q, loc, x, ps)
           v == AddSNode(q, to, loc)
           s == FindSNode(v, to)
           w == Reached(v, x, s, ps)
<1>1. /\ Len(q.sn) \in Nat /\ Len(q.zn) \in Nat /\ Len(q.pn) \in Nat /\ Len(text) \in Nat /\ q.epos \in Int
      /\ \A t \in 1..Len(q.sn) : SNodeOK(T, Len(text), Len(q.zn), Len(q.pn), q.sn[t])
  BY ParserFacts DEF Located
<1>2. q.t = T
  BY DEF ParserOK
<1>3. CASE to = 0
  <2>1. u = q
    BY <1>2, <1>3 DEF GotoPNode, StateOf
  <2>2. Grown(q.sn, q.sn) /\ GrownLinks(q.zn, q.zn)
    BY <1>1 DEF Grown, GrownLinks
  <2> QED
    BY <1>3, <2>1, <2>2 DEF SameForest
<1>4. CASE to # 0
  <2>1. u = LinkPNode(w, x, s, ps)
    BY <1>2, <1>4 DEF GotoPNode, StateOf
  <2>2. q.sn[ps].state \in DOMAIN T.items /\ X \in DOMAIN T.goto[q.sn[ps].state]
    BY <1>1, SNodeFacts DEF HasColumn
  <2>3. to \in DOMAIN T.items /\ to # 1 /\ Enters(T, X, to)
    <3>1. Moved(T, q.sn[ps].state, X, to)
      BY <1>4, <2>2 DEF GotoOK
    <3> QED
      BY <2>2, <3>1 DEF Moved, Enters
  <2> HIDE DEF to
  <2>4. \A Y : Enters(T, Y, to) => Lands(T, text, q.epos, Y, loc)
    BY <2>3, EntersOnce
  <2>5. /\ ParserOK(T, text, v) /\ SameLinks(q, v) /\ v.sn \in {q.sn, Append(q.sn, Fresh(to, loc))}
        /\ FindSNode(v, to) # 0
    BY SMTT(30), <2>3, <2>4, AddSNodeOK
  <2>6. /\ SameForest(q, v) /\ SameTriples(q, v) /\ Grown(q.sn, v.sn) /\ GrownLinks(q.zn, v.zn)
        /\ \A t \in 1..Len(v.sn) : t \in 1..Len(q.sn) \/ v.sn[t] = Fresh(to, loc)
    BY <2>5, FreshLinks
  <2> HIDE DEF v
  <2>7. s \in v.hashS /\ v.sn[s].state = to /\ s \in 1..Len(v.sn)
    <3>1. s \in v.hashS /\ v.sn[s].state = to
      BY <2>5, FindSNodeOK DEF StateOf
    <3> QED
      BY <2>5, <3>1 DEF ParserOK, HashOK
  <2> HIDE DEF s
  <2>8. v.sn[s].loc = loc
    <3>1. Lands(T, text, v.epos, X, v.sn[s].loc)
      BY <2>3, <2>5, <2>7 DEF ParserOK, HashOK
    <3>2. v.epos = q.epos
      BY <2>6 DEF SameForest
    <3> QED
      BY <1>1, <3>1, <3>2, LandsOnce
  <2>9. x \in 1..Len(v.pn) /\ ps \in 1..Len(v.sn) /\ v.sn[ps].loc = q.sn[ps].loc /\ v.pn = q.pn /\ v.epos = q.epos
    BY <2>6 DEF SameForest, Grown
  <2>10. /\ ParserOK(T, text, w) /\ SameLinks(v, w) /\ w.hashS = v.hashS /\ Len(w.sn) = Len(v.sn)
         /\ \A t \in 1..Len(v.sn) : w.sn[t].state = v.sn[t].state /\ w.sn[t].loc = v.sn[t].loc /\ w.sn[t].zns = v.sn[t].zns
    BY SMTT(30), <2>5, <2>7, <2>9, ReachedOK
  <2> HIDE DEF w
  <2>11. w.pn = v.pn /\ w.zn = v.zn /\ w.epos = v.epos /\ w.t = v.t /\ w.hashP = v.hashP
    BY <2>10 DEF SameLinks
  <2>12. /\ s \in 1..Len(w.sn) /\ x \in 1..Len(w.pn) /\ ps \in 1..Len(w.sn)
         /\ w.pn[x].start = w.sn[ps].loc /\ w.pn[x].skip <= w.sn[s].loc /\ w.epos <= w.sn[s].loc /\ w.sn[s].state # 1
    BY <2>3, <2>7, <2>8, <2>9, <2>10, <2>11
  <2>13. ParserOK(T, text, w)
    BY <2>10
  <2>14. /\ ParserOK(T, text, u) /\ SameForest(w, u) /\ Linked(w, u, x, s, ps)
         /\ Grown(w.sn, u.sn) /\ Len(u.sn) = Len(w.sn) /\ GrownLinks(w.zn, u.zn)
    BY <2>1, <2>12, <2>13, LinkPNodeOK
  <2> HIDE DEF u
  <2>15. SameForest(q, u)
    BY <2>6, <2>11, <2>14 DEF SameForest
  <2>16. Grown(q.sn, u.sn)
    <3>1. Grown(v.sn, w.sn)
      <4>1. Len(v.sn) \in Nat
        BY <2>6 DEF Grown
      <4> QED
        BY <2>10, <4>1 DEF Grown
    <3> QED
      BY <2>6, <2>14, <3>1, GrownTrans
  <2>17. GrownLinks(q.zn, u.zn)
    <3>1. GrownLinks(v.zn, u.zn)
      BY <2>11, <2>14
    <3> QED
      BY <2>6, <3>1, GrownLinksTrans
  <2>18. Reaches(q, u, x, ps, to, loc)
    <3>1. s \in 1..Len(u.sn) /\ u.sn[s].state = to /\ u.sn[s].loc = loc
      BY <2>7, <2>8, <2>10, <2>12, <2>14 DEF Grown
    <3>2. \A t, y, c : IsLink(w, t, y, c) <=> IsLink(q, t, y, c)
      <4>1. \A t, y, c : IsLink(w, t, y, c) <=> IsLink(v, t, y, c)
        BY <2>10, <2>11 DEF IsLink
      <4> QED
        BY <2>6, <4>1 DEF SameTriples
    <3>3. Linked(q, u, x, s, ps)
      BY <2>14, <3>2 DEF Linked, LinkAdded
    <3>4. ASSUME NEW t \in 1..Len(u.sn) PROVE t \in 1..Len(q.sn) \/ (u.sn[t].state = to /\ u.sn[t].loc = loc)
      <4>1. t \in 1..Len(v.sn) /\ t \in 1..Len(w.sn)
        BY <2>10, <2>14
      <4>2. u.sn[t].state = v.sn[t].state /\ u.sn[t].loc = v.sn[t].loc
        BY <2>10, <2>14, <4>1 DEF Grown
      <4>3. t \in 1..Len(q.sn) \/ v.sn[t] = Fresh(to, loc)
        BY <2>6, <4>1
      <4> QED
        BY <4>2, <4>3, FreshFacts
    <3> QED
      BY <3>1, <3>3, <3>4 DEF Reaches
  <2> QED
    BY <1>4, <2>14, <2>15, <2>16, <2>17, <2>18 DEF u, to
<1> QED
  BY <1>3, <1>4

-----------------------------------------------------------------------------
(* The latest version of a PNode.                                          *)

\* f is the function that Latest defines, from PNode k on.
LatestFrom(pn, k, f) ==
  f = [y \in k..Len(pn) |-> IF pn[y].latest = y THEN y ELSE f[pn[y].latest]]

AreLatest(pn, f) == f = [y \in DOMAIN pn |-> IF pn[y].latest = y THEN y ELSE f[pn[y].latest]]
Latests(pn) == CHOOSE f : AreLatest(pn, f)

\* There is such a function: the latest version of a PNode is not before it.
LEMMA LatestExists ==
  ASSUME NEW n, NEW pn, PNodesOK(n, pn)
  PROVE  \E f : LatestFrom(pn, 1, f)
<1> DEFINE len == Len(pn)
           S == {m \in Nat : m <= len => \E f : LatestFrom(pn, len + 1 - m, f)}
<1>0. len \in Nat /\ \A x \in 1..len : pn[x].latest \in x..len
  BY SeqFacts DEF PNodesOK
<1>1. 0 \in S
  <2> DEFINE f == [y \in (len + 1)..len |-> y]
  <2>1. LatestFrom(pn, len + 1, f)
    BY <1>0 DEF LatestFrom
  <2> HIDE DEF f
  <2> QED
    BY <1>0, <2>1
<1>2. ASSUME NEW m \in Nat, m \in S PROVE m + 1 \in S
  <2>1. SUFFICES ASSUME m + 1 <= len PROVE \E f : LatestFrom(pn, len - m, f)
    BY <1>0
  <2> DEFINE k == len - m
  <2>2. k \in 1..len /\ len + 1 - m = k + 1 /\ m <= len
    BY <1>0, <2>1
  <2>3. PICK f : LatestFrom(pn, k + 1, f)
    BY <1>2, <2>2
  <2> HIDE DEF k
  <2> DEFINE h == [y \in k..len |-> IF y = k THEN IF pn[k].latest = k THEN k ELSE f[pn[k].latest] ELSE f[y]]
  <2>4. ASSUME NEW y \in k..len PROVE h[y] = IF pn[y].latest = y THEN y ELSE h[pn[y].latest]
    <3>1. y \in 1..len /\ pn[y].latest \in y..len
      BY <1>0, <2>2
    <3>2. CASE y = k
      <4>1. CASE pn[k].latest = k
        BY <3>2, <4>1
      <4>2. CASE pn[k].latest # k
        <5>1. pn[k].latest \in (k + 1)..len /\ pn[k].latest \in k..len
          BY <2>2, <3>1, <3>2, <4>2
        <5> QED
          BY <3>2, <4>2, <5>1
      <4> QED
        BY <4>1, <4>2
    <3>3. CASE y # k
      <4>1. y \in (k + 1)..len /\ pn[y].latest \in k..len /\ pn[y].latest # k
        BY <2>2, <3>1, <3>3
      <4>2. f[y] = IF pn[y].latest = y THEN y ELSE f[pn[y].latest]
        BY <2>3, <4>1 DEF LatestFrom
      <4> QED
        BY <3>3, <4>1, <4>2
    <3> QED
      BY <3>2, <3>3
  <2>5. h = [y \in k..len |-> h[y]]
    OBVIOUS
  <2> HIDE DEF h
  <2>6. h = [y \in k..len |-> IF pn[y].latest = y THEN y ELSE h[pn[y].latest]]
    BY <2>4, <2>5
  <2>7. LatestFrom(pn, k, h)
    BY <2>6 DEF LatestFrom
  <2> QED
    BY <2>7 DEF k
<1>3. S \subseteq Nat
  OBVIOUS
<1> HIDE DEF S
<1>4. len \in S
  BY <1>0, <1>1, <1>2, <1>3, SetInduction
<1>5. \E f : LatestFrom(pn, len + 1 - len, f)
  BY <1>0, <1>4 DEF S
<1>6. len + 1 - len = 1
  BY <1>0
<1> QED
  BY <1>5, <1>6

\* It has the equation of Latest.
LEMMA LatestStep ==
  ASSUME NEW n, NEW pn, PNodesOK(n, pn)
  PROVE  \A x \in 1..Len(pn) : Latests(pn)[x] = IF pn[x].latest = x THEN x ELSE Latests(pn)[pn[x].latest]
<1> DEFINE f == Latests(pn)
<1>1. DOMAIN pn = 1..Len(pn)
  BY SeqFacts DEF PNodesOK
<1>2. PICK h : LatestFrom(pn, 1, h)
  BY LatestExists
<1>3. AreLatest(pn, h)
  BY <1>1, <1>2 DEF LatestFrom, AreLatest
<1>4. AreLatest(pn, f)
  BY <1>3 DEF Latests
<1> HIDE DEF f
<1>5. \A x \in 1..Len(pn) : f[x] = IF pn[x].latest = x THEN x ELSE f[pn[x].latest]
  BY <1>1, <1>4 DEF AreLatest
<1> QED
  BY <1>5 DEF f

\* It is Latest.
LEMMA LatestIs ==
  ASSUME NEW q, NEW x
  PROVE  Latest(q, x) = Latests(q.pn)[x]
BY DEF Latest, Latests, AreLatest

\* Induction from the end of a sequence.
LEMMA FromTheEnd ==
  ASSUME NEW len \in Nat, NEW S, \A x \in 1..len : (\A y \in (x + 1)..len : y \in S) => x \in S
  PROVE  1..len \subseteq S
<1> DEFINE R == {m \in Nat : \A x \in 1..len : len - x < m => x \in S}
<1>1. 0 \in R
  OBVIOUS
<1>2. ASSUME NEW m \in Nat, m \in R PROVE m + 1 \in R
  <2>1. SUFFICES ASSUME NEW x \in 1..len, len - x < m + 1 PROVE x \in S
    OBVIOUS
  <2>2. \A y \in (x + 1)..len : y \in 1..len /\ len - y < m
    BY <2>1
  <2>3. \A y \in (x + 1)..len : y \in S
    BY <1>2, <2>2
  <2> QED
    BY <2>3
<1>3. R \subseteq Nat
  OBVIOUS
<1> HIDE DEF R
<1>4. len \in R
  BY <1>1, <1>2, <1>3, SetInduction
<1>5. \A x \in 1..len : len - x < len
  OBVIOUS
<1> QED
  BY <1>4, <1>5 DEF R

\* LATEST ends at a PNode of the same symbol and span that is its own latest version.
LEMMA LatestOK ==
  ASSUME NEW n, NEW pn, PNodesOK(n, pn), NEW x \in 1..Len(pn)
  PROVE  LET y == Latests(pn)[x]
         IN  y \in x..Len(pn) /\ y \in 1..Len(pn) /\ pn[y].latest = y /\ SameSpan(pn[x], pn[y])
<1> DEFINE f == Latests(pn)
           S == {z \in 1..Len(pn) : f[z] \in z..Len(pn) /\ pn[f[z]].latest = f[z] /\ SameSpan(pn[z], pn[f[z]])}
<1>0. Len(pn) \in Nat
  BY SeqFacts DEF PNodesOK
<1>1. \A z \in 1..Len(pn) : f[z] = IF pn[z].latest = z THEN z ELSE f[pn[z].latest]
  BY LatestStep
<1> HIDE DEF f
<1>2. ASSUME NEW z \in 1..Len(pn), \A y \in (z + 1)..Len(pn) : y \in S PROVE z \in S
  <2>1. pn[z].latest \in z..Len(pn) /\ SameSpan(pn[z], pn[pn[z].latest])
    BY DEF PNodesOK
  <2>2. CASE pn[z].latest = z
    BY <1>0, <1>1, <2>1, <2>2
  <2>3. CASE pn[z].latest # z
    <3> DEFINE y == pn[z].latest
    <3>1. y \in (z + 1)..Len(pn) /\ f[z] = f[y]
      BY <1>0, <1>1, <2>1, <2>3
    <3>2. f[y] \in y..Len(pn) /\ pn[f[y]].latest = f[y] /\ SameSpan(pn[y], pn[f[y]])
      BY <1>2, <3>1
    <3>3. f[z] \in z..Len(pn)
      BY <1>0, <3>1, <3>2
    <3> QED
      BY <2>1, <3>1, <3>2, <3>3 DEF SameSpan
  <2> QED
    BY <2>2, <2>3
<1> HIDE DEF S
<1>3. 1..Len(pn) \subseteq S
  BY <1>0, <1>2, FromTheEnd
<1>4. f[x] \in x..Len(pn) /\ pn[f[x]].latest = f[x] /\ SameSpan(pn[x], pn[f[x]])
  BY <1>3 DEF S
<1>5. f[x] \in 1..Len(pn)
  BY <1>0, <1>4
<1> QED
  BY <1>4, <1>5 DEF f

\* pn2 is pn with, perhaps, one PNode more, the last version of that one and of the PNode old.
Versioned(pn, pn2, old) ==
  /\ Len(pn) <= Len(pn2)
  /\ \A y \in 1..Len(pn) : pn2[y].latest = IF y = old THEN Len(pn2) ELSE pn[y].latest
  /\ old \in 1..Len(pn) => /\ pn[old].latest = old /\ Len(pn) < Len(pn2) /\ pn2[Len(pn2)].latest = Len(pn2)

\* Only the PNodes whose latest version was the old one have another.
LEMMA LatestChange ==
  ASSUME NEW n, NEW pn, NEW pn2, PNodesOK(n, pn), PNodesOK(n, pn2), NEW old, Versioned(pn, pn2, old),
         NEW x \in 1..Len(pn)
  PROVE  Latests(pn2)[x] = IF Latests(pn)[x] = old THEN Len(pn2) ELSE Latests(pn)[x]
<1> DEFINE len == Len(pn)
           f == Latests(pn)
           h == Latests(pn2)
           S == {z \in 1..len : h[z] = IF f[z] = old THEN Len(pn2) ELSE f[z]}
<1>0. len \in Nat /\ Len(pn2) \in Nat
  BY SeqFacts DEF PNodesOK
<1>1. \A z \in 1..len : f[z] = IF pn[z].latest = z THEN z ELSE f[pn[z].latest]
  BY LatestStep
<1>2. \A z \in 1..Len(pn2) : h[z] = IF pn2[z].latest = z THEN z ELSE h[pn2[z].latest]
  BY LatestStep
<1> HIDE DEF f, h
<1>3. ASSUME NEW z \in 1..len, \A y \in (z + 1)..len : y \in S PROVE z \in S
  <2>1. pn[z].latest \in z..len /\ z \in 1..Len(pn2)
    BY <1>0 DEF PNodesOK, Versioned
  <2>2. CASE z = old
    <3>1. f[z] = old
      BY <1>1, <2>2 DEF Versioned
    <3>2. pn2[z].latest = Len(pn2) /\ pn2[z].latest # z /\ Len(pn2) \in 1..Len(pn2) /\ pn2[Len(pn2)].latest = Len(pn2)
      BY <1>0, <2>2 DEF Versioned
    <3>3. h[z] = Len(pn2)
      BY <1>2, <2>1, <3>2
    <3> QED
      BY <3>1, <3>3
  <2>3. CASE z # old /\ pn[z].latest = z
    BY <1>1, <1>2, <2>1, <2>3 DEF Versioned
  <2>4. CASE z # old /\ pn[z].latest # z
    <3> DEFINE y == pn[z].latest
    <3>1. pn2[z].latest = y /\ f[z] = f[y] /\ h[z] = h[y]
      BY <1>1, <1>2, <2>1, <2>4 DEF Versioned
    <3>2. y \in (z + 1)..len
      BY <1>0, <2>1, <2>4
    <3>3. y \in S
      BY <1>3, <3>2
    <3> QED
      BY <3>1, <3>3
  <2> QED
    BY <2>2, <2>3, <2>4
<1> HIDE DEF S
<1>4. 1..len \subseteq S
  BY <1>0, <1>3, FromTheEnd
<1> QED
  BY <1>4 DEF S, f, h

-----------------------------------------------------------------------------
(* Adding a PNode to the forest.                                           *)

\* find_PNode finds one latest version.
HashPOK(pn, hashP) == \A x, y \in hashP : SameSpan(pn[x], pn[y]) => Latests(pn)[x] = Latests(pn)[y]

\* PNodes y and z are the same reduction of the same children.
SameBuilt(pn, y, z) ==
  /\ pn[y].red = pn[z].red /\ Len(pn[y].kids) = Len(pn[z].kids)
  /\ \A k \in 1..Len(pn[y].kids) : Latests(pn)[pn[y].kids[k]] = Latests(pn)[pn[z].kids[k]]

\* The alternatives of a PNode have its symbol, and no two are built alike.
Alts(pn, x) == {x} \cup ToSet(pn[x].amb)
ForestOK(T, pn) ==
  \A x \in 1..Len(pn) : /\ pn[x].term <=> pn[x].sym \in DOMAIN T.spell
                        /\ \A y \in ToSet(pn[x].amb) : pn[y].sym = pn[x].sym
                        /\ \A y, z \in Alts(pn, x) : SameBuilt(pn, y, z) => y = z

Whole(T, text, q) == ParserOK(T, text, q) /\ HashPOK(q.pn, q.hashP) /\ ForestOK(T, q.pn)

\* pn2 has the PNodes of pn, of the same symbols and spans, and perhaps more.
GrownForest(pn, pn2) ==
  /\ Len(pn) \in Nat /\ Len(pn2) \in Nat /\ Len(pn) <= Len(pn2)
  /\ \A x \in 1..Len(pn) : SameSpan(pn[x], pn2[x]) /\ pn2[x].end = pn[x].end

\* u is q but for the forest.
SameStack(q, u) ==
  /\ u.t = q.t /\ u.sn = q.sn /\ u.zn = q.zn /\ u.hashS = q.hashS /\ u.todo = q.todo /\ u.shifts = q.shifts
  /\ u.accept = q.accept /\ u.epos = q.epos

\* A change of the forest keeps the invariant if PNodes keep their symbols and spans.
LEMMA ForestKeeps ==
  ASSUME NEW T, NEW text, NEW q, ParserOK(T, text, q), NEW u, IsParser(u), SameStack(q, u),
         PNodesOK(Len(text), u.pn), GrownForest(q.pn, u.pn), u.hashP \subseteq 1..Len(u.pn)
  PROVE  ParserOK(T, text, u)
<1>1. /\ IsSeq(q.sn) /\ Len(q.sn) \in Nat /\ Len(q.zn) \in Nat /\ Len(q.pn) \in Nat /\ Len(text) \in Nat
      /\ \A s \in 1..Len(q.sn) : SNodeOK(T, Len(text), Len(q.zn), Len(q.pn), q.sn[s])
      /\ \A z \in 1..Len(q.zn) : ZNodeOK(Len(q.sn), Len(q.pn), q.zn[z])
  BY ParserFacts
<1>2. Len(u.pn) \in Nat /\ Len(q.pn) <= Len(u.pn)
  BY DEF GrownForest
<1>3. /\ u.t = q.t /\ u.sn = q.sn /\ u.zn = q.zn /\ u.hashS = q.hashS /\ u.todo = q.todo /\ u.shifts = q.shifts
      /\ u.accept = q.accept /\ u.epos = q.epos
  BY DEF SameStack
<1>4. SNodesOK(T, Len(text), u.sn, Len(u.zn), Len(u.pn))
  <2>1. ASSUME NEW s \in 1..Len(q.sn) PROVE SNodeOK(T, Len(text), Len(q.zn), Len(u.pn), q.sn[s])
    <3>1. SNodeOK(T, Len(text), Len(q.zn), Len(q.pn), q.sn[s])
      BY <1>1
    <3> QED
      BY <1>1, <1>2, <3>1, SNodeGrows
  <2> QED
    BY <1>1, <1>3, <2>1 DEF SNodesOK
<1>5. ZNodesOK(u.zn, Len(u.sn), Len(u.pn))
  <2>1. ZNodesOK(q.zn, Len(q.sn), Len(q.pn))
    BY DEF ParserOK
  <2>2. ZNodesOK(q.zn, Len(q.sn), Len(u.pn))
    BY <1>1, <1>2, <2>1, ZNodesGrow
  <2> QED
    BY <1>3, <2>2
<1>6. Joined(u.sn, u.zn, u.pn)
  <2>1. SUFFICES ASSUME NEW s \in 1..Len(q.sn), NEW z \in ToSet(q.sn[s].zns)
                 PROVE  /\ u.pn[q.zn[z].pn].skip <= q.sn[s].loc
                        /\ \A b \in ToSet(q.zn[z].sns) : u.pn[q.zn[z].pn].start = q.sn[b].loc
    BY <1>3 DEF Joined
  <2>2. z \in 1..Len(q.zn)
    BY <1>1, SNodeFacts
  <2>3. q.zn[z].pn \in 1..Len(q.pn)
    BY <1>1, <2>2 DEF ZNodeOK
  <2>4. u.pn[q.zn[z].pn].skip = q.pn[q.zn[z].pn].skip /\ u.pn[q.zn[z].pn].start = q.pn[q.zn[z].pn].start
    BY <2>3 DEF GrownForest, SameSpan
  <2>5. /\ q.pn[q.zn[z].pn].skip <= q.sn[s].loc
        /\ \A b \in ToSet(q.zn[z].sns) : q.pn[q.zn[z].pn].start = q.sn[b].loc
    BY DEF ParserOK, Joined
  <2> QED
    BY <2>4, <2>5
<1>7. Single(u.sn, u.zn)
  BY <1>3 DEF ParserOK
<1> QED
  BY <1>3, <1>4, <1>5, <1>6, <1>7 DEF ParserOK

\* A PNode stays in range when there are more.
LEMMA PNodeGrows ==
  ASSUME NEW n, NEW np \in Nat, NEW np2 \in Nat, np <= np2, NEW v, PNodeOK(n, np, v)
  PROVE  PNodeOK(n, np2, v)
<1>1. 1..np \subseteq 1..np2
  OBVIOUS
<1> QED
  BY <1>1 DEF PNodeOK

\* A forest with one PNode more is a forest.
LEMMA PNodesExtended ==
  ASSUME NEW n, NEW pn, PNodesOK(n, pn), NEW pn2, IsSeq(pn2), Len(pn2) = Len(pn) + 1,
         \A y \in 1..Len(pn) : PNodeOK(n, Len(pn) + 1, pn2[y]) /\ SameSpan(pn[y], pn2[y]) /\ pn2[y].end = pn[y].end,
         PNodeOK(n, Len(pn) + 1, pn2[Len(pn) + 1]), pn2[Len(pn) + 1].latest = Len(pn) + 1,
         NEW old, Versioned(pn, pn2, old), old \in 1..Len(pn) => SameSpan(pn[old], pn2[Len(pn) + 1])
  PROVE  PNodesOK(n, pn2) /\ GrownForest(pn, pn2)
<1> DEFINE len == Len(pn)
<1>1. len \in Nat /\ \A y \in 1..len : pn[y].latest \in y..len /\ SameSpan(pn[y], pn[pn[y].latest])
  BY SeqFacts DEF PNodesOK
<1>2. \A y \in 1..(len + 1) : y \in 1..len \/ y = len + 1
  BY <1>1
<1>3. \A y \in 1..Len(pn2) : PNodeOK(n, Len(pn2), pn2[y])
  BY <1>2
<1>4. ASSUME NEW y \in 1..Len(pn2) PROVE pn2[y].latest \in y..Len(pn2) /\ SameSpan(pn2[y], pn2[pn2[y].latest])
  <2>1. CASE y = len + 1
    BY <1>1, <2>1 DEF SameSpan
  <2>2. CASE y \in 1..len /\ y = old
    <3>1. pn2[y].latest = len + 1 /\ SameSpan(pn[y], pn2[y]) /\ SameSpan(pn[y], pn2[len + 1])
      BY <2>2 DEF Versioned
    <3> QED
      BY <1>1, <2>2, <3>1 DEF SameSpan
  <2>3. CASE y \in 1..len /\ y # old
    <3> DEFINE x == pn[y].latest
    <3>1. pn2[y].latest = x /\ SameSpan(pn[y], pn2[y]) /\ x \in y..len /\ SameSpan(pn[y], pn[x])
      BY <1>1, <2>3 DEF Versioned
    <3>2. x \in 1..len /\ x \in y..(len + 1)
      BY <1>1, <2>3, <3>1
    <3>3. SameSpan(pn[x], pn2[x])
      BY <3>2
    <3> QED
      BY <3>1, <3>2, <3>3 DEF SameSpan
  <2> QED
    BY <1>2, <2>1, <2>2, <2>3
<1>5. PNodesOK(n, pn2)
  BY <1>3, <1>4 DEF PNodesOK
<1>6. GrownForest(pn, pn2)
  BY <1>1 DEF GrownForest
<1> QED
  BY <1>5, <1>6

\* A PNode that make_PNode has made over a forest of np PNodes.
Made(n, np, m, sym, start, end, skip, term) ==
  /\ PNodeOK(n, np + 1, m) /\ m.latest = np + 1 /\ m.amb = <<>> /\ ToSet(m.kids) \subseteq 1..np
  /\ m.sym = sym /\ m.start = start /\ m.end = end /\ m.skip = skip /\ (m.term <=> term)

\* make_PNode, of a span of the input.
LEMMA MakePNodeOK ==
  ASSUME NEW n, NEW q, PNodesOK(n, q.pn), NEW sym, NEW start \in 0..n, NEW end \in start..n, NEW skip \in end..n,
         NEW term, NEW red, NEW kids, IsSeq(kids), ToSet(kids) \subseteq 1..Len(q.pn)
  PROVE  Made(n, Len(q.pn), MakePNode(q, sym, start, end, skip, term, red, kids), sym, start, end, skip, term)
<1> DEFINE new == MakePNode(q, sym, start, end, skip, term, red, kids)
           ks == [k \in DOMAIN kids |-> Latest(q, kids[k])]
<1>0. Len(q.pn) \in Nat
  BY SeqFacts DEF PNodesOK
<1>1. DOMAIN kids = 1..Len(kids) /\ Len(kids) \in Nat
  BY SeqFacts
<1>2. ks = [k \in 1..Len(kids) |-> ks[k]]
  BY <1>1
<1>3. ASSUME NEW k \in 1..Len(kids) PROVE ks[k] \in 1..Len(q.pn)
  <2>1. kids[k] \in 1..Len(q.pn)
    BY <1>1 DEF ToSet
  <2>2. Latests(q.pn)[kids[k]] \in 1..Len(q.pn)
    BY <2>1, LatestOK
  <2>3. Latest(q, kids[k]) = Latests(q.pn)[kids[k]]
    BY LatestIs
  <2> QED
    BY <1>1, <2>2, <2>3
<1> HIDE DEF ks
<1>4. IsSeq(ks) /\ Len(ks) = Len(kids)
  <2>1. Len(kids) \in Nat
    BY <1>1
  <2> QED
    BY <1>2, <2>1, FunctionIsSeq
<1>5. ToSet(ks) \subseteq 1..Len(q.pn) /\ ToSet(ks) \subseteq 1..(Len(q.pn) + 1)
  <2>1. DOMAIN ks = 1..Len(kids)
    BY <1>4, SeqFacts
  <2> QED
    BY <1>0, <1>3, <2>1 DEF ToSet
<1>6. /\ new = [sym |-> new.sym, start |-> new.start, end |-> new.end, skip |-> new.skip, term |-> new.term, red |-> new.red,
                kids |-> new.kids, assoc |-> new.assoc, prio |-> new.prio, opAssoc |-> new.opAssoc, opPrio |-> new.opPrio,
                height |-> new.height, latest |-> new.latest, amb |-> new.amb]
      /\ new.sym = sym /\ new.start = start /\ new.end = end /\ new.skip = skip
      /\ new.kids = ks /\ new.latest = Len(q.pn) + 1 /\ new.amb = <<>> /\ new.term = term
  BY DEF MakePNode, ks
<1> HIDE DEF new
<1>7. IsSeq(<<>>) /\ ToSet(<<>>) = {}
  BY EmptyFacts
<1>8. PNodeOK(n, Len(q.pn) + 1, new)
  BY <1>4, <1>5, <1>6, <1>7 DEF PNodeOK
<1>9. new.term <=> term
  BY <1>6
<1> QED
  BY <1>5, <1>6, <1>8, <1>9 DEF new, Made

\* A PNode that make_PNode has made, before it is added to the forest of u.
NewPNode(T, text, u, new) ==
  /\ PNodeOK(Len(text), Len(u.pn) + 1, new) /\ new.latest = Len(u.pn) + 1 /\ new.amb = <<>>
  /\ ToSet(new.kids) \subseteq 1..Len(u.pn) /\ (new.term <=> new.sym \in DOMAIN T.spell)

\* What find_PNode returns: the latest version of every PNode of that symbol and span.
Found(q, new, old) ==
  /\ old \in 0..Len(q.pn)
  /\ IF old = 0 THEN \A x \in q.hashP : ~SameSpan(q.pn[x], new)
     ELSE /\ q.pn[old].latest = old /\ SameSpan(q.pn[old], new)
          /\ \A x \in q.hashP : SameSpan(q.pn[x], new) => Latests(q.pn)[x] = old

\* find_PNode finds the latest version, whichever PNode of the hash it meets.
LEMMA FindPNodeOK ==
  ASSUME NEW n, NEW q, PNodesOK(n, q.pn), q.hashP \subseteq 1..Len(q.pn), HashPOK(q.pn, q.hashP), NEW new
  PROVE  Found(q, new, FindPNode(q, new.sym, new.start, new.skip))
<1> DEFINE xs == {x \in q.hashP : /\ q.pn[x].sym = new.sym
                                  /\ q.pn[x].start = new.start /\ q.pn[x].skip = new.skip}
           y == CHOOSE x \in xs : TRUE
           old == FindPNode(q, new.sym, new.start, new.skip)
<1>0. Len(q.pn) \in Nat
  BY SeqFacts DEF PNodesOK
<1>1. old = IF xs = {} THEN 0 ELSE Latests(q.pn)[y]
  <2>1. old = IF xs = {} THEN 0 ELSE Latest(q, y)
    BY DEF FindPNode
  <2> HIDE DEF xs, y, old
  <2> QED
    BY <2>1, LatestIs
<1>4. \A x : x \in xs <=> x \in q.hashP /\ SameSpan(q.pn[x], new)
  BY DEF SameSpan
<1> HIDE DEF xs
<1>2. CASE xs = {}
  BY <1>0, <1>1, <1>2, <1>4 DEF Found
<1>3. CASE xs # {}
  <2>1. y \in q.hashP /\ SameSpan(q.pn[y], new) /\ y \in 1..Len(q.pn)
    BY <1>3, <1>4
  <2>2. old = Latests(q.pn)[y]
    BY <1>1, <1>3
  <2> HIDE DEF y, old
  <2>3. old \in 1..Len(q.pn) /\ q.pn[old].latest = old /\ SameSpan(q.pn[y], q.pn[old])
    BY <2>1, <2>2, LatestOK
  <2>4. SameSpan(q.pn[old], new)
    BY <2>1, <2>3 DEF SameSpan
  <2>5. ASSUME NEW x \in q.hashP, SameSpan(q.pn[x], new) PROVE Latests(q.pn)[x] = old
    BY <2>1, <2>2, <2>5 DEF HashPOK, SameSpan
  <2>6. old \in 0..Len(q.pn) /\ old # 0
    BY <1>0, <2>3
  <2> QED
    BY <2>3, <2>4, <2>5, <2>6 DEF Found, old
<1> QED
  BY <1>2, <1>3

\* The hash after new has become the last PNode and the latest version of old, if there
\* is one; new itself need not be in the hash.
LEMMA HashPKeeps ==
  ASSUME NEW n, NEW q, PNodesOK(n, q.pn), q.hashP \subseteq 1..Len(q.pn), HashPOK(q.pn, q.hashP),
         NEW new, NEW old, Found(q, new, old), NEW pn2, PNodesOK(n, pn2), GrownForest(q.pn, pn2),
         Len(pn2) = Len(q.pn) + 1, SameSpan(pn2[Len(pn2)], new), pn2[Len(pn2)].latest = Len(pn2), Versioned(q.pn, pn2, old)
  PROVE  HashPOK(pn2, q.hashP \cup {Len(pn2)})
<1> DEFINE id == Len(pn2)
           f == Latests(q.pn)
           h == Latests(pn2)
<1>0. Len(q.pn) \in Nat /\ id \in Nat /\ id \in 1..id
  BY SeqFacts DEF PNodesOK
<1>1. \A x \in 1..Len(q.pn) : h[x] = IF f[x] = old THEN id ELSE f[x]
  BY LatestChange
<1>2. h[id] = id
  BY <1>0, LatestStep
<1> HIDE DEF f, h
<1>3. \A x \in q.hashP : SameSpan(q.pn[x], pn2[x]) /\ h[x] = IF f[x] = old THEN id ELSE f[x]
  BY <1>1 DEF GrownForest
<1>4. ASSUME NEW x \in q.hashP, SameSpan(pn2[x], pn2[id]) PROVE h[x] = id
  <2>1. SameSpan(q.pn[x], new)
    BY <1>3, <1>4 DEF SameSpan
  <2>2. f[x] = old
    BY <2>1 DEF Found, f
  <2> QED
    BY <1>3, <2>2
<1>5. ASSUME NEW x \in q.hashP, NEW y \in q.hashP, SameSpan(pn2[x], pn2[y]) PROVE h[x] = h[y]
  <2>1. SameSpan(q.pn[x], q.pn[y])
    BY <1>3, <1>5 DEF SameSpan
  <2>2. f[x] = f[y]
    BY <2>1 DEF HashPOK, f
  <2> QED
    BY <1>3, <2>2
<1>6. ASSUME NEW x \in q.hashP \cup {id}, NEW y \in q.hashP \cup {id}, SameSpan(pn2[x], pn2[y]) PROVE h[x] = h[y]
  <2>1. SameSpan(pn2[y], pn2[x])
    BY <1>6 DEF SameSpan
  <2>2. CASE x \in q.hashP /\ y \in q.hashP
    BY <1>5, <1>6, <2>2
  <2>3. CASE x = id /\ y \in q.hashP
    BY <1>2, <1>4, <2>1, <2>3
  <2>4. CASE x \in q.hashP /\ y = id
    BY <1>2, <1>4, <1>6, <2>4
  <2>5. CASE x = id /\ y = id
    BY <2>5
  <2> QED
    BY <2>2, <2>3, <2>4, <2>5
<1> QED
  BY <1>6 DEF HashPOK, h

-----------------------------------------------------------------------------
(* The alternatives of a span.                                             *)

SameRule(v, w) == v.red = w.red /\ v.kids = w.kids /\ (v.term <=> w.term)

\* PNodes of a forest that is versioned have the same latest version only if they had it before.
LEMMA LatestsApart ==
  ASSUME NEW n, NEW pn, NEW pn2, PNodesOK(n, pn), PNodesOK(n, pn2), NEW by, Versioned(pn, pn2, by),
         by \in 0..Len(pn), NEW x \in 1..Len(pn), NEW y \in 1..Len(pn), Latests(pn2)[x] = Latests(pn2)[y]
  PROVE  Latests(pn)[x] = Latests(pn)[y]
<1> DEFINE f == Latests(pn)
           h == Latests(pn2)
<1>1. Len(pn) \in Nat /\ Len(pn2) \in Nat
  BY SeqFacts DEF PNodesOK
<1>2. f[x] \in 1..Len(pn) /\ f[y] \in 1..Len(pn)
  BY LatestOK
<1>3. h[x] = (IF f[x] = by THEN Len(pn2) ELSE f[x]) /\ h[y] = (IF f[y] = by THEN Len(pn2) ELSE f[y])
  BY LatestChange
<1> HIDE DEF f, h
<1>4. CASE by = 0
  <2>1. f[x] # by /\ f[y] # by
    BY <1>2, <1>4
  <2>2. h[x] = h[y]
    BY DEF h
  <2>3. f[x] = f[y]
    BY <1>3, <2>1, <2>2
  <2> QED
    BY <2>3 DEF f
<1>5. CASE by \in 1..Len(pn)
  <2>1. Len(pn) < Len(pn2)
    BY <1>5 DEF Versioned
  <2>2. f[x] # Len(pn2) /\ f[y] # Len(pn2) /\ h[x] = h[y]
    BY <1>1, <1>2, <2>1 DEF h
  <2>3. f[x] = f[y]
    BY <1>3, <2>2
  <2> QED
    BY <2>3 DEF f
<1> QED
  BY <1>1, <1>4, <1>5

\* The children of a PNode are PNodes.
LEMMA KidsInRange ==
  ASSUME NEW n, NEW pn, PNodesOK(n, pn), NEW y \in 1..Len(pn)
  PROVE  Len(pn[y].kids) \in Nat /\ \A k \in 1..Len(pn[y].kids) : pn[y].kids[k] \in 1..Len(pn)
<1>1. IsSeq(pn[y].kids) /\ ToSet(pn[y].kids) \subseteq 1..Len(pn)
  BY DEF PNodesOK, PNodeOK
<1>2. DOMAIN pn[y].kids = 1..Len(pn[y].kids) /\ Len(pn[y].kids) \in Nat
  BY <1>1, SeqFacts
<1> QED
  BY <1>1, <1>2 DEF ToSet

\* PNodes that are built alike were so before.
LEMMA BuiltBefore ==
  ASSUME NEW n, NEW pn, NEW pn2, PNodesOK(n, pn), PNodesOK(n, pn2), NEW by, Versioned(pn, pn2, by),
         by \in 0..Len(pn), NEW y \in 1..Len(pn), NEW z \in 1..Len(pn),
         SameRule(pn[y], pn2[y]), SameRule(pn[z], pn2[z]), SameBuilt(pn2, y, z)
  PROVE  SameBuilt(pn, y, z)
<1>1. /\ pn2[y].red = pn[y].red /\ pn2[y].kids = pn[y].kids
      /\ pn2[z].red = pn[z].red /\ pn2[z].kids = pn[z].kids
  BY DEF SameRule
<1>2. /\ pn2[y].red = pn2[z].red /\ Len(pn2[y].kids) = Len(pn2[z].kids)
      /\ \A k \in 1..Len(pn2[y].kids) : Latests(pn2)[pn2[y].kids[k]] = Latests(pn2)[pn2[z].kids[k]]
  BY DEF SameBuilt
<1>3. ASSUME NEW k \in 1..Len(pn[y].kids) PROVE Latests(pn)[pn[y].kids[k]] = Latests(pn)[pn[z].kids[k]]
  <2>1. pn[y].kids[k] \in 1..Len(pn) /\ pn[z].kids[k] \in 1..Len(pn)
    BY <1>1, <1>2, KidsInRange
  <2>2. Latests(pn2)[pn[y].kids[k]] = Latests(pn2)[pn[z].kids[k]]
    BY <1>1, <1>2
  <2> QED
    BY SMTT(30), <2>1, <2>2, LatestsApart
<1> QED
  BY <1>1, <1>2, <1>3 DEF SameBuilt

\* pn2 is pn with one PNode more, which is one more alternative of the PNode joins, if
\* that is one.
OneMore(T, pn, pn2, joins) ==
  LET id == Len(pn) + 1
  IN  /\ \A y \in 1..Len(pn) : SameRule(pn[y], pn2[y])
      /\ \A y \in 1..Len(pn) : ToSet(pn2[y].amb) = ToSet(pn[y].amb) \cup (IF y = joins THEN {id} ELSE {})
      /\ pn2[id].amb = <<>> /\ (pn2[id].term <=> pn2[id].sym \in DOMAIN T.spell)
      /\ joins \in 1..Len(pn) => /\ pn2[id].sym = pn[joins].sym
                                 /\ \A y \in Alts(pn, joins) : ~SameBuilt(pn2, y, id)

\* The alternatives stay different when one is added that none of them is built like.
LEMMA ForestGrows ==
  ASSUME NEW T, NEW n, NEW pn, NEW pn2, PNodesOK(n, pn), PNodesOK(n, pn2), ForestOK(T, pn), GrownForest(pn, pn2),
         Len(pn2) = Len(pn) + 1, NEW by, Versioned(pn, pn2, by), by \in 0..Len(pn),
         NEW joins, OneMore(T, pn, pn2, joins)
  PROVE  ForestOK(T, pn2)
<1> DEFINE len == Len(pn)
           id == len + 1
<1>1. len \in Nat /\ id \notin 1..len /\ \A x \in 1..id : x \in 1..len \/ x = id
  BY SeqFacts DEF PNodesOK
<1>2. \A y \in 1..len : SameRule(pn[y], pn2[y]) /\ pn2[y].sym = pn[y].sym
  BY DEF OneMore, GrownForest, SameSpan
<1>3. \A x \in 1..len : ToSet(pn2[x].amb) = ToSet(pn[x].amb) \cup (IF x = joins THEN {id} ELSE {})
  BY DEF OneMore
<1>4. \A x \in 1..len : ToSet(pn[x].amb) \subseteq 1..len
  BY DEF PNodesOK, PNodeOK
<1>5. joins \in 1..len => pn2[id].sym = pn[joins].sym /\ \A y \in Alts(pn, joins) : ~SameBuilt(pn2, y, id)
  BY DEF OneMore
<1>6. ToSet(pn2[id].amb) = {} /\ (pn2[id].term <=> pn2[id].sym \in DOMAIN T.spell)
  BY EmptyFacts DEF OneMore
<1> HIDE DEF id
<1>7. ASSUME NEW x \in 1..len PROVE pn2[x].term <=> pn2[x].sym \in DOMAIN T.spell
  <2>1. pn[x].term <=> pn[x].sym \in DOMAIN T.spell
    BY DEF ForestOK
  <2>2. (pn[x].term <=> pn2[x].term) /\ pn2[x].sym = pn[x].sym
    BY <1>2 DEF SameRule
  <2> QED
    BY <2>1, <2>2
<1>8. ASSUME NEW x \in 1..len, NEW y \in ToSet(pn2[x].amb) PROVE pn2[y].sym = pn2[x].sym
  <2>1. CASE y \in ToSet(pn[x].amb)
    BY <1>2, <1>4, <2>1 DEF ForestOK
  <2>2. CASE y = id /\ x = joins
    BY <1>2, <1>5, <2>2
  <2> QED
    BY <1>3, <1>8, <2>1, <2>2
<1>9. ASSUME NEW x \in 1..len, NEW y \in Alts(pn2, x), NEW z \in Alts(pn2, x), SameBuilt(pn2, y, z) PROVE y = z
  <2>1. \A w \in Alts(pn2, x) : w \in Alts(pn, x) \/ (w = id /\ x = joins)
    BY <1>3 DEF Alts
  <2>2. \A w \in Alts(pn, x) : w \in 1..len
    BY <1>4 DEF Alts
  <2>3. SameBuilt(pn2, z, y)
    BY <1>9 DEF SameBuilt
  <2>4. CASE y \in Alts(pn, x) /\ z \in Alts(pn, x)
    <3>1. y \in 1..len /\ z \in 1..len
      BY <2>2, <2>4
    <3>2. SameRule(pn[y], pn2[y]) /\ SameRule(pn[z], pn2[z])
      BY <1>2, <3>1
    <3>3. SameBuilt(pn, y, z)
      BY <1>9, <3>1, <3>2, BuiltBefore
    <3> QED
      BY <2>4, <3>3 DEF ForestOK
  <2>5. CASE y \in Alts(pn, x) /\ z = id /\ x = joins
    BY <1>5, <1>9, <2>5
  <2>6. CASE y = id /\ x = joins /\ z \in Alts(pn, x)
    BY <1>5, <2>3, <2>6
  <2>7. CASE y = id /\ z = id
    BY <2>7
  <2> QED
    BY <2>1, <2>4, <2>5, <2>6, <2>7
<1>10. ASSUME NEW x \in 1..Len(pn2)
       PROVE  /\ pn2[x].term <=> pn2[x].sym \in DOMAIN T.spell
              /\ \A y \in ToSet(pn2[x].amb) : pn2[y].sym = pn2[x].sym
              /\ \A y, z \in Alts(pn2, x) : SameBuilt(pn2, y, z) => y = z
  <2>1. CASE x \in 1..len
    BY <1>7, <1>8, <1>9, <2>1
  <2>2. CASE x = id
    BY <1>6, <2>2 DEF Alts
  <2> QED
    BY <1>1, <2>1, <2>2 DEF id
<1> QED
  BY <1>10 DEF ForestOK

\* A PNode that PNode_equal tells from the new one is not built like it.
LEMMA NewIsUnlike ==
  ASSUME NEW T, NEW text, NEW q, PNodesOK(Len(text), q.pn), ForestOK(T, q.pn), NEW new, NewPNode(T, text, q, new),
         NEW old \in 1..Len(q.pn), q.pn[old].sym = new.sym, NEW y \in Alts(q.pn, old), ~PNodeEqual(q, y, new),
         NEW pn2, PNodesOK(Len(text), pn2), Len(pn2) = Len(q.pn) + 1, pn2[Len(q.pn) + 1] = new,
         NEW by, Versioned(q.pn, pn2, by), by \in 0..Len(q.pn), SameRule(q.pn[y], pn2[y])
  PROVE  ~SameBuilt(pn2, y, Len(q.pn) + 1)
<1>1. SUFFICES ASSUME SameBuilt(pn2, y, Len(q.pn) + 1) PROVE PNodeEqual(q, y, new)
  OBVIOUS
<1>2. y \in 1..Len(q.pn) /\ q.pn[y].sym = new.sym
  BY DEF Alts, ForestOK, PNodesOK, PNodeOK
<1>3. q.pn[y].term <=> new.term
  BY <1>2 DEF ForestOK, NewPNode
<1>4. pn2[y].red = q.pn[y].red /\ pn2[y].kids = q.pn[y].kids
  BY DEF SameRule
<1>5. /\ q.pn[y].red = new.red /\ Len(q.pn[y].kids) = Len(new.kids)
      /\ \A k \in 1..Len(new.kids) : Latests(pn2)[q.pn[y].kids[k]] = Latests(pn2)[new.kids[k]]
  BY <1>1, <1>4 DEF SameBuilt
<1>6. DOMAIN new.kids = 1..Len(new.kids)
  BY SeqFacts DEF NewPNode, PNodeOK
<1>7. ASSUME NEW k \in DOMAIN new.kids PROVE Latest(q, q.pn[y].kids[k]) = Latest(q, new.kids[k])
  <2>1. q.pn[y].kids[k] \in 1..Len(q.pn)
    BY <1>2, <1>5, <1>6, KidsInRange
  <2>2. new.kids[k] \in 1..Len(q.pn)
    BY DEF NewPNode, ToSet
  <2>3. Latests(pn2)[q.pn[y].kids[k]] = Latests(pn2)[new.kids[k]]
    BY <1>5, <1>6
  <2>4. Latests(q.pn)[q.pn[y].kids[k]] = Latests(q.pn)[new.kids[k]]
    <3> DEFINE pn == q.pn
               a == q.pn[y].kids[k]
               b == new.kids[k]
    <3>1. /\ PNodesOK(Len(text), pn) /\ PNodesOK(Len(text), pn2) /\ Versioned(pn, pn2, by) /\ by \in 0..Len(pn)
          /\ a \in 1..Len(pn) /\ b \in 1..Len(pn) /\ Latests(pn2)[a] = Latests(pn2)[b]
      BY <2>1, <2>2, <2>3
    <3> HIDE DEF pn, a, b
    <3>2. Latests(pn)[a] = Latests(pn)[b]
      BY ONLY <3>1, LatestsApart
    <3> QED
      BY <3>2 DEF pn, a, b
  <2> QED
    BY <2>4, LatestIs
<1>8. CASE new.term
  BY <1>3, <1>8 DEF PNodeEqual
<1>9. CASE ~new.term
  BY <1>3, <1>5, <1>7, <1>9 DEF PNodeEqual
<1> QED
  BY <1>8, <1>9

WithAmb(v, amb) == [v EXCEPT !.amb = amb]
WithLatest(v, id) == [v EXCEPT !.latest = id]

\* A PNode with other ambiguities.
LEMMA WithAmbOK ==
  ASSUME NEW n, NEW np, NEW v, PNodeOK(n, np, v), NEW amb, IsSeq(amb), ToSet(amb) \subseteq 1..np
  PROVE  LET w == WithAmb(v, amb)
         IN  /\ PNodeOK(n, np, w) /\ SameSpan(v, w) /\ w.end = v.end /\ w.latest = v.latest
             /\ SameRule(v, w) /\ w.amb = amb
<1> DEFINE w == WithAmb(v, amb)
<1>0. w = [v EXCEPT !.amb = amb]
  BY DEF WithAmb
<1> HIDE DEF w
<1>1. v = [sym |-> v.sym, start |-> v.start, end |-> v.end, skip |-> v.skip, term |-> v.term, red |-> v.red,
           kids |-> v.kids, assoc |-> v.assoc, prio |-> v.prio, opAssoc |-> v.opAssoc, opPrio |-> v.opPrio,
           height |-> v.height, latest |-> v.latest, amb |-> v.amb]
  BY DEF PNodeOK
<1>2. /\ w.sym = v.sym /\ w.start = v.start /\ w.end = v.end /\ w.skip = v.skip /\ w.kids = v.kids
      /\ w.latest = v.latest /\ w.amb = amb /\ w.red = v.red /\ w.term = v.term
  BY <1>0, <1>1
<1>3. w = [sym |-> w.sym, start |-> w.start, end |-> w.end, skip |-> w.skip, term |-> w.term, red |-> w.red,
           kids |-> w.kids, assoc |-> w.assoc, prio |-> w.prio, opAssoc |-> w.opAssoc, opPrio |-> w.opPrio,
           height |-> w.height, latest |-> w.latest, amb |-> w.amb]
  BY <1>0, <1>1
<1>4. PNodeOK(n, np, w)
  BY <1>2, <1>3 DEF PNodeOK
<1> QED
  BY <1>2, <1>4 DEF w, SameSpan, SameRule

\* A PNode with another latest version.
LEMMA WithLatestOK ==
  ASSUME NEW n, NEW np, NEW v, PNodeOK(n, np, v), NEW id
  PROVE  LET w == WithLatest(v, id)
         IN  /\ PNodeOK(n, np, w) /\ SameSpan(v, w) /\ w.end = v.end /\ w.latest = id
             /\ SameRule(v, w) /\ w.amb = v.amb
<1> DEFINE w == WithLatest(v, id)
<1>0. w = [v EXCEPT !.latest = id]
  BY DEF WithLatest
<1> HIDE DEF w
<1>1. v = [sym |-> v.sym, start |-> v.start, end |-> v.end, skip |-> v.skip, term |-> v.term, red |-> v.red,
           kids |-> v.kids, assoc |-> v.assoc, prio |-> v.prio, opAssoc |-> v.opAssoc, opPrio |-> v.opPrio,
           height |-> v.height, latest |-> v.latest, amb |-> v.amb]
  BY DEF PNodeOK
<1>2. /\ w.sym = v.sym /\ w.start = v.start /\ w.end = v.end /\ w.skip = v.skip /\ w.kids = v.kids
      /\ w.latest = id /\ w.amb = v.amb /\ w.red = v.red /\ w.term = v.term
  BY <1>0, <1>1
<1>3. w = [sym |-> w.sym, start |-> w.start, end |-> w.end, skip |-> w.skip, term |-> w.term, red |-> w.red,
           kids |-> w.kids, assoc |-> w.assoc, prio |-> w.prio, opAssoc |-> w.opAssoc, opPrio |-> w.opPrio,
           height |-> w.height, latest |-> w.latest, amb |-> w.amb]
  BY <1>0, <1>1
<1>4. PNodeOK(n, np, w)
  BY <1>2, <1>3 DEF PNodeOK
<1> QED
  BY <1>2, <1>4 DEF w, SameSpan, SameRule

\* What add_PNode returns: the parser and the PNode of the span of new.
Added(T, text, q, new, a) ==
  /\ Whole(T, text, a[1]) /\ SameStack(q, a[1]) /\ GrownForest(q.pn, a[1].pn)
  /\ a[2] \in 0..Len(a[1].pn) /\ (a[2] # 0 => SameSpan(new, a[1].pn[a[2]]))

\* The PNode new of u is a new alternative of the PNode joins, if that is one.
JoinsIn(q, u, new, joins) ==
  /\ joins \in 1..Len(q.pn) => \A y \in Alts(q.pn, joins) : ~PNodeEqual(q, y, new)
  /\ \A y \in 1..Len(q.pn) :
       ToSet(u.pn[y].amb) = ToSet(q.pn[y].amb) \cup (IF y = joins THEN {Len(q.pn) + 1} ELSE {})

\* The three ways a forest takes in one more PNode.
LEMMA ForestExtended ==
  ASSUME NEW T, NEW text, NEW q, Whole(T, text, q),
         NEW new, NewPNode(T, text, q, new), NEW old, Found(q, new, old), NEW u, IsParser(u), SameStack(q, u),
         IsSeq(u.pn), Len(u.pn) = Len(q.pn) + 1, u.pn[Len(q.pn) + 1] = new,
         \A y \in 1..Len(q.pn) : /\ PNodeOK(Len(text), Len(q.pn) + 1, u.pn[y])
                                 /\ SameSpan(q.pn[y], u.pn[y]) /\ u.pn[y].end = q.pn[y].end
                                 /\ SameRule(q.pn[y], u.pn[y]),
         NEW by \in {0, old}, Versioned(q.pn, u.pn, by),
         IF by = old THEN u.hashP = q.hashP \cup {Len(q.pn) + 1} ELSE u.hashP = q.hashP,
         NEW joins \in {0, old}, JoinsIn(q, u, new, joins)
  PROVE  Whole(T, text, u) /\ GrownForest(q.pn, u.pn) /\ Len(q.pn) + 1 \in 1..Len(u.pn)
<1>0. /\ PNodesOK(Len(text), q.pn) /\ q.hashP \subseteq 1..Len(q.pn) /\ HashPOK(q.pn, q.hashP) /\ ParserOK(T, text, q)
      /\ ForestOK(T, q.pn) /\ PNodeOK(Len(text), Len(q.pn) + 1, new) /\ new.latest = Len(q.pn) + 1
  BY DEF Whole, ParserOK, NewPNode
<1>1. Len(q.pn) \in Nat /\ Len(q.pn) + 1 \in 1..Len(u.pn) /\ 0 \notin 1..Len(q.pn) /\ by \in 0..Len(q.pn)
  BY <1>0, ParserFacts DEF Found
<1>2. by \in 1..Len(q.pn) => SameSpan(q.pn[by], u.pn[Len(q.pn) + 1])
  BY <1>1 DEF Found
<1>3. PNodesOK(Len(text), u.pn) /\ GrownForest(q.pn, u.pn)
  BY <1>0, <1>2, PNodesExtended
<1>7. ForestOK(T, u.pn)
  <2>1. ASSUME joins \in 1..Len(q.pn)
        PROVE  new.sym = q.pn[joins].sym /\ \A y \in Alts(q.pn, joins) : ~SameBuilt(u.pn, y, Len(q.pn) + 1)
    <3>1. joins = old /\ old # 0
      BY <1>1, <2>1
    <3>2. q.pn[joins].sym = new.sym
      BY <3>1 DEF Found, SameSpan
    <3>3. SUFFICES ASSUME NEW y \in Alts(q.pn, joins) PROVE ~SameBuilt(u.pn, y, Len(q.pn) + 1)
      BY <3>2
    <3>4. y \in 1..Len(q.pn)
      BY <1>0, <2>1 DEF Alts, PNodesOK, PNodeOK
    <3>5. SameRule(q.pn[y], u.pn[y]) /\ ~PNodeEqual(q, y, new)
      BY <2>1, <3>4 DEF JoinsIn
    <3> DEFINE pn2 == u.pn
    <3>6. /\ PNodesOK(Len(text), pn2) /\ Len(pn2) = Len(q.pn) + 1 /\ pn2[Len(q.pn) + 1] = new
          /\ Versioned(q.pn, pn2, by) /\ SameRule(q.pn[y], pn2[y])
      BY <1>3, <3>5
    <3> HIDE DEF pn2
    <3>7. ~SameBuilt(pn2, y, Len(q.pn) + 1)
      BY <1>0, <1>1, <2>1, <3>2, <3>5, <3>6, NewIsUnlike
    <3> QED
      BY <3>7 DEF pn2
  <2>2. new.amb = <<>> /\ (new.term <=> new.sym \in DOMAIN T.spell)
    BY DEF NewPNode
  <2>3. OneMore(T, q.pn, u.pn, joins)
    BY <2>1, <2>2 DEF OneMore, JoinsIn
  <2> DEFINE pn == q.pn
             pn2 == u.pn
  <2>4. /\ PNodesOK(Len(text), pn) /\ PNodesOK(Len(text), pn2) /\ ForestOK(T, pn) /\ GrownForest(pn, pn2)
        /\ Len(pn2) = Len(pn) + 1 /\ Versioned(pn, pn2, by) /\ by \in 0..Len(pn) /\ OneMore(T, pn, pn2, joins)
    BY <1>0, <1>1, <1>3, <2>3
  <2> HIDE DEF pn, pn2
  <2>5. ForestOK(T, pn2)
    BY ONLY <2>4, ForestGrows
  <2> QED
    BY <2>5 DEF pn2
<1>4. u.hashP \subseteq 1..Len(u.pn)
  BY <1>0, <1>1
<1>5. ParserOK(T, text, u)
  BY <1>0, <1>3, <1>4, ForestKeeps
<1>6. HashPOK(u.pn, u.hashP)
  <2>1. CASE by = old
    <3>1. SameSpan(u.pn[Len(u.pn)], new) /\ u.pn[Len(u.pn)].latest = Len(u.pn) /\ u.hashP = q.hashP \cup {Len(u.pn)}
      BY <1>0, <2>1 DEF SameSpan
    <3>2. Versioned(q.pn, u.pn, old)
      BY <2>1
    <3>3. HashPOK(u.pn, q.hashP \cup {Len(u.pn)})
      BY <1>0, <1>3, <3>1, <3>2, HashPKeeps
    <3> QED
      BY <3>1, <3>3
  <2>2. CASE by # old
    <3>1. by = 0 /\ u.hashP = q.hashP
      BY <2>2
    <3>2. \A x \in 1..Len(q.pn) : Latests(u.pn)[x] = IF Latests(q.pn)[x] = by THEN Len(u.pn) ELSE Latests(q.pn)[x]
      BY <1>0, <1>3, LatestChange
    <3>3. \A x \in 1..Len(q.pn) : Latests(q.pn)[x] \in 1..Len(q.pn)
      BY <1>0, LatestOK
    <3>4. \A x \in q.hashP : Latests(u.pn)[x] = Latests(q.pn)[x] /\ SameSpan(q.pn[x], u.pn[x])
      BY <1>0, <1>1, <3>1, <3>2, <3>3
    <3> QED
      BY <1>0, <3>1, <3>4 DEF HashPOK, SameSpan
  <2> QED
    BY <2>1, <2>2
<1> QED
  BY <1>1, <1>3, <1>5, <1>6, <1>7 DEF Whole

WithForest(q, pn, hashP) == [q EXCEPT !.pn = pn, !.hashP = hashP]

\* A parser with another forest has its other fields.
LEMMA WithForestOK ==
  ASSUME NEW q, IsParser(q), NEW pn, NEW hashP
  PROVE  LET u == WithForest(q, pn, hashP)
         IN  IsParser(u) /\ SameStack(q, u) /\ u.pn = pn /\ u.hashP = hashP
<1> DEFINE u == WithForest(q, pn, hashP)
<1>1. u = [q EXCEPT !.pn = pn, !.hashP = hashP]
  BY DEF WithForest
<1> HIDE DEF u
<1>2. q = [t |-> q.t, sn |-> q.sn, zn |-> q.zn, pn |-> q.pn, hashS |-> q.hashS, hashP |-> q.hashP,
           lastS |-> q.lastS, todo |-> q.todo, shifts |-> q.shifts, accept |-> q.accept, epos |-> q.epos]
  BY DEF IsParser
<1>3. u = [t |-> u.t, sn |-> u.sn, zn |-> u.zn, pn |-> u.pn, hashS |-> u.hashS, hashP |-> u.hashP,
           lastS |-> u.lastS, todo |-> u.todo, shifts |-> u.shifts, accept |-> u.accept, epos |-> u.epos]
  BY <1>1, <1>2
<1>4. /\ u.pn = pn /\ u.hashP = hashP
      /\ u.t = q.t /\ u.sn = q.sn /\ u.zn = q.zn /\ u.hashS = q.hashS /\ u.todo = q.todo /\ u.shifts = q.shifts
      /\ u.accept = q.accept /\ u.epos = q.epos
  BY <1>1, <1>2
<1> QED
  BY <1>3, <1>4 DEF u, IsParser, SameStack

\* add_PNode keeps the invariant, whether the new PNode is dropped, ranked or added.
LEMMA AddPNodeOK ==
  ASSUME NEW T, NEW text, NEW q, Whole(T, text, q), NEW new, NewPNode(T, text, q, new)
  PROVE  Added(T, text, q, new, AddPNode(q, new))
<1> DEFINE n == Len(text)
           len == Len(q.pn)
           id == len + 1
           old == FindPNode(q, new.sym, new.start, new.skip)
           pn == Append(q.pn, new)
           with == [q EXCEPT !.pn = pn]
<1>0. /\ PNodesOK(n, q.pn) /\ q.hashP \subseteq 1..len /\ HashPOK(q.pn, q.hashP) /\ ParserOK(T, text, q)
      /\ IsParser(q) /\ IsSeq(q.pn) /\ PNodeOK(n, id, new) /\ new.latest = id
  BY DEF Whole, ParserOK, PNodesOK, NewPNode
<1>1. len \in Nat /\ id \in Nat /\ id # 0 /\ len <= id
  BY <1>0, ParserFacts
<1>2. Found(q, new, old)
  BY <1>0, FindPNodeOK
<1>3. IsSeq(pn) /\ Len(pn) = id /\ pn[id] = new /\ \A y \in 1..len : pn[y] = q.pn[y]
  BY <1>0, AppendFacts
<1>4. ASSUME NEW y \in 1..len PROVE PNodeOK(n, id, pn[y]) /\ SameSpan(q.pn[y], pn[y]) /\ pn[y].end = q.pn[y].end
  <2>1. PNodeOK(n, len, q.pn[y]) /\ pn[y] = q.pn[y]
    BY <1>0, <1>3 DEF PNodesOK
  <2> HIDE DEF pn, id
  <2> QED
    BY <1>1, <2>1, PNodeGrows DEF SameSpan
<1>5. \/ AddPNode(q, new) = <<q, old>>
      \/ old = 0 /\ AddPNode(q, new) = <<InsertPNode(q, new), id>>
      \/ /\ old # 0 /\ AddPNode(q, new) = TakeIn(with, id, old, CmpPNodes(with, id, old))
         /\ \A y \in Alts(q.pn, old) : ~PNodeEqual(q, y, new)
  BY DEF AddPNode, AddPNodeTo, Alts
<1> HIDE DEF old, pn
<1>6. old \in 0..len /\ (old # 0 => old \in 1..len /\ q.pn[old].latest = old /\ SameSpan(q.pn[old], new))
  BY <1>1, <1>2 DEF Found
<1>7. CASE AddPNode(q, new) = <<q, old>>
  <2>1. GrownForest(q.pn, q.pn)
    BY <1>1 DEF GrownForest, SameSpan
  <2>2. old # 0 => SameSpan(new, q.pn[old])
    BY <1>6 DEF SameSpan
  <2>3. <<q, old>>[1] = q /\ <<q, old>>[2] = old
    OBVIOUS
  <2> QED
    BY <1>6, <1>7, <2>1, <2>2, <2>3 DEF Added, SameStack
<1>8. CASE old = 0 /\ AddPNode(q, new) = <<InsertPNode(q, new), id>>
  <2> DEFINE u == InsertPNode(q, new)
  <2>0. u = WithForest(q, pn, q.hashP \cup {id})
    BY <1>0 DEF InsertPNode, IsParser, WithForest, pn
  <2>1. IsParser(u) /\ SameStack(q, u) /\ u.pn = pn /\ u.hashP = q.hashP \cup {id}
    BY <1>0, <2>0, WithForestOK
  <2> HIDE DEF u
  <2>2. Versioned(q.pn, u.pn, 0)
    BY <1>1, <1>3, <2>1 DEF Versioned
  <2>3. /\ IsSeq(u.pn) /\ Len(u.pn) = Len(q.pn) + 1 /\ u.pn[Len(q.pn) + 1] = new
        /\ \A y \in 1..Len(q.pn) : /\ PNodeOK(Len(text), Len(q.pn) + 1, u.pn[y])
                                    /\ SameSpan(q.pn[y], u.pn[y]) /\ u.pn[y].end = q.pn[y].end
                                    /\ SameRule(q.pn[y], u.pn[y])
    BY <1>3, <1>4, <2>1 DEF SameRule
  <2>4. Found(q, new, 0) /\ u.hashP = q.hashP \cup {Len(q.pn) + 1}
    BY <1>2, <1>8, <2>1
  <2>8. JoinsIn(q, u, new, 0)
    BY <1>1, <1>3, <2>1 DEF JoinsIn
  <2>5. Whole(T, text, u) /\ GrownForest(q.pn, u.pn) /\ id \in 1..Len(u.pn)
    BY <2>1, <2>2, <2>3, <2>4, <2>8, ForestExtended
  <2>6. SameSpan(new, u.pn[id]) /\ id \in 0..Len(u.pn)
    BY <1>1, <2>3, <2>5 DEF SameSpan
  <2>7. <<u, id>>[1] = u /\ <<u, id>>[2] = id /\ AddPNode(q, new) = <<u, id>>
    BY <1>8 DEF u
  <2> HIDE DEF id
  <2> QED
    BY <2>1, <2>5, <2>6, <2>7 DEF Added
<1>9. CASE /\ old # 0 /\ AddPNode(q, new) = TakeIn(with, id, old, CmpPNodes(with, id, old))
           /\ \A y \in Alts(q.pn, old) : ~PNodeEqual(q, y, new)
  <2> DEFINE rank == CmpPNodes(with, id, old)
             amb == <<id>> \o pn[old].amb
             pn1 == [pn EXCEPT ![old] = WithAmb(pn[old], amb)]
             pn2 == [pn EXCEPT ![old] = WithLatest(pn[old], id)]
             u1 == WithForest(q, pn1, q.hashP)
             u2 == WithForest(q, pn2, q.hashP \cup {id})
             u3 == WithForest(q, SubSeq(pn, 1, id - 1), q.hashP)
  <2>0. old \in 1..len /\ q.pn[old].latest = old /\ SameSpan(q.pn[old], new)
    BY <1>6, <1>9
  <2>1. old \in 1..id /\ old \in DOMAIN pn /\ old # id
    BY <1>1, <1>3, <2>0, SeqFacts
  <2>2. AddPNode(q, new) \in {<<u1, old>>, <<u2, id>>, <<u3, old>>}
    <3>1. with = WithForest(q, pn, q.hashP) /\ with.pn = pn /\ with.hashP = q.hashP
      BY <1>0 DEF IsParser, WithForest
    <3>2. /\ [with EXCEPT !.pn = pn1] = u1
          /\ [with EXCEPT !.hashP = q.hashP \cup {id}, !.pn = pn2] = u2
          /\ [with EXCEPT !.pn = SubSeq(pn, 1, id - 1)] = u3
      <4> HIDE DEF pn1, pn2
      <4> QED
        BY <1>0 DEF IsParser, WithForest
    <3>3. /\ [with EXCEPT !.pn[old].amb = <<id>> \o @] = [with EXCEPT !.pn = pn1]
          /\ [with EXCEPT !.hashP = @ \cup {id}, !.pn[old].latest = id] = [with EXCEPT !.hashP = q.hashP \cup {id}, !.pn = pn2]
      BY <3>1 DEF WithAmb, WithLatest
    <3> HIDE DEF with, rank, u1, u2, u3, pn1, pn2
    <3>4. TakeIn(with, id, old, rank) \in {<<u1, old>>, <<u2, id>>, <<u3, old>>}
      BY <3>1, <3>2, <3>3 DEF TakeIn
    <3> QED
      BY <1>9, <3>4 DEF rank
  <2>3. PNodeOK(n, id, pn[old]) /\ SameSpan(q.pn[old], pn[old]) /\ pn[old].end = q.pn[old].end /\ pn[old].latest = old
    <3>1. PNodeOK(n, id, pn[old]) /\ SameSpan(q.pn[old], pn[old]) /\ pn[old].end = q.pn[old].end
      BY <1>4, <2>0
    <3>2. pn[old] = q.pn[old]
      BY <1>3, <2>0
    <3> QED
      BY <2>0, <3>1, <3>2
  <2>4. IsSeq(amb) /\ ToSet(amb) \subseteq 1..id /\ ToSet(amb) = ToSet(q.pn[old].amb) \cup {id}
    <3>1. IsSeq(pn[old].amb) /\ ToSet(pn[old].amb) \subseteq 1..id
      BY <2>3 DEF PNodeOK
    <3>2. IsSeq(<<id>>) /\ ToSet(<<id>>) = {id} /\ id \in 1..id
      BY <1>1, SingleFacts
    <3>3. IsSeq(amb) /\ ToSet(amb) = ToSet(<<id>>) \cup ToSet(pn[old].amb)
      BY <3>1, <3>2, ConcatFacts
    <3>4. pn[old] = q.pn[old]
      BY <1>3, <2>0
    <3> HIDE DEF amb, id
    <3> QED
      BY <3>1, <3>2, <3>3, <3>4
  <2> HIDE DEF amb
  <2>5. CASE AddPNode(q, new) = <<u1, old>>
    <3> DEFINE v == WithAmb(pn[old], amb)
    <3>1. /\ PNodeOK(n, id, v) /\ SameSpan(pn[old], v) /\ v.end = pn[old].end /\ v.latest = pn[old].latest
          /\ SameRule(pn[old], v) /\ v.amb = amb
      <4> HIDE DEF id
      <4> QED
        BY <2>3, <2>4, WithAmbOK
    <3> HIDE DEF v
    <3>2. IsSeq(pn1) /\ Len(pn1) = id /\ pn1[old] = v /\ \A y \in 1..id : y # old => pn1[y] = pn[y]
      <4>1. IsSeq(pn) /\ old \in 1..Len(pn)
        BY <1>3, <2>1
      <4>2. IsSeq(pn1) /\ Len(pn1) = Len(pn) /\ pn1[old] = v /\ \A y \in 1..Len(pn) : y # old => pn1[y] = pn[y]
        BY <4>1, ExceptFacts DEF v
      <4> QED
        BY <1>3, <4>2
    <3> HIDE DEF pn1
    <3>3. IsParser(u1) /\ SameStack(q, u1) /\ u1.pn = pn1 /\ u1.hashP = q.hashP
      BY <1>0, WithForestOK
    <3> HIDE DEF u1
    <3>4. \A y \in 1..Len(q.pn) : /\ PNodeOK(Len(text), Len(q.pn) + 1, u1.pn[y]) /\ u1.pn[y].latest = q.pn[y].latest
                                  /\ SameSpan(q.pn[y], u1.pn[y]) /\ u1.pn[y].end = q.pn[y].end
                                  /\ SameRule(q.pn[y], u1.pn[y])
                                  /\ ToSet(u1.pn[y].amb) = ToSet(q.pn[y].amb) \cup (IF y = old THEN {Len(q.pn) + 1} ELSE {})
      <4>1. SUFFICES ASSUME NEW y \in 1..len
                     PROVE  /\ PNodeOK(n, id, pn1[y]) /\ pn1[y].latest = q.pn[y].latest
                            /\ SameSpan(q.pn[y], pn1[y]) /\ pn1[y].end = q.pn[y].end
                            /\ SameRule(q.pn[y], pn1[y])
                            /\ ToSet(pn1[y].amb) = ToSet(q.pn[y].amb) \cup (IF y = old THEN {id} ELSE {})
        BY <3>3
      <4>2. PNodeOK(n, id, pn[y]) /\ SameSpan(q.pn[y], pn[y]) /\ pn[y].end = q.pn[y].end /\ pn[y] = q.pn[y]
        BY <1>3, <1>4
      <4>3. y \in 1..id
        BY <1>1
      <4>4. CASE y = old
        <5>1. pn1[y] = v /\ q.pn[y] = pn[old] /\ ToSet(v.amb) = ToSet(q.pn[y].amb) \cup {id}
          BY <2>4, <3>1, <3>2, <4>2, <4>4
        <5> HIDE DEF id
        <5> QED
          BY <2>0, <2>3, <3>1, <4>4, <5>1
      <4>5. CASE y # old
        <5>1. pn1[y] = q.pn[y]
          BY <3>2, <4>2, <4>3, <4>5
        <5> HIDE DEF id
        <5> QED
          BY <4>2, <4>5, <5>1 DEF SameRule, SameSpan
      <4> QED
        BY <4>4, <4>5
    <3>5. IsSeq(u1.pn) /\ Len(u1.pn) = Len(q.pn) + 1 /\ u1.pn[Len(q.pn) + 1] = new
      BY <1>1, <1>3, <2>1, <3>2, <3>3
    <3>6. Versioned(q.pn, u1.pn, 0)
      BY <1>1, <3>4, <3>5 DEF Versioned
    <3>7. IF 0 = old THEN u1.hashP = q.hashP \cup {Len(q.pn) + 1} ELSE u1.hashP = q.hashP
      BY <1>9, <3>3
    <3>11. \A y \in 1..Len(q.pn) : /\ PNodeOK(Len(text), Len(q.pn) + 1, u1.pn[y])
                                   /\ SameSpan(q.pn[y], u1.pn[y]) /\ u1.pn[y].end = q.pn[y].end
                                   /\ SameRule(q.pn[y], u1.pn[y])
      BY <3>4
    <3>12. JoinsIn(q, u1, new, old)
      BY <1>9, <3>4 DEF JoinsIn
    <3>8. Whole(T, text, u1) /\ GrownForest(q.pn, u1.pn)
      BY <1>2, <3>3, <3>5, <3>6, <3>7, <3>11, <3>12, ForestExtended
    <3>9. old \in 0..Len(u1.pn) /\ SameSpan(new, u1.pn[old])
      <4>1. SameSpan(q.pn[old], u1.pn[old])
        BY <2>0, <3>4
      <4> QED
        BY <1>1, <2>0, <3>5, <4>1 DEF SameSpan
    <3>10. <<u1, old>>[1] = u1 /\ <<u1, old>>[2] = old
      OBVIOUS
    <3> QED
      BY <2>5, <3>3, <3>8, <3>9, <3>10 DEF Added
  <2>6. CASE AddPNode(q, new) = <<u2, id>>
    <3> DEFINE v == WithLatest(pn[old], id)
    <3>1. /\ PNodeOK(n, id, v) /\ SameSpan(pn[old], v) /\ v.end = pn[old].end /\ v.latest = id
          /\ SameRule(pn[old], v) /\ v.amb = pn[old].amb
      <4> HIDE DEF id
      <4> QED
        BY <2>3, WithLatestOK
    <3> HIDE DEF v
    <3>2. IsSeq(pn2) /\ Len(pn2) = id /\ pn2[old] = v /\ \A y \in 1..id : y # old => pn2[y] = pn[y]
      <4>1. IsSeq(pn) /\ old \in 1..Len(pn)
        BY <1>3, <2>1
      <4>2. IsSeq(pn2) /\ Len(pn2) = Len(pn) /\ pn2[old] = v /\ \A y \in 1..Len(pn) : y # old => pn2[y] = pn[y]
        BY <4>1, ExceptFacts DEF v
      <4> QED
        BY <1>3, <4>2
    <3> HIDE DEF pn2
    <3>3. IsParser(u2) /\ SameStack(q, u2) /\ u2.pn = pn2 /\ u2.hashP = q.hashP \cup {id}
      BY <1>0, WithForestOK
    <3> HIDE DEF u2
    <3>4. \A y \in 1..Len(q.pn) : /\ PNodeOK(Len(text), Len(q.pn) + 1, u2.pn[y])
                                  /\ u2.pn[y].latest = (IF y = old THEN id ELSE q.pn[y].latest)
                                  /\ SameSpan(q.pn[y], u2.pn[y]) /\ u2.pn[y].end = q.pn[y].end
                                  /\ SameRule(q.pn[y], u2.pn[y]) /\ u2.pn[y].amb = q.pn[y].amb
      <4>1. SUFFICES ASSUME NEW y \in 1..len
                     PROVE  /\ PNodeOK(n, id, pn2[y]) /\ pn2[y].latest = (IF y = old THEN id ELSE q.pn[y].latest)
                            /\ SameSpan(q.pn[y], pn2[y]) /\ pn2[y].end = q.pn[y].end
                            /\ SameRule(q.pn[y], pn2[y]) /\ pn2[y].amb = q.pn[y].amb
        BY <3>3
      <4>2. PNodeOK(n, id, pn[y]) /\ SameSpan(q.pn[y], pn[y]) /\ pn[y].end = q.pn[y].end /\ pn[y] = q.pn[y]
        BY <1>3, <1>4
      <4>3. y \in 1..id
        BY <1>1
      <4>4. CASE y = old
        BY <2>0, <2>3, <3>1, <3>2, <4>2, <4>4 DEF SameSpan
      <4>5. CASE y # old
        BY <3>2, <4>2, <4>3, <4>5 DEF SameRule
      <4> QED
        BY <4>4, <4>5
    <3>5. IsSeq(u2.pn) /\ Len(u2.pn) = Len(q.pn) + 1 /\ u2.pn[Len(q.pn) + 1] = new
      BY <1>1, <1>3, <2>1, <3>2, <3>3
    <3>6. Versioned(q.pn, u2.pn, old)
      BY <1>0, <1>1, <2>0, <3>4, <3>5 DEF Versioned
    <3>7. u2.hashP = q.hashP \cup {Len(q.pn) + 1}
      BY <3>3
    <3>11. JoinsIn(q, u2, new, 0)
      BY <1>1, <3>4 DEF JoinsIn
    <3>8. Whole(T, text, u2) /\ GrownForest(q.pn, u2.pn) /\ id \in 1..Len(u2.pn)
      BY <1>2, <3>3, <3>4, <3>5, <3>6, <3>7, <3>11, ForestExtended
    <3>9. id \in 0..Len(u2.pn) /\ SameSpan(new, u2.pn[id])
      BY <1>1, <3>5 DEF SameSpan
    <3>10. <<u2, id>>[1] = u2 /\ <<u2, id>>[2] = id
      OBVIOUS
    <3> HIDE DEF id
    <3> QED
      BY <2>6, <3>3, <3>8, <3>9, <3>10 DEF Added
  <2>7. CASE AddPNode(q, new) = <<u3, old>>
    <3>1. SubSeq(pn, 1, id - 1) = q.pn
      <4> DEFINE r == SubSeq(pn, 1, len)
      <4>1. IsSeq(r) /\ Len(r) = len /\ \A y \in 1..len : r[y] = pn[y]
        <5>1. 1 \in 1..(Len(pn) + 1) /\ len \in 0..Len(pn)
          BY <1>1, <1>3
        <5>2. /\ IsSeq(r) /\ Len(r) = (IF 1 <= len THEN len - 1 + 1 ELSE 0)
              /\ \A y \in 1..(len - 1 + 1) : r[y] = pn[1 + y - 1]
          BY <1>3, <5>1, SubSeqFacts
        <5> QED
          BY <1>1, <5>2
      <4> HIDE DEF r
      <4>2. r = q.pn
        BY <1>0, <1>3, <4>1, SameSeq
      <4> QED
        BY <1>1, <4>2 DEF r
    <3>2. u3 = q
      BY <1>0, <3>1 DEF WithForest, IsParser
    <3>3. GrownForest(q.pn, q.pn)
      BY <1>1 DEF GrownForest, SameSpan
    <3>4. SameSpan(new, q.pn[old]) /\ old \in 0..len
      BY <1>1, <2>0 DEF SameSpan
    <3>5. <<q, old>>[1] = q /\ <<q, old>>[2] = old
      OBVIOUS
    <3> QED
      BY <2>7, <3>2, <3>3, <3>4, <3>5 DEF Added, SameStack
  <2> QED
    BY <2>2, <2>5, <2>6, <2>7
<1> QED
  BY <1>5, <1>7, <1>8, <1>9
=============================================================================

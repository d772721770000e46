------------------------------ MODULE GLRProofs ------------------------------
(***************************************************************************)
(* Theorems about GLR.  The parser stays well formed, with one live node   *)
(* per state and one latest PNode per symbol and span, and its work lists  *)
(* in order; and the stack behind its nodes implements GSS.                *)
(*                                                                         *)
(* A step of the engine is a fold over paths or tokens, each making a      *)
(* PNode and following its gotos, and what an earlier one adds is there    *)
(* for a later one to read.  So the steps of a fold are shown to add links *)
(* out of one set A, the links that the tables justify on the stack as it  *)
(* was before the fold.                                                    *)
(***************************************************************************)
EXTENDS GLRNodes

-----------------------------------------------------------------------------
(* The links of a parser that grows.                                       *)

Grows(q, u) ==
  u.t = q.t /\ u.epos = q.epos /\ Grown(q.sn, u.sn) /\ GrownLinks(q.zn, u.zn) /\ GrownForest(q.pn, u.pn)

\* Every node is on the stack.
Rooted(root, q) == \A s \in 1..Len(q.sn) : Node(q, s) = root \/ \E e \in LinksOf(q) : e[3] = Node(q, s)

\* To have the same symbol and span is an equivalence.
LEMMA SameSpanTrans ==
  ASSUME NEW v, NEW w, NEW x, SameSpan(v, w), SameSpan(w, x)
  PROVE  SameSpan(v, x) /\ SameSpan(w, v)
BY DEF SameSpan

\* A forest that grows twice has grown.
LEMMA GrownForestTrans ==
  ASSUME NEW a, NEW b, NEW c, GrownForest(a, b), GrownForest(b, c)
  PROVE  GrownForest(a, c)
<1>1. ASSUME NEW x \in 1..Len(a) PROVE SameSpan(a[x], c[x]) /\ c[x].end = a[x].end
  <2>1. x \in 1..Len(b) /\ SameSpan(a[x], b[x]) /\ b[x].end = a[x].end
    BY DEF GrownForest
  <2>2. SameSpan(b[x], c[x]) /\ c[x].end = b[x].end
    BY <2>1 DEF GrownForest
  <2> QED
    BY <2>1, <2>2, SameSpanTrans
<1>2. Len(a) \in Nat /\ Len(c) \in Nat /\ Len(a) <= Len(c)
  BY DEF GrownForest
<1> QED
  BY <1>1, <1>2 DEF GrownForest

\* A parser that grows twice has grown.
LEMMA GrowsTrans ==
  ASSUME NEW a, NEW b, NEW c, Grows(a, b), Grows(b, c)
  PROVE  Grows(a, c)
<1>1. Grown(a.sn, c.sn)
  BY GrownTrans DEF Grows
<1>2. GrownLinks(a.zn, c.zn)
  BY GrownLinksTrans DEF Grows
<1>3. GrownForest(a.pn, c.pn)
  BY GrownForestTrans DEF Grows
<1> QED
  BY <1>1, <1>2, <1>3 DEF Grows

\* A parser grows if its stack and its forest stay as they are.
LEMMA GrowsRefl ==
  ASSUME NEW T, NEW text, NEW q, ParserOK(T, text, q), NEW u,
         u.t = q.t, u.epos = q.epos, u.sn = q.sn, u.zn = q.zn, u.pn = q.pn
  PROVE  Grows(q, u)
<1>1. Len(q.sn) \in Nat /\ Len(q.zn) \in Nat /\ Len(q.pn) \in Nat
  BY ParserFacts
<1>2. Grown(q.sn, u.sn)
  BY <1>1 DEF Grown
<1>3. GrownLinks(q.zn, u.zn)
  BY <1>1 DEF GrownLinks
<1>4. GrownForest(q.pn, u.pn)
  BY <1>1 DEF GrownForest, SameSpan
<1> QED
  BY <1>2, <1>3, <1>4 DEF Grows

\* The links of the stack, one by one.
LEMMA InLinks ==
  ASSUME NEW q, IsSeq(q.sn), NEW e
  PROVE  e \in LinksOf(q) <=> \E s, z, b : IsLink(q, s, z, b) /\ e = LinkOf(q, s, z, b)
<1>1. DOMAIN q.sn = 1..Len(q.sn)
  BY SeqFacts
<1>2. ASSUME e \in LinksOf(q) PROVE \E s, z, b : IsLink(q, s, z, b) /\ e = LinkOf(q, s, z, b)
  <2>1. PICK s \in DOMAIN q.sn : e \in UNION {{LinkOf(q, s, z, b) : b \in ToSet(q.zn[z].sns)} : z \in ToSet(q.sn[s].zns)}
    BY <1>2 DEF LinksOf
  <2>2. PICK z \in ToSet(q.sn[s].zns) : e \in {LinkOf(q, s, z, b) : b \in ToSet(q.zn[z].sns)}
    BY <2>1
  <2>3. PICK b \in ToSet(q.zn[z].sns) : e = LinkOf(q, s, z, b)
    BY <2>2
  <2> QED
    BY <1>1, <2>3 DEF IsLink
<1>3. ASSUME NEW s, NEW z, NEW b, IsLink(q, s, z, b) PROVE LinkOf(q, s, z, b) \in LinksOf(q)
  <2>1. s \in DOMAIN q.sn /\ z \in ToSet(q.sn[s].zns) /\ b \in ToSet(q.zn[z].sns)
    BY <1>1, <1>3 DEF IsLink
  <2>2. LinkOf(q, s, z, b) \in {LinkOf(q, s, z, c) : c \in ToSet(q.zn[z].sns)}
    BY <2>1
  <2>3. LinkOf(q, s, z, b) \in UNION {{LinkOf(q, s, y, c) : c \in ToSet(q.zn[y].sns)} : y \in ToSet(q.sn[s].zns)}
    BY <2>1, <2>2
  <2> QED
    BY <2>1, <2>3 DEF LinksOf
<1> QED
  BY <1>2, <1>3

\* The nodes of a link are in range.
LEMMA LinkRange ==
  ASSUME NEW T, NEW text, NEW q, ParserOK(T, text, q), NEW s, NEW z, NEW b, IsLink(q, s, z, b)
  PROVE  s \in 1..Len(q.sn) /\ z \in 1..Len(q.zn) /\ b \in 1..Len(q.sn) /\ q.zn[z].pn \in 1..Len(q.pn)
<1>1. s \in 1..Len(q.sn) /\ z \in ToSet(q.sn[s].zns) /\ b \in ToSet(q.zn[z].sns)
  BY DEF IsLink
<1>2. Len(text) \in Nat /\ SNodeOK(T, Len(text), Len(q.zn), Len(q.pn), q.sn[s])
  BY <1>1, ParserFacts
<1>3. z \in 1..Len(q.zn)
  BY <1>1, <1>2, SNodeFacts
<1>4. ZNodeOK(Len(q.sn), Len(q.pn), q.zn[z])
  BY <1>3, ParserFacts
<1> QED
  BY <1>1, <1>3, <1>4 DEF ZNodeOK

\* Nodes keep their states and locations when a parser grows.
LEMMA NodeKept ==
  ASSUME NEW q, NEW u, Grown(q.sn, u.sn), NEW s \in 1..Len(q.sn)
  PROVE  s \in 1..Len(u.sn) /\ Node(u, s) = Node(q, s)
BY DEF Grown, Node, StateOf, Loc

\* So links are kept as they are.
LEMMA LinkKept ==
  ASSUME NEW T, NEW text, NEW q, ParserOK(T, text, q), NEW u, Grows(q, u),
         NEW s, NEW z, NEW b, IsLink(q, s, z, b)
  PROVE  IsLink(u, s, z, b) /\ LinkOf(u, s, z, b) = LinkOf(q, s, z, b)
<1>1. s \in 1..Len(q.sn) /\ z \in 1..Len(q.zn) /\ b \in 1..Len(q.sn) /\ q.zn[z].pn \in 1..Len(q.pn)
  BY LinkRange
<1>2. Grown(q.sn, u.sn) /\ GrownLinks(q.zn, u.zn) /\ GrownForest(q.pn, u.pn)
  BY DEF Grows
<1>3. /\ s \in 1..Len(u.sn) /\ Node(u, s) = Node(q, s) /\ Node(u, b) = Node(q, b)
      /\ ToSet(q.sn[s].zns) \subseteq ToSet(u.sn[s].zns)
  <2>1. Node(u, s) = Node(q, s) /\ Node(u, b) = Node(q, b) /\ s \in 1..Len(u.sn)
    BY <1>1, <1>2, NodeKept
  <2>2. ToSet(q.sn[s].zns) \subseteq ToSet(u.sn[s].zns)
    <3>1. Grown(q.sn, u.sn) /\ s \in 1..Len(q.sn)
      BY <1>1, <1>2
    <3> QED
      BY <3>1 DEF Grown
  <2> QED
    BY <2>1, <2>2
<1>4. u.zn[z].pn = q.zn[z].pn /\ ToSet(q.zn[z].sns) \subseteq ToSet(u.zn[z].sns)
  BY <1>1, <1>2 DEF GrownLinks
<1>5. u.pn[q.zn[z].pn].sym = q.pn[q.zn[z].pn].sym
  BY <1>1, <1>2 DEF GrownForest, SameSpan
<1>6. IsLink(u, s, z, b)
  BY <1>3, <1>4 DEF IsLink
<1>7. LinkOf(u, s, z, b) = LinkOf(q, s, z, b)
  BY <1>3, <1>4, <1>5 DEF LinkOf
<1> QED
  BY <1>6, <1>7

\* A parser that grows has its links and perhaps more.
LEMMA LinksKept ==
  ASSUME NEW T, NEW text, NEW q, ParserOK(T, text, q), NEW u, Grows(q, u), IsSeq(u.sn)
  PROVE  LinksOf(q) \subseteq LinksOf(u)
<1>1. IsSeq(q.sn)
  BY ParserFacts
<1>2. SUFFICES ASSUME NEW e \in LinksOf(q) PROVE e \in LinksOf(u)
  OBVIOUS
<1>3. PICK s, z, b : IsLink(q, s, z, b) /\ e = LinkOf(q, s, z, b)
  BY <1>1, InLinks
<1>4. IsLink(u, s, z, b) /\ LinkOf(u, s, z, b) = e
  BY <1>3, LinkKept
<1> QED
  BY <1>4, InLinks

\* A link between nodes of the parser.
LEMMA LinkEnds ==
  ASSUME NEW T, NEW text, NEW q, ParserOK(T, text, q), NEW e \in LinksOf(q)
  PROVE  /\ \E s \in 1..Len(q.sn) : e[3] = Node(q, s)
         /\ \E b \in 1..Len(q.sn) : e[1] = Node(q, b)
<1>1. PICK s, z, b : IsLink(q, s, z, b) /\ e = LinkOf(q, s, z, b)
  BY InLinks, ParserFacts
<1>2. s \in 1..Len(q.sn) /\ b \in 1..Len(q.sn)
  BY <1>1, LinkRange
<1>3. e[1] = Node(q, b) /\ e[3] = Node(q, s)
  BY <1>1 DEF LinkOf
<1> QED
  BY <1>2, <1>3

\* A parser that has the same stack has the same links.
LEMMA SameStackLinks ==
  ASSUME NEW T, NEW text, NEW q, ParserOK(T, text, q), NEW u, ParserOK(T, text, u),
         u.t = q.t, u.epos = q.epos, u.sn = q.sn, u.zn = q.zn, GrownForest(q.pn, u.pn)
  PROVE  /\ Grows(q, u) /\ LinksOf(u) = LinksOf(q)
         /\ \A root : Rooted(root, q) => Rooted(root, u)
<1>1. Len(q.sn) \in Nat /\ Len(q.zn) \in Nat /\ Len(q.pn) \in Nat /\ IsSeq(q.sn) /\ IsSeq(u.sn)
  BY ParserFacts
<1>2. Grown(q.sn, u.sn) /\ GrownLinks(q.zn, u.zn)
  BY <1>1 DEF Grown, GrownLinks
<1>3. Grows(q, u)
  BY <1>2 DEF Grows
<1>4. LinksOf(q) \subseteq LinksOf(u)
  BY <1>1, <1>3, LinksKept
<1>5. ASSUME NEW e \in LinksOf(u) PROVE e \in LinksOf(q)
  <2>1. PICK s, z, b : IsLink(u, s, z, b) /\ e = LinkOf(u, s, z, b)
    BY <1>1, InLinks
  <2>2. IsLink(q, s, z, b)
    BY <2>1 DEF IsLink
  <2>3. LinkOf(u, s, z, b) = LinkOf(q, s, z, b)
    BY <1>3, <2>2, LinkKept
  <2> QED
    BY <1>1, <2>1, <2>2, <2>3, InLinks
<1>6. LinksOf(u) = LinksOf(q)
  BY <1>4, <1>5
<1>7. ASSUME NEW root, Rooted(root, q) PROVE Rooted(root, u)
  BY <1>6, <1>7 DEF Rooted, Node, StateOf, Loc
<1> QED
  BY <1>3, <1>6, <1>7

-----------------------------------------------------------------------------
(* What a step of the engine keeps: from q, whose links only grow, to u,   *)
(* whose links are among the set A.                                        *)

Kept(T, text, root, q, A, u) ==
  Whole(T, text, u) /\ Grows(q, u) /\ LinksOf(u) \subseteq A /\ Rooted(root, u)

\* The goto of a PNode adds the link of this symbol from ps to loc, if there is a goto.
LinkUp(u, x, ps, loc) == <<Node(u, ps), u.pn[x].sym, <<u.t.goto[u.sn[ps].state][u.pn[x].sym], loc>>>>
GoesOn(u, x, ps) == u.t.goto[u.sn[ps].state][u.pn[x].sym] # 0

\* PNode x of u can be linked from ps to loc.
CanFollow(T, text, u, x, ps, loc) ==
  /\ x \in 1..Len(u.pn) /\ HasColumn(T, u.pn[x].sym) /\ Lands(T, text, u.epos, u.pn[x].sym, loc)
  /\ loc \in 0..Len(text) /\ u.epos <= loc /\ u.pn[x].skip <= loc
  /\ ps \in 1..Len(u.sn) /\ u.pn[x].start = u.sn[ps].loc

\* goto_PNode adds a link out of A, if that is the one the goto makes.
LEMMA GotoLinks ==
  ASSUME NEW T, TableOK(T), GotoOK(T), NEW text, NEW root, NEW q, NEW A, NEW u, Kept(T, text, root, q, A, u),
         NEW x, NEW ps, NEW loc, CanFollow(T, text, u, x, ps, loc), GoesOn(u, x, ps) => LinkUp(u, x, ps, loc) \in A
  PROVE  LET w == GotoPNode(u, loc, x, ps)
         IN  Kept(T, text, root, q, A, w) /\ Grows(u, w)
<1> DEFINE to == T.goto[u.sn[ps].state][u.pn[x].sym]
           w == GotoPNode(u, loc, x, ps)
           e == LinkUp(u, x, ps, loc)
<1>1. /\ ParserOK(T, text, u) /\ HashPOK(u.pn, u.hashP) /\ ForestOK(T, u.pn)
      /\ Grows(q, u) /\ LinksOf(u) \subseteq A /\ Rooted(root, u)
  BY DEF Kept, Whole
<1>2. u.t = T
  BY SMTT(30), <1>1 DEF ParserOK
<1>3. /\ ParserOK(T, text, w) /\ SameForest(u, w) /\ Grown(u.sn, w.sn) /\ GrownLinks(u.zn, w.zn)
      /\ IF to = 0 THEN w = u ELSE Reaches(u, w, x, ps, to, loc)
  <2>1. /\ x \in 1..Len(u.pn) /\ ps \in 1..Len(u.sn) /\ loc \in 0..Len(text)
        /\ HasColumn(T, u.pn[x].sym) /\ Lands(T, text, u.epos, u.pn[x].sym, loc)
        /\ u.epos <= loc /\ u.pn[x].start = u.sn[ps].loc /\ u.pn[x].skip <= loc
    BY DEF CanFollow
  <2>2. ParserOK(T, text, u)
    BY <1>1
  <2> QED
    BY <2>1, <2>2, GotoPNodeOK
<1>4. e = <<Node(u, ps), u.pn[x].sym, <<to, loc>>>> /\ (to # 0 => e \in A)
  BY <1>2 DEF LinkUp, GoesOn
<1> HIDE DEF w, to, e
<1>5. IsSeq(u.sn) /\ IsSeq(w.sn) /\ Len(u.pn) \in Nat
  BY <1>1, <1>3, ParserFacts
<1>6. w.t = u.t /\ w.pn = u.pn /\ w.hashP = u.hashP /\ w.epos = u.epos
  BY <1>3 DEF SameForest
<1>7. GrownForest(u.pn, w.pn)
  BY <1>5, <1>6 DEF GrownForest, SameSpan
<1>8. Grows(u, w)
  BY <1>3, <1>6, <1>7 DEF Grows
<1>9. LinksOf(u) \subseteq LinksOf(w)
  BY <1>1, <1>5, <1>8, LinksKept
<1>10. LinksOf(w) \subseteq A /\ Rooted(root, w)
  <2>1. CASE to = 0
    BY <1>1, <1>3, <2>1
  <2>2. CASE to # 0
    <3>1. PICK s : /\ s \in 1..Len(w.sn) /\ w.sn[s].state = to /\ w.sn[s].loc = loc
                   /\ Linked(u, w, x, s, ps)
                   /\ \A t \in 1..Len(w.sn) : t \in 1..Len(u.sn) \/ (w.sn[t].state = to /\ w.sn[t].loc = loc)
      BY <1>3, <2>2 DEF Reaches
    <3>2. PICK z : z \in 1..Len(w.zn) /\ w.zn[z].pn = x /\ LinkAdded(u, w, s, z, ps)
      BY <3>1 DEF Linked
    <3>3. Node(w, s) = <<to, loc>> /\ Node(w, ps) = Node(u, ps)
      <4>1. ps \in 1..Len(u.sn)
        BY DEF CanFollow
      <4> QED
        BY <1>3, <3>1, <4>1, NodeKept DEF Node, StateOf, Loc
    <3>4. LinkOf(w, s, z, ps) = e
      BY <1>4, <1>6, <3>2, <3>3 DEF LinkOf
    <3>5. IsLink(w, s, z, ps)
      BY <3>2 DEF LinkAdded
    <3>6. e \in LinksOf(w)
      BY <1>5, <3>4, <3>5, InLinks
    <3>7. ASSUME NEW f \in LinksOf(w) PROVE f \in A
      <4>1. PICK t, y, c : IsLink(w, t, y, c) /\ f = LinkOf(w, t, y, c)
        BY <1>5, InLinks
      <4>2. CASE IsLink(u, t, y, c)
        <5>1. f = LinkOf(u, t, y, c)
          BY <1>1, <1>8, <4>1, <4>2, LinkKept
        <5>2. f \in LinksOf(u)
          BY <1>5, <4>2, <5>1, InLinks
        <5> QED
          BY <1>1, <5>2
      <4>3. CASE ~IsLink(u, t, y, c)
        <5>1. t = s /\ y = z /\ c = ps
          BY <3>2, <4>1, <4>3 DEF LinkAdded
        <5> QED
          BY <1>4, <2>2, <3>4, <4>1, <5>1
      <4> QED
        BY <4>2, <4>3
    <3>8. ASSUME NEW t \in 1..Len(w.sn) PROVE Node(w, t) = root \/ \E f \in LinksOf(w) : f[3] = Node(w, t)
      <4>1. CASE t \in 1..Len(u.sn)
        <5>1. Node(w, t) = Node(u, t)
          BY <1>3, <4>1, NodeKept
        <5>2. Node(u, t) = root \/ \E f \in LinksOf(u) : f[3] = Node(u, t)
          BY <1>1, <4>1 DEF Rooted
        <5> QED
          BY <1>9, <5>1, <5>2
      <4>2. CASE t \notin 1..Len(u.sn)
        <5>1. Node(w, t) = <<to, loc>>
          BY <3>1, <4>2 DEF Node, StateOf, Loc
        <5>2. e[3] = <<to, loc>>
          BY <1>4
        <5> QED
          BY <3>6, <5>1, <5>2
      <4> QED
        BY <4>1, <4>2
    <3> QED
      BY <3>7, <3>8 DEF Rooted
  <2> QED
    BY <2>1, <2>2
<1>11. Grows(q, w)
  BY <1>1, <1>8, GrowsTrans
<1>12. Whole(T, text, w)
  BY <1>1, <1>3, <1>6 DEF Whole
<1> QED
  BY <1>8, <1>10, <1>11, <1>12 DEF Kept, w

\* What a PNode can be linked to does not change when a parser grows.
LEMMA FollowGrows ==
  ASSUME NEW T, NEW text, NEW u, NEW w, Grows(u, w), NEW x, NEW ps, NEW loc, CanFollow(T, text, u, x, ps, loc)
  PROVE  /\ CanFollow(T, text, w, x, ps, loc) /\ LinkUp(w, x, ps, loc) = LinkUp(u, x, ps, loc)
         /\ GoesOn(w, x, ps) <=> GoesOn(u, x, ps)
<1>1. ps \in 1..Len(u.sn) /\ x \in 1..Len(u.pn)
  BY DEF CanFollow
<1>2. w.t = u.t /\ w.epos = u.epos /\ Grown(u.sn, w.sn) /\ GrownForest(u.pn, w.pn)
  BY DEF Grows
<1>3. /\ ps \in 1..Len(w.sn) /\ w.sn[ps].state = u.sn[ps].state /\ w.sn[ps].loc = u.sn[ps].loc
      /\ x \in 1..Len(w.pn) /\ w.pn[x].sym = u.pn[x].sym /\ w.pn[x].start = u.pn[x].start /\ w.pn[x].skip = u.pn[x].skip
  BY <1>1, <1>2 DEF Grown, GrownForest, SameSpan
<1>4. Node(w, ps) = Node(u, ps)
  BY <1>3 DEF Node, StateOf, Loc
<1>5. CanFollow(T, text, w, x, ps, loc)
  BY <1>2, <1>3 DEF CanFollow
<1> QED
  BY <1>2, <1>3, <1>4, <1>5 DEF LinkUp, GoesOn

GotoStep(loc, x, c, u, ps) == GotoPNode(u, loc, x, ps)
GotoHolds(d, u) == Kept(d[1], d[2], d[3], d[4], d[5], u) /\ Grows(d[6], u)
GotoFold == INSTANCE Folding WITH Step <- GotoStep, Holds <- GotoHolds

GotoEach(u, loc, x, nodes) == FoldSteps(LAMBDA w, ps : GotoPNode(w, loc, x, ps), u, nodes)

\* PNode x of u can be linked to loc from each of the nodes, by links among A.
CanFollowAll(T, text, A, u, x, loc, nodes) ==
  /\ IsSeq(nodes)
  /\ \A ps \in ToSet(nodes) : CanFollow(T, text, u, x, ps, loc) /\ (GoesOn(u, x, ps) => LinkUp(u, x, ps, loc) \in A)

\* The gotos of a PNode from all nodes it starts at.
LEMMA GotoEachOK ==
  ASSUME NEW T, TableOK(T), GotoOK(T), NEW text, NEW root, NEW q, NEW A, NEW u, Kept(T, text, root, q, A, u),
         NEW x, NEW loc, NEW nodes, CanFollowAll(T, text, A, u, x, loc, nodes)
  PROVE  Kept(T, text, root, q, A, GotoEach(u, loc, x, nodes))
<1> DEFINE d == <<T, text, root, q, A, u>>
<1>1. GotoEach(u, loc, x, nodes) = GotoFold!Values(loc, x, 0, u, nodes)[Len(nodes)]
  BY DEF GotoEach, GotoStep, GotoFold!Values, GotoFold!FoldsTo, FoldSteps
<1>2. Len(nodes) \in Nat /\ DOMAIN nodes = 1..Len(nodes)
  BY SeqFacts DEF CanFollowAll
<1>3. GotoHolds(d, u)
  <2>1. Grows(u, u)
    BY GrowsRefl DEF Kept, Whole
  <2> QED
    BY <2>1 DEF GotoHolds
<1>4. ASSUME NEW k \in 1..Len(nodes), NEW w, GotoHolds(d, w) PROVE GotoHolds(d, GotoStep(loc, x, 0, w, nodes[k]))
  <2> DEFINE ps == nodes[k]
             v == GotoPNode(w, loc, x, ps)
  <2>1. ps \in ToSet(nodes)
    BY <1>2 DEF ToSet
  <2>2. CanFollow(T, text, u, x, ps, loc) /\ (GoesOn(u, x, ps) => LinkUp(u, x, ps, loc) \in A)
    BY <2>1 DEF CanFollowAll
  <2>3. Kept(T, text, root, q, A, w) /\ Grows(u, w)
    BY <1>4 DEF GotoHolds
  <2> HIDE DEF ps
  <2>4. CanFollow(T, text, w, x, ps, loc) /\ (GoesOn(w, x, ps) => LinkUp(w, x, ps, loc) \in A)
    <3>1. /\ CanFollow(T, text, w, x, ps, loc) /\ LinkUp(w, x, ps, loc) = LinkUp(u, x, ps, loc)
          /\ GoesOn(w, x, ps) <=> GoesOn(u, x, ps)
      BY <2>2, <2>3, FollowGrows
    <3> QED
      BY <2>2, <3>1
  <2>5. Kept(T, text, root, q, A, v) /\ Grows(w, v)
    BY <2>3, <2>4, GotoLinks
  <2> HIDE DEF v
  <2>6. Grows(u, v)
    BY <2>3, <2>5, GrowsTrans
  <2>7. GotoHolds(d, v)
    BY <2>5, <2>6 DEF GotoHolds
  <2> QED
    BY <2>7 DEF GotoStep, v, ps
<1> HIDE DEF d
<1>5. GotoHolds(d, GotoFold!Values(loc, x, 0, u, nodes)[Len(nodes)])
  BY <1>2, <1>3, <1>4, GotoFold!FoldKeeps
<1> QED
  BY <1>1, <1>5 DEF d, GotoHolds

\* So for what add_PNode returns.
LEMMA GotoAllOK ==
  ASSUME NEW T, TableOK(T), GotoOK(T), NEW text, NEW root, NEW q, NEW A, NEW a, Kept(T, text, root, q, A, a[1]),
         NEW loc, NEW nodes, a[2] # 0 => CanFollowAll(T, text, A, a[1], a[2], loc, nodes)
  PROVE  Kept(T, text, root, q, A, GotoAll(a, loc, nodes))
<1>1. GotoAll(a, loc, nodes) = IF a[2] = 0 THEN a[1] ELSE GotoEach(a[1], loc, a[2], nodes)
  BY DEF GotoAll, GotoEach
<1>2. CASE a[2] = 0
  BY <1>1, <1>2
<1>3. CASE a[2] # 0
  <2>1. Kept(T, text, root, q, A, GotoEach(a[1], loc, a[2], nodes))
    BY <1>3, GotoEachOK
  <2> QED
    BY <1>1, <1>3, <2>1
<1> QED
  BY <1>2, <1>3

\* A new PNode, and the gotos it has from the nodes it starts at.
LinkWith(u, new, ps, loc) == <<Node(u, ps), new.sym, <<u.t.goto[u.sn[ps].state][new.sym], loc>>>>
CanLink(T, text, A, u, new, loc, nodes) ==
  /\ IsSeq(nodes) /\ ToSet(nodes) \subseteq 1..Len(u.sn)
  /\ HasColumn(T, new.sym) /\ Lands(T, text, u.epos, new.sym, loc)
  /\ loc \in 0..Len(text) /\ u.epos <= loc /\ new.skip <= loc
  /\ \A ps \in ToSet(nodes) : new.start = u.sn[ps].loc
  /\ \A ps \in ToSet(nodes) : u.t.goto[u.sn[ps].state][new.sym] # 0 => LinkWith(u, new, ps, loc) \in A

\* A PNode is made and its gotos are followed.
LEMMA AddAndGoto ==
  ASSUME NEW T, TableOK(T), GotoOK(T), NEW text, NEW root, NEW q, NEW A, NEW u, Kept(T, text, root, q, A, u),
         NEW new, NewPNode(T, text, u, new), NEW loc, NEW nodes, CanLink(T, text, A, u, new, loc, nodes)
  PROVE  Kept(T, text, root, q, A, GotoAll(AddPNode(u, new), loc, nodes))
<1> DEFINE a == AddPNode(u, new)
           w == a[1]
           x == a[2]
<1>1. Whole(T, text, u) /\ Grows(q, u) /\ LinksOf(u) \subseteq A /\ Rooted(root, u) /\ ParserOK(T, text, u)
  BY DEF Kept, Whole
<1>2. Added(T, text, u, new, a)
  BY <1>1, AddPNodeOK
<1> HIDE DEF a
<1>3. Whole(T, text, w) /\ ParserOK(T, text, w) /\ SameStack(u, w) /\ GrownForest(u.pn, w.pn)
  BY <1>2 DEF Added, Whole
<1>4. w.t = u.t /\ w.sn = u.sn /\ w.zn = u.zn /\ w.epos = u.epos
  BY <1>3 DEF SameStack
<1>5. Grows(u, w) /\ LinksOf(w) = LinksOf(u) /\ Rooted(root, w)
  BY <1>1, <1>3, <1>4, SameStackLinks
<1>6. Kept(T, text, root, q, A, w)
  <2>1. Grows(q, w)
    BY <1>1, <1>5, GrowsTrans
  <2> QED
    BY <1>1, <1>3, <1>5, <2>1 DEF Kept
<1>7. ASSUME x # 0 PROVE CanFollowAll(T, text, A, w, x, loc, nodes)
  <2>1. /\ x \in 1..Len(w.pn) /\ w.pn[x].sym = new.sym /\ w.pn[x].start = new.start /\ w.pn[x].skip = new.skip
    <3>1. x \in 0..Len(w.pn) /\ SameSpan(new, w.pn[x]) /\ Len(w.pn) \in Nat
      BY <1>2, <1>3, <1>7 DEF Added, GrownForest
    <3> HIDE DEF x, w
    <3> QED
      BY <1>7, <3>1 DEF SameSpan
  <2> HIDE DEF x, w
  <2>2. IsSeq(nodes)
    BY DEF CanLink
  <2>3. ASSUME NEW ps \in ToSet(nodes)
        PROVE  CanFollow(T, text, w, x, ps, loc) /\ (GoesOn(w, x, ps) => LinkUp(w, x, ps, loc) \in A)
    <3>1. CanFollow(T, text, w, x, ps, loc)
      BY <1>4, <2>1 DEF CanFollow, CanLink
    <3>2. Node(w, ps) = Node(u, ps)
      BY <1>4 DEF Node, StateOf, Loc
    <3>3. LinkUp(w, x, ps, loc) = LinkWith(u, new, ps, loc)
      BY SMTT(30), <1>4, <2>1, <3>2 DEF LinkUp, LinkWith
    <3>4. GoesOn(w, x, ps) => LinkWith(u, new, ps, loc) \in A
      BY <1>4, <2>1 DEF GoesOn, CanLink
    <3> QED
      BY <3>1, <3>3, <3>4
  <2> QED
    BY <2>2, <2>3 DEF CanFollowAll
<1> QED
  BY <1>6, <1>7, GotoAllOK DEF a

-----------------------------------------------------------------------------
(* The paths that are reduced.                                             *)

\* path is a sequence of n ZNodes, each a link of a node that the one before it leads to.
PathOK(q, z, n, path) ==
  /\ IsSeq(path) /\ Len(path) = n /\ path[1] = z
  /\ \A k \in 1..(n - 1) : \E b \in ToSet(q.zn[path[k]].sns) : path[k + 1] \in ToSet(q.sn[b].zns)

\* What Below needs to know of a parser.
Traversed(q) ==
  /\ \A z \in 1..Len(q.zn) : IsSeq(q.zn[z].sns) /\ ToSet(q.zn[z].sns) \subseteq 1..Len(q.sn)
  /\ \A s \in 1..Len(q.sn) : IsSeq(q.sn[s].zns) /\ ToSet(q.sn[s].zns) \subseteq 1..Len(q.zn)

\* The invariant gives it.
LEMMA ParserTraversed ==
  ASSUME NEW T, NEW text, NEW q, ParserOK(T, text, q)
  PROVE  Traversed(q)
<1>1. ASSUME NEW z \in 1..Len(q.zn) PROVE IsSeq(q.zn[z].sns) /\ ToSet(q.zn[z].sns) \subseteq 1..Len(q.sn)
  BY ParserFacts DEF ZNodeOK
<1>2. ASSUME NEW s \in 1..Len(q.sn) PROVE IsSeq(q.sn[s].zns) /\ ToSet(q.sn[s].zns) \subseteq 1..Len(q.zn)
  BY ParserFacts, SNodeFacts
<1> QED
  BY <1>1, <1>2 DEF Traversed

\* The ZNodes below a ZNode.
LEMMA BelowOK ==
  ASSUME NEW q, Traversed(q), NEW z \in 1..Len(q.zn)
  PROVE  /\ IsSeq(Below(q, z))
         /\ \A y \in ToSet(Below(q, z)) : \E b \in ToSet(q.zn[z].sns) : y \in ToSet(q.sn[b].zns)
<1> DEFINE sns == q.zn[z].sns
           ss == [k \in DOMAIN sns |-> q.sn[sns[k]].zns]
<1>1. IsSeq(sns) /\ ToSet(sns) \subseteq 1..Len(q.sn)
  BY DEF Traversed
<1>2. DOMAIN sns = 1..Len(sns) /\ Len(sns) \in Nat
  BY <1>1, SeqFacts
<1>3. Below(q, z) = FlattenSeq(ss)
  BY DEF Below
<1>4. ss = [k \in 1..Len(sns) |-> ss[k]]
  BY <1>2
<1>5. \A k \in 1..Len(sns) : ss[k] = q.sn[sns[k]].zns /\ sns[k] \in ToSet(sns)
  BY <1>2 DEF ToSet
<1> HIDE DEF ss
<1>6. IsSeq(ss) /\ Len(ss) = Len(sns)
  BY <1>2, <1>4, FunctionIsSeq
<1>7. \A k \in 1..Len(ss) : IsSeq(ss[k])
  BY <1>1, <1>5, <1>6 DEF Traversed
<1>8. IsSeq(FlattenSeq(ss)) /\ ToSet(FlattenSeq(ss)) = UNION {ToSet(ss[k]) : k \in 1..Len(ss)}
  BY <1>6, <1>7, FlattenFacts
<1>9. ASSUME NEW y \in ToSet(Below(q, z)) PROVE \E b \in ToSet(sns) : y \in ToSet(q.sn[b].zns)
  <2>1. PICK k \in 1..Len(ss) : y \in ToSet(ss[k])
    BY <1>3, <1>8
  <2> QED
    BY <1>5, <1>6, <2>1
<1> QED
  BY <1>3, <1>8, <1>9

\* The ZNodes of a path are in range.
LEMMA PathInRange ==
  ASSUME NEW q, Traversed(q), NEW z \in 1..Len(q.zn), NEW n \in Nat, n > 0, NEW path, PathOK(q, z, n, path)
  PROVE  \A k \in 1..n : path[k] \in 1..Len(q.zn)
<1> DEFINE S == {m \in Nat : m + 1 <= n => path[m + 1] \in 1..Len(q.zn)}
<1>1. 0 \in S
  BY DEF PathOK
<1>2. ASSUME NEW m \in Nat, m \in S PROVE m + 1 \in S
  <2>1. SUFFICES ASSUME m + 1 + 1 <= n PROVE path[m + 1 + 1] \in 1..Len(q.zn)
    OBVIOUS
  <2>2. m + 1 \in 1..(n - 1) /\ path[m + 1] \in 1..Len(q.zn)
    BY <1>2, <2>1
  <2>3. PICK b \in ToSet(q.zn[path[m + 1]].sns) : path[m + 1 + 1] \in ToSet(q.sn[b].zns)
    BY <2>2 DEF PathOK
  <2>4. b \in 1..Len(q.sn)
    BY <2>2 DEF Traversed
  <2> QED
    BY <2>3, <2>4 DEF Traversed
<1>3. S \subseteq Nat
  OBVIOUS
<1> HIDE DEF S
<1>4. \A m \in Nat : m \in S
  BY <1>1, <1>2, <1>3, SetInduction
<1>5. ASSUME NEW k \in 1..n PROVE path[k] \in 1..Len(q.zn)
  <2>1. k - 1 \in Nat /\ k - 1 \in S /\ k - 1 + 1 = k
    BY <1>4
  <2> QED
    BY <2>1 DEF S
<1> QED
  BY <1>5

\* A path with one ZNode more.
LEMMA LengthenedOK ==
  ASSUME NEW q, Traversed(q), NEW z \in 1..Len(q.zn), NEW n \in Nat, n > 0, NEW path, PathOK(q, z, n, path)
  PROVE  /\ IsSeq(Lengthened(q, path))
         /\ \A i \in 1..Len(Lengthened(q, path)) : PathOK(q, z, n + 1, Lengthened(q, path)[i])
<1> DEFINE y == path[n]
           ys == Below(q, y)
           longer == [j \in DOMAIN ys |-> Append(path, ys[j])]
<1>1. IsSeq(path) /\ Len(path) = n /\ y \in 1..Len(q.zn) /\ n \in 1..n
  BY SMTT(30), PathInRange DEF PathOK
<1>2. Last(path) = y
  BY <1>1 DEF Last
<1>3. Lengthened(q, path) = longer
  BY <1>2 DEF Lengthened
<1> HIDE DEF y
<1>4. IsSeq(ys) /\ \A w \in ToSet(ys) : \E b \in ToSet(q.zn[y].sns) : w \in ToSet(q.sn[b].zns)
  BY <1>1, BelowOK
<1> HIDE DEF ys
<1>5. DOMAIN ys = 1..Len(ys) /\ Len(ys) \in Nat
  BY <1>4, SeqFacts
<1>6. longer = [j \in 1..Len(ys) |-> longer[j]] /\ \A j \in 1..Len(ys) : longer[j] = Append(path, ys[j])
  BY <1>5
<1> HIDE DEF longer
<1>7. IsSeq(longer) /\ Len(longer) = Len(ys)
  BY <1>5, <1>6, FunctionIsSeq
<1>8. ASSUME NEW j \in 1..Len(ys) PROVE PathOK(q, z, n + 1, longer[j])
  <2> DEFINE p2 == Append(path, ys[j])
  <2>1. IsSeq(p2) /\ Len(p2) = n + 1 /\ (\A k \in 1..n : p2[k] = path[k]) /\ p2[n + 1] = ys[j]
    BY <1>1, AppendFacts
  <2> HIDE DEF p2
  <2>2. p2[1] = z
    BY <1>1, <2>1 DEF PathOK
  <2>3. ASSUME NEW k \in 1..(n + 1 - 1) PROVE \E b \in ToSet(q.zn[p2[k]].sns) : p2[k + 1] \in ToSet(q.sn[b].zns)
    <3>1. CASE k = n
      <4>1. ys[j] \in ToSet(ys)
        BY <1>5 DEF ToSet
      <4>2. p2[k] = y /\ p2[k + 1] = ys[j]
        BY <1>1, <2>1, <3>1 DEF y
      <4> QED
        BY <1>4, <4>1, <4>2
    <3>2. CASE k # n
      <4>1. k \in 1..(n - 1) /\ p2[k] = path[k] /\ p2[k + 1] = path[k + 1]
        BY <2>1, <3>2
      <4> QED
        BY <4>1 DEF PathOK
    <3> QED
      BY <3>1, <3>2
  <2>4. longer[j] = p2
    BY <1>6 DEF p2
  <2> QED
    BY <2>1, <2>2, <2>3, <2>4 DEF PathOK
<1> QED
  BY <1>3, <1>7, <1>8

\* build_paths finds paths of the length of the rule.
PathsStep(q, b, c, paths, k) == FlattenSeq([i \in DOMAIN paths |-> Lengthened(q, paths[i])])
PathsHold(d, u) == TRUE
PathsFold == INSTANCE Folding WITH Step <- PathsStep, Holds <- PathsHold

ArePaths(q, z, n, paths) == IsSeq(paths) /\ \A i \in 1..Len(paths) : PathOK(q, z, n, paths[i])

\* All paths with one ZNode more.
LEMMA PathsLengthened ==
  ASSUME NEW q, Traversed(q), NEW z \in 1..Len(q.zn), NEW n \in Nat, n > 0, NEW paths, ArePaths(q, z, n, paths), NEW k
  PROVE  ArePaths(q, z, n + 1, PathsStep(q, 0, 0, paths, k))
<1> DEFINE ss == [i \in DOMAIN paths |-> Lengthened(q, paths[i])]
<1>1. IsSeq(paths) /\ DOMAIN paths = 1..Len(paths) /\ Len(paths) \in Nat
  BY SeqFacts DEF ArePaths
<1>2. PathsStep(q, 0, 0, paths, k) = FlattenSeq(ss)
  BY DEF PathsStep
<1>3. ss = [i \in 1..Len(paths) |-> ss[i]] /\ \A i \in 1..Len(paths) : ss[i] = Lengthened(q, paths[i])
  BY <1>1
<1> HIDE DEF ss
<1>4. IsSeq(ss) /\ Len(ss) = Len(paths)
  BY <1>1, <1>3, FunctionIsSeq
<1>5. ASSUME NEW i \in 1..Len(ss) PROVE IsSeq(ss[i]) /\ \A j \in 1..Len(ss[i]) : PathOK(q, z, n + 1, ss[i][j])
  <2>1. i \in 1..Len(paths) /\ PathOK(q, z, n, paths[i])
    BY <1>4 DEF ArePaths
  <2> QED
    BY <1>3, <2>1, LengthenedOK
<1>6. IsSeq(FlattenSeq(ss)) /\ ToSet(FlattenSeq(ss)) = UNION {ToSet(ss[i]) : i \in 1..Len(ss)}
  BY <1>4, <1>5, FlattenFacts
<1> DEFINE all == FlattenSeq(ss)
<1> HIDE DEF all
<1>7. ASSUME NEW m \in 1..Len(all) PROVE PathOK(q, z, n + 1, all[m])
  <2>1. all[m] \in ToSet(all)
    BY <1>6, SeqFacts DEF ToSet, all
  <2>2. PICK i \in 1..Len(ss) : all[m] \in ToSet(ss[i])
    BY <1>6, <2>1 DEF all
  <2>3. PICK j \in 1..Len(ss[i]) : all[m] = ss[i][j]
    BY <1>5, <2>2, SeqFacts DEF ToSet
  <2> QED
    BY <1>5, <2>3
<1> QED
  BY <1>2, <1>6, <1>7 DEF ArePaths, all

\* Paths are of the length asked for, and follow the links.
LEMMA PathsOK ==
  ASSUME NEW q, Traversed(q), NEW z \in 1..Len(q.zn), NEW n \in Nat, n > 0
  PROVE  ArePaths(q, z, n, Paths(q, z, n))
<1> DEFINE ks == [k \in 1..(n - 1) |-> k]
           f == PathsFold!Values(q, 0, 0, <<<<z>>>>, ks)
           S == {m \in Nat : m <= n - 1 => ArePaths(q, z, m + 1, f[m])}
<1>1. Paths(q, z, n) = f[Len(ks)]
  BY DEF Paths, PathsStep, PathsFold!Values, PathsFold!FoldsTo, FoldSteps
<1>2. IsSeq(ks) /\ Len(ks) = n - 1
  <2>1. ks = [k \in 1..(n - 1) |-> ks[k]] /\ n - 1 \in Nat
    OBVIOUS
  <2> HIDE DEF ks
  <2> QED
    BY <2>1, FunctionIsSeq
<1> HIDE DEF ks
<1>3. Len(ks) \in Nat
  BY <1>2
<1>4. f[0] = <<<<z>>>>
  BY <1>3, PathsFold!FoldFirst
<1>5. \A k \in 1..Len(ks) : f[k] = PathsStep(q, 0, 0, f[k - 1], ks[k])
  BY <1>3, PathsFold!FoldNext
<1> HIDE DEF f
<1>6. 0 \in S
  <2>1. IsSeq(<<z>>) /\ Len(<<z>>) = 1 /\ <<z>>[1] = z
    BY SingleFacts
  <2>2. PathOK(q, z, 1, <<z>>)
    BY <2>1 DEF PathOK
  <2> DEFINE one == <<z>>
  <2> HIDE DEF one
  <2>3. IsSeq(<<one>>) /\ Len(<<one>>) = 1 /\ <<one>>[1] = one
    BY SingleFacts
  <2>4. ArePaths(q, z, 1, <<one>>)
    BY <2>2, <2>3 DEF ArePaths, one
  <2> QED
    BY <1>4, <2>4 DEF one
<1>7. ASSUME NEW m \in Nat, m \in S PROVE m + 1 \in S
  <2>1. SUFFICES ASSUME m + 1 <= n - 1 PROVE ArePaths(q, z, m + 1 + 1, f[m + 1])
    OBVIOUS
  <2>2. m + 1 \in 1..Len(ks) /\ m + 1 - 1 = m /\ m + 1 \in Nat /\ m + 1 > 0
    BY <1>2, <2>1
  <2>3. f[m + 1] = PathsStep(q, 0, 0, f[m], ks[m + 1])
    BY <1>5, <2>2
  <2>4. ArePaths(q, z, m + 1, f[m])
    BY <1>7, <2>1
  <2>5. ArePaths(q, z, m + 1 + 1, PathsStep(q, 0, 0, f[m], ks[m + 1]))
    BY <2>2, <2>4, PathsLengthened
  <2> QED
    BY <2>3, <2>5
<1>8. S \subseteq Nat
  OBVIOUS
<1> HIDE DEF S
<1>9. n - 1 \in S
  <2>1. Nat \subseteq S
    BY <1>6, <1>7, <1>8, SetInduction
  <2>2. n - 1 \in Nat
    OBVIOUS
  <2> QED
    BY <2>1, <2>2
<1>10. ArePaths(q, z, n - 1 + 1, f[n - 1])
  BY <1>9 DEF S
<1>11. n - 1 + 1 = n
  OBVIOUS
<1> QED
  BY <1>1, <1>2, <1>10, <1>11

\* own are the SNodes that a path goes through, from node s, where it starts, down.
Chain(q, s, n, path, own) ==
  own[0] = s /\ \A k \in 1..n : IsLink(q, own[k - 1], path[k], own[k])

\* A path and a node it leads to have such a chain.
LEMMA ChainExists ==
  ASSUME NEW q, Traversed(q), NEW s \in 1..Len(q.sn), NEW z \in ToSet(q.sn[s].zns), NEW n \in Nat, n > 0,
         NEW path, PathOK(q, z, n, path)
  PROVE  \E own : Chain(q, s, n - 1, path, own) /\ own[n - 1] \in 1..Len(q.sn) /\ path[n] \in ToSet(q.sn[own[n - 1]].zns)
<1> DEFINE Step(k, b) == b \in ToSet(q.zn[path[k]].sns) /\ path[k + 1] \in ToSet(q.sn[b].zns)
           own == [k \in 0..(n - 1) |-> IF k = 0 THEN s ELSE CHOOSE b : Step(k, b)]
<1>1. ASSUME NEW k \in 1..(n - 1) PROVE Step(k, own[k])
  <2>1. \E b : Step(k, b)
    BY DEF PathOK
  <2>2. own[k] = CHOOSE b : Step(k, b)
    BY SMTT(30)
  <2> HIDE DEF own, Step
  <2> QED
    BY <2>1, <2>2
<1>2. own[0] = s /\ path[1] = z
  BY DEF PathOK
<1> HIDE DEF own
<1>3. z \in 1..Len(q.zn)
  BY DEF Traversed
<1>4. \A k \in 1..n : path[k] \in 1..Len(q.zn)
  BY <1>3, PathInRange
<1>5. ASSUME NEW k \in 0..(n - 1) PROVE own[k] \in 1..Len(q.sn) /\ path[k + 1] \in ToSet(q.sn[own[k]].zns)
  <2>1. CASE k = 0
    BY <1>2, <2>1
  <2>2. CASE k # 0
    <3>1. k \in 1..(n - 1) /\ k \in 1..n
      BY <2>2
    <3>2. own[k] \in ToSet(q.zn[path[k]].sns) /\ path[k + 1] \in ToSet(q.sn[own[k]].zns)
      BY <1>1, <3>1
    <3>3. path[k] \in 1..Len(q.zn)
      BY <1>4, <3>1
    <3>4. ToSet(q.zn[path[k]].sns) \subseteq 1..Len(q.sn)
      BY <3>3 DEF Traversed
    <3> QED
      BY <3>2, <3>4
  <2> QED
    BY <2>1, <2>2
<1>6. ASSUME NEW k \in 1..(n - 1) PROVE IsLink(q, own[k - 1], path[k], own[k])
  <2>1. k - 1 \in 0..(n - 1) /\ k - 1 + 1 = k
    OBVIOUS
  <2>2. own[k - 1] \in 1..Len(q.sn) /\ path[k] \in ToSet(q.sn[own[k - 1]].zns)
    BY <1>5, <2>1
  <2>3. own[k] \in ToSet(q.zn[path[k]].sns)
    BY <1>1
  <2> QED
    BY <2>2, <2>3 DEF IsLink
<1>7. Chain(q, s, n - 1, path, own)
  BY <1>2, <1>6 DEF Chain
<1>8. n - 1 \in 0..(n - 1) /\ n - 1 + 1 = n
  OBVIOUS
<1> QED
  BY <1>5, <1>7, <1>8

\* A chain ends at the node its last link leads to, whichever it is.
Ending(own, n, b) == [k \in 0..n |-> IF k = n THEN b ELSE own[k]]

\* A chain with one link more.
LEMMA ChainTo ==
  ASSUME NEW q, NEW s, NEW n \in Nat, n > 0, NEW path, NEW own, Chain(q, s, n - 1, path, own),
         NEW b, IsLink(q, own[n - 1], path[n], b)
  PROVE  Chain(q, s, n, path, Ending(own, n, b))
<1> DEFINE to == Ending(own, n, b)
<1>1. (\A k \in 0..(n - 1) : to[k] = own[k]) /\ to[n] = b
  BY DEF Ending
<1> HIDE DEF to
<1>2. to[0] = s
  BY <1>1 DEF Chain
<1>3. ASSUME NEW k \in 1..n PROVE IsLink(q, to[k - 1], path[k], to[k])
  <2>1. CASE k = n
    BY <1>1, <2>1
  <2>2. CASE k # n
    <3>1. k \in 1..(n - 1) /\ k - 1 \in 0..(n - 1) /\ k \in 0..(n - 1)
      BY <2>2
    <3>2. IsLink(q, own[k - 1], path[k], own[k])
      BY <3>1 DEF Chain
    <3> QED
      BY <1>1, <3>1, <3>2
  <2> QED
    BY <2>1, <2>2
<1> QED
  BY <1>2, <1>3 DEF Chain, to

\* A chain is still there when the parser has grown.
LEMMA ChainKept ==
  ASSUME NEW T, NEW text, NEW q, ParserOK(T, text, q), NEW u, Grows(q, u),
         NEW s, NEW n \in Nat, NEW path, NEW own, Chain(q, s, n, path, own)
  PROVE  Chain(u, s, n, path, own)
<1>1. ASSUME NEW k \in 1..n PROVE IsLink(u, own[k - 1], path[k], own[k])
  <2>1. IsLink(q, own[k - 1], path[k], own[k])
    BY SMTT(30) DEF Chain
  <2> QED
    BY <2>1, LinkKept
<1> QED
  BY <1>1 DEF Chain

\* The PNodes of a chain cover a span of the input, the one at the top the last of it.
PnOf(q, z) == q.pn[q.zn[z].pn]

\* The span of a link lies in the input and ends before the node it leads up to.
LEMMA LinkSpan ==
  ASSUME NEW T, NEW text, NEW q, ParserOK(T, text, q), NEW s, NEW z, NEW b, IsLink(q, s, z, b)
  PROVE  /\ PnOf(q, z).start \in 0..Len(text) /\ PnOf(q, z).end \in PnOf(q, z).start..Len(text)
         /\ PnOf(q, z).skip \in PnOf(q, z).end..Len(text)
         /\ PnOf(q, z).skip <= q.sn[s].loc /\ PnOf(q, z).start = q.sn[b].loc
<1>1. s \in 1..Len(q.sn) /\ q.zn[z].pn \in 1..Len(q.pn)
  BY LinkRange
<1>2. PNodeOK(Len(text), Len(q.pn), q.pn[q.zn[z].pn])
  BY <1>1, ParserFacts
<1>3. Joined(q.sn, q.zn, q.pn)
  BY DEF ParserOK
<1>4. PnOf(q, z).skip <= q.sn[s].loc /\ PnOf(q, z).start = q.sn[b].loc
  BY <1>1, <1>3 DEF Joined, IsLink, PnOf
<1> QED
  BY <1>2, <1>4 DEF PNodeOK, PnOf

\* A chain begins before its top does.
LEMMA ChainSpan ==
  ASSUME NEW T, NEW text, NEW q, ParserOK(T, text, q), NEW s, NEW n \in Nat, n > 0, NEW path, NEW own,
         Chain(q, s, n, path, own)
  PROVE  PnOf(q, path[n]).start <= PnOf(q, path[1]).start
<1> DEFINE S == {m \in Nat : m + 1 <= n => PnOf(q, path[m + 1]).start <= PnOf(q, path[1]).start}
<1>1. ASSUME NEW k \in 1..n
      PROVE  /\ PnOf(q, path[k]).start \in Int /\ PnOf(q, path[k]).start = q.sn[own[k]].loc
             /\ PnOf(q, path[k]).start <= q.sn[own[k - 1]].loc /\ q.sn[own[k - 1]].loc \in Int
  <2>1. IsLink(q, own[k - 1], path[k], own[k])
    BY DEF Chain
  <2>2. q.sn[own[k - 1]].loc \in Int
    BY <2>1, ParserFacts, LinkRange DEF Located
  <2>3. Len(text) \in Nat
    BY ParserFacts
  <2>4. /\ PnOf(q, path[k]).start \in 0..Len(text) /\ PnOf(q, path[k]).end \in PnOf(q, path[k]).start..Len(text)
        /\ PnOf(q, path[k]).skip \in PnOf(q, path[k]).end..Len(text)
        /\ PnOf(q, path[k]).skip <= q.sn[own[k - 1]].loc /\ PnOf(q, path[k]).start = q.sn[own[k]].loc
    BY <2>1, LinkSpan
  <2> QED
    BY <2>2, <2>3, <2>4
<1>2. 0 \in S
  <2>1. 1 \in 1..n /\ 0 + 1 = 1
    OBVIOUS
  <2>2. PnOf(q, path[1]).start \in Int
    BY <1>1, <2>1
  <2> QED
    BY <2>1, <2>2
<1>3. ASSUME NEW m \in Nat, m \in S PROVE m + 1 \in S
  <2>1. SUFFICES ASSUME m + 1 + 1 <= n PROVE PnOf(q, path[m + 1 + 1]).start <= PnOf(q, path[1]).start
    OBVIOUS
  <2>2. m + 1 \in 1..n /\ m + 1 + 1 \in 1..n /\ m + 1 + 1 - 1 = m + 1 /\ 1 \in 1..n
    BY <2>1
  <2>3. PnOf(q, path[m + 1]).start <= PnOf(q, path[1]).start
    BY <1>3, <2>1
  <2>4. PnOf(q, path[m + 1 + 1]).start <= q.sn[own[m + 1]].loc /\ PnOf(q, path[m + 1 + 1]).start \in Int
    BY <1>1, <2>2
  <2>5. PnOf(q, path[m + 1]).start = q.sn[own[m + 1]].loc /\ PnOf(q, path[m + 1]).start \in Int /\ PnOf(q, path[1]).start \in Int
    BY <1>1, <2>2
  <2> QED
    BY <2>3, <2>4, <2>5
<1>4. S \subseteq Nat
  OBVIOUS
<1> HIDE DEF S
<1>5. Nat \subseteq S
  BY <1>2, <1>3, <1>4, SetInduction
<1>6. n - 1 \in S /\ n - 1 + 1 = n
  BY <1>5
<1> QED
  BY <1>6 DEF S

-----------------------------------------------------------------------------
(* A reduction.                                                            *)

\* The problem of GSS that a table poses, whatever its tokens.
Poses(T, P) == P.rules = T.grammar.rules /\ P.items = T.items /\ P.goto = T.goto

\* The links there may be after the reduction of a rule with symbol X at node top.
Justifies(P, L, top, rule, X) ==
  L \cup {e \in {Stack!LinkTo(P, v, X, top[2]) : v \in Stack!NodesOf(P, L)} : Stack!ReducedBy(P, L, top, rule, e)}

\* Every end of a link is on the stack.
LEMMA LowerOnStack ==
  ASSUME NEW T, NEW text, NEW q, ParserOK(T, text, q), NEW P, Rooted(Stack!Root(P), q)
  PROVE  /\ \A s \in 1..Len(q.sn) : Node(q, s) \in Stack!NodesOf(P, LinksOf(q))
         /\ \A e \in LinksOf(q) : e[1] \in Stack!NodesOf(P, LinksOf(q))
<1>1. ASSUME NEW s \in 1..Len(q.sn) PROVE Node(q, s) \in Stack!NodesOf(P, LinksOf(q))
  BY DEF Rooted, Stack!NodesOf
<1>2. ASSUME NEW e \in LinksOf(q) PROVE e[1] \in Stack!NodesOf(P, LinksOf(q))
  <2>1. PICK b \in 1..Len(q.sn) : e[1] = Node(q, b)
    BY LinkEnds
  <2> QED
    BY <1>1, <2>1
<1> QED
  BY <1>1, <1>2

\* The nodes of a chain from the bottom up are a path of GSS.
PathUp(q, n, own, bottom, top) ==
  [k \in 0..n |-> IF k = n THEN top ELSE IF k = 0 THEN bottom ELSE [j \in 1..(n - 1) |-> Node(q, own[n - j])][k]]

\* With the link it ends with, a chain is a path of GSS.
LEMMA ChainIsPath ==
  ASSUME NEW T, NEW text, NEW q, ParserOK(T, text, q), NEW s, NEW n \in Nat, n > 0, NEW path, NEW own,
         Chain(q, s, n - 1, path, own), NEW f \in LinksOf(q), f[3] = Node(q, own[n - 1])
  PROVE  Stack!IsPath(LinksOf(q), n, PathUp(q, n, own, f[1], Node(q, s)))
<1> DEFINE up == PathUp(q, n, own, f[1], Node(q, s))
<1>1. up[0] = f[1] /\ \A k \in 1..n : up[k] = Node(q, own[n - k])
  <2>1. own[n - n] = s
    <3>1. n - n = 0
      OBVIOUS
    <3> QED
      BY <3>1 DEF Chain
  <2>2. up[0] = f[1]
    BY DEF PathUp
  <2>3. ASSUME NEW k \in 1..n PROVE up[k] = Node(q, own[n - k])
    <3>1. CASE k = n
      BY <2>1, <3>1 DEF PathUp
    <3>2. CASE k # n
      BY <3>2 DEF PathUp
    <3> QED
      BY <3>1, <3>2
  <2> QED
    BY <2>2, <2>3
<1> HIDE DEF up
<1>2. ASSUME NEW k \in 1..n PROVE \E e \in LinksOf(q) : e[1] = up[k - 1] /\ e[3] = up[k]
  <2>1. CASE k = 1
    BY <1>1, <2>1
  <2>2. CASE k # 1
    <3> DEFINE j == n - k + 1
    <3>1. j \in 1..(n - 1) /\ j - 1 = n - k /\ j = n - (k - 1) /\ k - 1 \in 1..n
      BY <2>2
    <3>2. up[k - 1] = Node(q, own[j]) /\ up[k] = Node(q, own[j - 1])
      BY <1>1, <3>1
    <3> HIDE DEF j
    <3>3. IsLink(q, own[j - 1], path[j], own[j])
      BY <3>1 DEF Chain
    <3> DEFINE e == LinkOf(q, own[j - 1], path[j], own[j])
    <3>4. e[1] = Node(q, own[j]) /\ e[3] = Node(q, own[j - 1])
      BY DEF LinkOf
    <3>5. e \in LinksOf(q)
      BY <3>3, InLinks, ParserFacts
    <3> QED
      BY <3>2, <3>4, <3>5
  <2> QED
    BY <2>1, <2>2
<1> QED
  BY <1>2 DEF Stack!IsPath, up

\* The goto of the symbol of a rule from a node below the top, by as many links as the
\* rule has elements, is justified.
FromBelow(P, L, n, X, top, v) ==
  /\ v \in Stack!NodesOf(P, L) /\ Stack!HasGoto(P, v, X)
  /\ \E inner \in [1..(n - 1) -> Stack!NodesOf(P, L)] :
       /\ n = 0 => v = top
       /\ Stack!IsPath(L, n, [k \in 0..n |-> IF k = n THEN top ELSE IF k = 0 THEN v ELSE inner[k]])

\* A link from such a node is justified by the reduction.
LEMMA BelowJustifies ==
  ASSUME NEW T, NEW P, Poses(T, P), NEW L, NEW top, NEW rule, NEW red, Completes(T, top[1], rule, red),
         NEW v, FromBelow(P, L, red.n, red.sym, top, v)
  PROVE  Stack!LinkTo(P, v, red.sym, top[2]) \in Justifies(P, L, top, rule, red.sym)
<1> DEFINE e == Stack!LinkTo(P, v, red.sym, top[2])
           n == red.n
<1>1. e[1] = v
  BY DEF Stack!LinkTo
<1>2. rule # 1 /\ <<rule, n>> \in P.items[top[1]] /\ Len(Stack!Body(P, rule)) = n /\ P.rules[rule].lhs = red.sym
  BY DEF Completes, Poses, Stack!Body
<1>3. \E it \in P.items[top[1]] : it[1] = rule /\ it[2] = n
  <2>1. <<rule, n>>[1] = rule /\ <<rule, n>>[2] = n
    OBVIOUS
  <2> QED
    BY <1>2, <2>1
<1> HIDE DEF e
<1>4. Stack!ReducedBy(P, L, top, rule, e)
  BY <1>1, <1>2, <1>3 DEF Stack!ReducedBy, FromBelow, e
<1>5. v \in Stack!NodesOf(P, L)
  BY DEF FromBelow
<1> QED
  BY <1>4, <1>5 DEF Justifies, e

\* An empty rule is reduced at the node itself, ...
LEMMA EmptyBelow ==
  ASSUME NEW P, NEW L, NEW X, NEW top \in Stack!NodesOf(P, L), Stack!HasGoto(P, top, X)
  PROVE  FromBelow(P, L, 0, X, top, top)
<1> DEFINE inner == [k \in 1..(0 - 1) |-> top]
<1>1. inner \in [1..(0 - 1) -> Stack!NodesOf(P, L)]
  OBVIOUS
<1>2. Stack!IsPath(L, 0, [k \in 0..0 |-> IF k = 0 THEN top ELSE IF k = 0 THEN top ELSE inner[k]])
  BY DEF Stack!IsPath
<1> QED
  BY <1>1, <1>2 DEF FromBelow

\* ... and another one below a chain of links.
LEMMA ChainBelow ==
  ASSUME NEW T, NEW text, NEW q, ParserOK(T, text, q), NEW P, Rooted(Stack!Root(P), q),
         NEW s \in 1..Len(q.sn), NEW n \in Nat, n > 0, NEW path, NEW own,
         Chain(q, s, n - 1, path, own), own[n - 1] \in 1..Len(q.sn),
         NEW f \in LinksOf(q), f[3] = Node(q, own[n - 1]), NEW X, Stack!HasGoto(P, f[1], X)
  PROVE  FromBelow(P, LinksOf(q), n, X, Node(q, s), f[1])
<1> DEFINE L == LinksOf(q)
           inner == [j \in 1..(n - 1) |-> Node(q, own[n - j])]
<1>1. Stack!IsPath(L, n, PathUp(q, n, own, f[1], Node(q, s)))
  BY ChainIsPath
<1>2. ASSUME NEW j \in 1..(n - 1) PROVE Node(q, own[n - j]) \in Stack!NodesOf(P, L)
  <2>1. n - j \in 1..(n - 1)
    OBVIOUS
  <2>2. IsLink(q, own[n - j - 1], path[n - j], own[n - j])
    BY <2>1 DEF Chain
  <2>3. own[n - j] \in 1..Len(q.sn)
    BY <2>2, LinkRange
  <2> QED
    BY <2>3, LowerOnStack
<1>3. inner \in [1..(n - 1) -> Stack!NodesOf(P, L)]
  BY <1>2
<1>4. f[1] \in Stack!NodesOf(P, L)
  BY LowerOnStack
<1>5. PathUp(q, n, own, f[1], Node(q, s)) =
        [k \in 0..n |-> IF k = n THEN Node(q, s) ELSE IF k = 0 THEN f[1] ELSE inner[k]]
  BY DEF PathUp
<1>6. Stack!IsPath(L, n, [k \in 0..n |-> IF k = n THEN Node(q, s) ELSE IF k = 0 THEN f[1] ELSE inner[k]])
  BY <1>1, <1>5
<1> DEFINE top == Node(q, s)
           v == f[1]
<1>7. /\ v \in Stack!NodesOf(P, L) /\ Stack!HasGoto(P, v, X) /\ inner \in [1..(n - 1) -> Stack!NodesOf(P, L)]
      /\ Stack!IsPath(L, n, [k \in 0..n |-> IF k = n THEN top ELSE IF k = 0 THEN v ELSE inner[k]])
  BY <1>3, <1>4, <1>6
<1> HIDE DEF inner, top, v, L
<1>8. n = 0 => v = top
  OBVIOUS
<1>9. FromBelow(P, L, n, X, top, v)
  BY <1>7, <1>8 DEF FromBelow
<1> QED
  BY <1>9 DEF top, v, L

\* A link of a node covers a span of the input before it.
LEMMA ZNodeSpan ==
  ASSUME NEW T, NEW text, NEW q, ParserOK(T, text, q), NEW s \in 1..Len(q.sn), NEW z \in ToSet(q.sn[s].zns)
  PROVE  /\ PnOf(q, z).start \in 0..Len(text) /\ PnOf(q, z).end \in PnOf(q, z).start..Len(text)
         /\ PnOf(q, z).skip \in PnOf(q, z).end..Len(text) /\ PnOf(q, z).skip <= q.sn[s].loc
         /\ q.sn[s].loc \in 0..Len(text) /\ Len(text) \in Nat
<1>1. Len(text) \in Nat /\ SNodeOK(T, Len(text), Len(q.zn), Len(q.pn), q.sn[s])
  BY ParserFacts
<1>2. z \in 1..Len(q.zn) /\ q.sn[s].loc \in 0..Len(text)
  BY <1>1, SNodeFacts
<1>3. ZNodeOK(Len(q.sn), Len(q.pn), q.zn[z])
  BY <1>2, ParserFacts
<1>4. q.zn[z].pn \in 1..Len(q.pn)
  BY <1>3 DEF ZNodeOK
<1>5. PNodeOK(Len(text), Len(q.pn), q.pn[q.zn[z].pn])
  BY <1>4, ParserFacts
<1>6. Joined(q.sn, q.zn, q.pn)
  BY DEF ParserOK
<1>7. PnOf(q, z).skip <= q.sn[s].loc
  BY <1>6 DEF Joined, PnOf
<1> QED
  BY <1>1, <1>2, <1>5, <1>7 DEF PNodeOK, PnOf

\* The span of the PNode that a reduction makes.
LEMMA ReducedSpan ==
  ASSUME NEW T, NEW text, NEW q, ParserOK(T, text, q), NEW s \in 1..Len(q.sn), NEW n \in Nat, n > 0, NEW path, NEW own,
         Chain(q, s, n - 1, path, own), own[n - 1] \in 1..Len(q.sn), path[n] \in ToSet(q.sn[own[n - 1]].zns),
         path[1] \in ToSet(q.sn[s].zns)
  PROVE  /\ PnOf(q, path[n]).start \in 0..Len(text) /\ PnOf(q, path[1]).end \in PnOf(q, path[n]).start..Len(text)
         /\ q.sn[s].loc \in PnOf(q, path[1]).end..Len(text)
<1> DEFINE a == PnOf(q, path[n])
           b == PnOf(q, path[1])
<1>1. /\ b.start \in 0..Len(text) /\ b.end \in b.start..Len(text) /\ b.skip \in b.end..Len(text) /\ b.skip <= q.sn[s].loc
      /\ q.sn[s].loc \in 0..Len(text) /\ Len(text) \in Nat
  BY ZNodeSpan
<1>2. /\ a.start \in 0..Len(text) /\ a.end \in a.start..Len(text) /\ a.skip \in a.end..Len(text)
      /\ a.skip <= q.sn[own[n - 1]].loc /\ q.sn[own[n - 1]].loc \in 0..Len(text)
  BY ZNodeSpan
<1> HIDE DEF a, b
<1>3. a.start <= b.start
  <2>1. CASE n = 1
    BY <1>1, <2>1 DEF a, b
  <2>2. CASE n # 1
    <3> DEFINE c == PnOf(q, path[n - 1])
    <3>1. n - 1 \in Nat /\ n - 1 > 0 /\ n - 1 \in 1..(n - 1)
      BY <2>2
    <3>2. c.start <= b.start
      BY <3>1, ChainSpan DEF b
    <3>3. IsLink(q, own[n - 1 - 1], path[n - 1], own[n - 1])
      BY <3>1 DEF Chain
    <3>4. c.start = q.sn[own[n - 1]].loc
      BY <3>3, LinkSpan
    <3> HIDE DEF c
    <3> DEFINE here == q.sn[own[n - 1]].loc
               len == Len(text)
    <3>5. a.start \in Int /\ here \in Int /\ a.start <= here
      <4>1. /\ a.start \in 0..len /\ a.end \in a.start..len /\ a.skip \in a.end..len
            /\ a.skip <= here /\ here \in 0..len
        BY <1>2
      <4>2. len \in Nat
        BY <1>1
      <4> HIDE DEF here, len
      <4>3. a.start \in Int /\ a.end \in Int /\ a.skip \in Int /\ here \in Int
        BY <4>1, <4>2
      <4> QED
        BY <4>1, <4>2, <4>3
    <3>6. b.start \in Int /\ here <= b.start
      BY <1>1, <3>2, <3>4
    <3> HIDE DEF here
    <3> QED
      BY <3>5, <3>6
  <2> QED
    BY <2>1, <2>2
<1>4. a.start \in 0..Len(text) /\ b.end \in a.start..Len(text) /\ q.sn[s].loc \in b.end..Len(text)
  <2> DEFINE loc == q.sn[s].loc
             len == Len(text)
  <2>1. /\ b.start \in 0..len /\ b.end \in b.start..len /\ b.skip \in b.end..len
        /\ b.skip <= loc /\ loc \in 0..len /\ len \in Nat
    BY <1>1
  <2>2. a.start \in 0..len /\ a.start <= b.start
    BY <1>2, <1>3
  <2> HIDE DEF loc, len
  <2>3. b.end \in a.start..len
    BY <2>1, <2>2
  <2>4. loc \in b.end..len
    BY <2>1
  <2> QED
    BY <2>2, <2>3, <2>4 DEF loc, len
<1> QED
  BY <1>4 DEF a, b

\* The next reduction is at the location the engine is at.
Reducing(T, q, r) == EntryOK(T, q.epos, q.sn, r) /\ q.sn[r.sn].loc = q.epos

\* Rule is one that the reduction r stands for.
Ruled(T, P, q, r, rule) == Poses(T, P) /\ Completes(T, q.sn[r.sn].state, rule, r.red)
After(P, q, r, rule) == Justifies(P, LinksOf(q), Node(q, r.sn), rule, r.red.sym)

\* A goto from a node ps, below the top of the stack as it was, is justified.
LEMMA GotoJustified ==
  ASSUME NEW T, NEW text, NEW q, ParserOK(T, text, q), NEW P, NEW r, Reducing(T, q, r), NEW rule, Ruled(T, P, q, r, rule),
         NEW u, Grows(q, u), NEW new, new.sym = r.red.sym, NEW ps, q.sn[r.sn].loc \in Int,
         FromBelow(P, LinksOf(q), r.red.n, r.red.sym, Node(q, r.sn), Node(u, ps)), u.t = T
  PROVE  LinkWith(u, new, ps, q.sn[r.sn].loc) \in After(P, q, r, rule)
<1> DEFINE top == Node(q, r.sn)
           v == Node(u, ps)
<1>1. top[1] = q.sn[r.sn].state /\ top[2] = q.sn[r.sn].loc /\ v[1] = u.sn[ps].state
  BY DEF Node, StateOf, Loc
<1> HIDE DEF top, v
<1>2. Poses(T, P) /\ Completes(T, top[1], rule, r.red)
  BY <1>1 DEF Ruled
<1>3. FromBelow(P, LinksOf(q), r.red.n, r.red.sym, top, v)
  BY DEF top, v
<1>4. Stack!LinkTo(P, v, r.red.sym, top[2]) \in Justifies(P, LinksOf(q), top, rule, r.red.sym)
  BY <1>2, <1>3, BelowJustifies
<1>5. LinkWith(u, new, ps, q.sn[r.sn].loc) = Stack!LinkTo(P, v, r.red.sym, top[2])
  BY <1>1, <1>2 DEF LinkWith, Stack!LinkTo, Poses, v
<1> QED
  BY <1>4, <1>5 DEF After, top

\* The lower end of the last link of a path, which may be a link that was added for
\* an earlier path: then the goto has been followed.
LEMMA PathJustified ==
  ASSUME NEW T, TableOK(T), NEW text, NEW q, ParserOK(T, text, q), NEW P, Rooted(Stack!Root(P), q),
         NEW r, Reducing(T, q, r), NEW rule, Ruled(T, P, q, r, rule),
         NEW n \in Nat, n > 0, r.red.n = n, NEW path, NEW own,
         Chain(q, r.sn, n - 1, path, own), own[n - 1] \in 1..Len(q.sn),
         NEW u, Kept(T, text, Stack!Root(P), q, After(P, q, r, rule), u),
         NEW ps, IsLink(u, own[n - 1], path[n], ps),
         NEW new, new.sym = r.red.sym, u.t.goto[u.sn[ps].state][new.sym] # 0
  PROVE  LinkWith(u, new, ps, q.sn[r.sn].loc) \in After(P, q, r, rule)
<1> DEFINE f == LinkOf(u, own[n - 1], path[n], ps)
           X == r.red.sym
           i == q.sn[r.sn].loc
           L == LinksOf(q)
           A == After(P, q, r, rule)
           e == LinkWith(u, new, ps, i)
<1>1. ParserOK(T, text, u) /\ Grows(q, u) /\ LinksOf(u) \subseteq A
  BY DEF Kept, Whole
<1>2. u.t = T /\ IsSeq(u.sn)
  BY <1>1, ParserFacts DEF ParserOK
<1>3. f \in LinksOf(u)
  BY <1>2, InLinks
<1>4. Node(u, own[n - 1]) = Node(q, own[n - 1])
  BY <1>1, NodeKept DEF Grows
<1>5. f[1] = Node(u, ps) /\ f[3] = Node(q, own[n - 1])
  BY <1>4 DEF LinkOf
<1>6. r.sn \in 1..Len(q.sn) /\ i \in Int
  <2>1. r.sn \in 1..Len(q.sn)
    BY DEF Reducing, EntryOK
  <2> QED
    BY <2>1, ParserFacts DEF Located
<1>7. ps \in 1..Len(u.sn)
  BY <1>1, LinkRange
<1>8. u.sn[ps].state \in DOMAIN T.items
  <2>1. Len(text) \in Nat /\ SNodeOK(T, Len(text), Len(u.zn), Len(u.pn), u.sn[ps])
    BY <1>1, <1>7, ParserFacts
  <2> QED
    BY <2>1, SNodeFacts
<1> HIDE DEF f
<1>9. CASE f \in L
  <2>1. HasColumn(T, X)
    BY DEF Reducing, EntryOK, ReductionOK
  <2>2. f[1][1] = u.sn[ps].state
    BY <1>5 DEF Node, StateOf
  <2>3. Stack!HasGoto(P, f[1], X)
    BY <1>2, <1>8, <2>1, <2>2 DEF Stack!HasGoto, HasColumn, Ruled, Poses
  <2>4. FromBelow(P, L, n, X, Node(q, r.sn), f[1])
    BY <1>5, <1>6, <1>9, <2>3, ChainBelow
  <2>5. FromBelow(P, LinksOf(q), r.red.n, r.red.sym, Node(q, r.sn), Node(u, ps))
    BY <1>5, <2>4
  <2> QED
    BY <1>1, <1>2, <1>6, <2>5, GotoJustified
<1>10. CASE f \notin L
  <2>1. f \in {d \in {Stack!LinkTo(P, v, X, Node(q, r.sn)[2]) : v \in Stack!NodesOf(P, L)} :
                 Stack!ReducedBy(P, L, Node(q, r.sn), rule, d)}
    BY <1>1, <1>3, <1>10 DEF After, Justifies
  <2>2. PICK v : f = Stack!LinkTo(P, v, X, Node(q, r.sn)[2])
    BY <2>1
  <2>3. Node(q, r.sn)[2] = i /\ Node(u, ps)[1] = u.sn[ps].state
    BY DEF Node, StateOf, Loc
  <2>4. f[1] = v
    BY SMTT(30), <2>2 DEF Stack!LinkTo
  <2>5. f = <<Node(u, ps), X, <<T.goto[u.sn[ps].state][X], i>>>>
    BY <1>5, <2>2, <2>3, <2>4 DEF Stack!LinkTo, Ruled, Poses
  <2>6. e = f
    BY <1>2, <2>5 DEF LinkWith
  <2> QED
    BY <1>1, <1>3, <2>6
<1> QED
  BY <1>9, <1>10

\* What the loop of reduce_one makes of a path: a PNode, to be followed by its gotos.
Children(u, n, path) == [k \in 1..n |-> u.zn[path[n + 1 - k]].pn]
ReducedNode(u, r, n, path) ==
  MakePNode(u, r.red.sym, PnOf(u, path[n]).start, PnOf(u, path[1]).end, Loc(u, r.sn), FALSE, r.red, Children(u, n, path))

\* The children of a reduction are PNodes of the forest.
LEMMA ChildrenOK ==
  ASSUME NEW u, NEW n \in Nat, NEW path, \A k \in 1..n : u.zn[path[k]].pn \in 1..Len(u.pn)
  PROVE  IsSeq(Children(u, n, path)) /\ ToSet(Children(u, n, path)) \subseteq 1..Len(u.pn)
<1> DEFINE kids == Children(u, n, path)
<1>1. kids = [k \in 1..n |-> kids[k]] /\ \A k \in 1..n : kids[k] = u.zn[path[n + 1 - k]].pn
  BY DEF Children
<1> HIDE DEF kids
<1>2. IsSeq(kids) /\ Len(kids) = n
  BY <1>1, FunctionIsSeq
<1>3. \A k \in 1..n : n + 1 - k \in 1..n
  OBVIOUS
<1>4. \A k \in 1..n : kids[k] \in 1..Len(u.pn)
  BY <1>1, <1>3
<1>5. DOMAIN kids = 1..n
  BY <1>2, SeqFacts
<1>6. ToSet(kids) \subseteq 1..Len(u.pn)
  BY <1>4, <1>5 DEF ToSet
<1> QED
  BY <1>2, <1>6 DEF kids

\* The nodes of a stack that has grown.
LEMMA GrownFacts ==
  ASSUME NEW sn, NEW sn2, Grown(sn, sn2)
  PROVE  /\ Len(sn) <= Len(sn2) /\ 1..Len(sn) \subseteq 1..Len(sn2)
         /\ \A b \in 1..Len(sn) : sn2[b].loc = sn[b].loc /\ ToSet(sn[b].zns) \subseteq ToSet(sn2[b].zns)
<1>1. Len(sn) \in Nat /\ Len(sn2) \in Nat /\ Len(sn) <= Len(sn2)
  BY DEF Grown
<1>2. 1..Len(sn) \subseteq 1..Len(sn2)
  BY <1>1
<1>3. ASSUME NEW b \in 1..Len(sn) PROVE sn2[b].loc = sn[b].loc /\ ToSet(sn[b].zns) \subseteq ToSet(sn2[b].zns)
  BY DEF Grown
<1> QED
  BY <1>1, <1>2, <1>3

\* One path of reduce_one adds links that the reduction justifies on the stack q it began with.
LEMMA ReducePathOK ==
  ASSUME NEW T, TableOK(T), GotoOK(T), NEW text, NEW q, Whole(T, text, q), NEW P, Rooted(Stack!Root(P), q),
         NEW r, Reducing(T, q, r), NEW rule, Ruled(T, P, q, r, rule), r.red.n > 0,
         NEW path, PathOK(q, r.z, r.red.n, path),
         NEW u, Kept(T, text, Stack!Root(P), q, After(P, q, r, rule), u)
  PROVE  Kept(T, text, Stack!Root(P), q, After(P, q, r, rule), ReducePath(u, r, path))
<1> DEFINE n == r.red.n
           X == r.red.sym
           i == q.sn[r.sn].loc
           new == ReducedNode(u, r, n, path)
           nodes == u.zn[path[n]].sns
           A == After(P, q, r, rule)
           z == r.z
           s == r.sn
<1>1. ParserOK(T, text, q) /\ ParserOK(T, text, u) /\ Grows(q, u)
  BY DEF Kept, Whole
<1>2. u.t = T /\ IsSeq(u.sn) /\ IsSeq(q.sn) /\ Len(text) \in Nat /\ Traversed(q) /\ Len(u.sn) \in Nat
  BY <1>1, ParserFacts, ParserTraversed DEF ParserOK
<1>3. /\ s \in 1..Len(q.sn) /\ i = q.epos /\ n \in Nat /\ z \in ToSet(q.sn[s].zns)
      /\ HasColumn(T, X) /\ X \notin DOMAIN T.spell
  BY DEF Reducing, EntryOK, ReductionOK
<1>4. PICK own : Chain(q, s, n - 1, path, own) /\ own[n - 1] \in 1..Len(q.sn) /\ path[n] \in ToSet(q.sn[own[n - 1]].zns)
  <2>1. z \in ToSet(q.sn[s].zns) /\ n \in Nat /\ n > 0 /\ PathOK(q, z, n, path) /\ s \in 1..Len(q.sn)
    BY <1>3
  <2> QED
    BY <1>2, <2>1, ChainExists
<1>5. path[1] = z
  BY DEF PathOK
<1>6. /\ s \in 1..Len(u.sn) /\ u.sn[s].loc = i /\ ToSet(q.sn[s].zns) \subseteq ToSet(u.sn[s].zns)
      /\ own[n - 1] \in 1..Len(u.sn) /\ ToSet(q.sn[own[n - 1]].zns) \subseteq ToSet(u.sn[own[n - 1]].zns)
      /\ Len(q.sn) <= Len(u.sn) /\ u.epos = q.epos
  <2>1. Grown(q.sn, u.sn) /\ u.epos = q.epos
    BY <1>1 DEF Grows
  <2>2. /\ Len(q.sn) <= Len(u.sn) /\ 1..Len(q.sn) \subseteq 1..Len(u.sn)
        /\ \A b \in 1..Len(q.sn) : u.sn[b].loc = q.sn[b].loc /\ ToSet(q.sn[b].zns) \subseteq ToSet(u.sn[b].zns)
    BY <2>1, GrownFacts
  <2>3. u.sn[s].loc = i /\ ToSet(q.sn[s].zns) \subseteq ToSet(u.sn[s].zns) /\ s \in 1..Len(u.sn)
    BY <1>3, <2>2
  <2>4. ToSet(q.sn[own[n - 1]].zns) \subseteq ToSet(u.sn[own[n - 1]].zns) /\ own[n - 1] \in 1..Len(u.sn)
    BY <1>4, <2>2
  <2> QED
    BY <2>1, <2>2, <2>3, <2>4
<1>7. Chain(u, s, n - 1, path, own)
  <2>1. n - 1 \in Nat
    BY SMTT(30), <1>3
  <2> QED
    BY <1>1, <1>4, <2>1, ChainKept
<1>8. path[1] \in ToSet(u.sn[s].zns) /\ path[n] \in ToSet(u.sn[own[n - 1]].zns)
  BY <1>3, <1>4, <1>5, <1>6
<1>9. /\ PnOf(u, path[n]).start \in 0..Len(text) /\ PnOf(u, path[1]).end \in PnOf(u, path[n]).start..Len(text)
      /\ u.sn[s].loc \in PnOf(u, path[1]).end..Len(text)
  BY <1>1, <1>3, <1>6, <1>7, <1>8, ReducedSpan
<1>10. \A k \in 1..n : path[k] \in 1..Len(u.zn)
  <2>1. z \in 1..Len(q.zn)
    BY <1>2, <1>3 DEF Traversed
  <2>2. n \in Nat /\ PathOK(q, z, n, path)
    BY <1>3
  <2>3. \A k \in 1..n : path[k] \in 1..Len(q.zn)
    BY <1>2, <2>1, <2>2, PathInRange
  <2>4. Len(q.zn) \in Nat /\ Len(u.zn) \in Nat /\ Len(q.zn) <= Len(u.zn)
    BY <1>1 DEF Grows, GrownLinks
  <2> QED
    BY <2>3, <2>4
<1>11. \A k \in 1..n : u.zn[path[k]].pn \in 1..Len(u.pn)
  BY <1>1, <1>10, ParserFacts DEF ZNodeOK
<1>12. IsSeq(nodes) /\ ToSet(nodes) \subseteq 1..Len(u.sn)
  <2>1. n \in 1..n
    BY <1>3
  <2>2. ZNodeOK(Len(u.sn), Len(u.pn), u.zn[path[n]])
    BY <1>1, <1>10, <2>1, ParserFacts
  <2> QED
    BY <2>2 DEF ZNodeOK
<1>13. /\ PNodeOK(Len(text), Len(u.pn) + 1, new) /\ new.latest = Len(u.pn) + 1
       /\ new.sym = X /\ new.start = PnOf(u, path[n]).start /\ new.skip = i
       /\ new.amb = <<>> /\ ToSet(new.kids) \subseteq 1..Len(u.pn) /\ ~new.term
  <2> DEFINE start == PnOf(u, path[n]).start
             end == PnOf(u, path[1]).end
             kids == Children(u, n, path)
             red == r.red
             term == FALSE
  <2>1. IsSeq(kids) /\ ToSet(kids) \subseteq 1..Len(u.pn)
    BY <1>3, <1>11, ChildrenOK
  <2>2. PNodesOK(Len(text), u.pn)
    BY <1>1 DEF ParserOK
  <2>3. start \in 0..Len(text) /\ end \in start..Len(text) /\ i \in end..Len(text)
    BY <1>6, <1>9
  <2>4. new = MakePNode(u, X, start, end, i, term, red, kids)
    BY <1>6 DEF ReducedNode, Loc
  <2> HIDE DEF start, end, kids, i, new, X, red, term
  <2>5. Made(Len(text), Len(u.pn), MakePNode(u, X, start, end, i, term, red, kids), X, start, end, i, term)
    BY <2>1, <2>2, <2>3, MakePNodeOK
  <2> QED
    BY <2>4, <2>5 DEF Made, start, term
<1>14. ASSUME NEW ps \in ToSet(nodes) PROVE IsLink(u, own[n - 1], path[n], ps)
  BY <1>6, <1>8 DEF IsLink
<1>15. i \in 0..Len(text)
  BY <1>2, <1>3, <1>6, <1>9
<1> HIDE DEF nodes, new
<1>16. CanLink(T, text, A, u, new, i, nodes)
  <2>1. Lands(T, text, u.epos, new.sym, i)
    BY <1>3, <1>6, <1>13 DEF Lands
  <2>2. ASSUME NEW ps \in ToSet(nodes) PROVE new.start = u.sn[ps].loc
    BY SMTT(30), <1>1, <1>13, <1>14, LinkSpan
  <2>3. ASSUME NEW ps \in ToSet(nodes), u.t.goto[u.sn[ps].state][new.sym] # 0 PROVE LinkWith(u, new, ps, i) \in A
    <3>1. IsLink(u, own[n - 1], path[n], ps) /\ new.sym = r.red.sym /\ n \in Nat
      BY <1>3, <1>13, <1>14
    <3>2. Chain(q, r.sn, n - 1, path, own) /\ own[n - 1] \in 1..Len(q.sn)
      BY <1>4
    <3> QED
      BY <1>1, <2>3, <3>1, <3>2, PathJustified
  <2>4. HasColumn(T, new.sym)
    BY <1>3, <1>13
  <2>5. u.epos <= i /\ new.skip <= i
    BY <1>3, <1>6, <1>13, <1>15
  <2> HIDE DEF i, A
  <2> QED
    BY <1>12, <1>15, <2>1, <2>2, <2>3, <2>4, <2>5 DEF CanLink
<1>17. NewPNode(T, text, u, new)
  BY <1>3, <1>13 DEF NewPNode
<1>18. Kept(T, text, Stack!Root(P), q, A, GotoAll(AddPNode(u, new), i, nodes))
  BY <1>16, <1>17, AddAndGoto
<1>19. ReducePath(u, r, path) \in {u, GotoAll(AddPNode(u, new), i, nodes)}
  <2>1. Loc(u, r.sn) = i
    BY <1>6 DEF Loc
  <2> QED
    BY <2>1 DEF ReducePath, new, ReducedNode, Children, PnOf, nodes
<1> QED
  BY <1>18, <1>19

\* An empty rule.
EmptyNode(q, r) == MakePNode(q, r.red.sym, Loc(q, r.sn), Loc(q, r.sn), Loc(q, r.sn), FALSE, r.red, <<>>)

\* Before its first path it has added none.
LEMMA KeptSelf ==
  ASSUME NEW T, NEW text, NEW root, NEW q, Whole(T, text, q), Rooted(root, q), NEW A, LinksOf(q) \subseteq A
  PROVE  Kept(T, text, root, q, A, q)
<1>1. Grows(q, q)
  BY GrowsRefl DEF Whole
<1> QED
  BY <1>1 DEF Kept

\* Its PNode covers nothing, where the engine is.
LEMMA EmptyNodeOK ==
  ASSUME NEW T, NEW text, NEW q, ParserOK(T, text, q), NEW r, r.sn \in 1..Len(q.sn), r.red.sym \notin DOMAIN T.spell
  PROVE  LET new == EmptyNode(q, r)
             i == q.sn[r.sn].loc
         IN  NewPNode(T, text, q, new) /\ new.sym = r.red.sym /\ new.start = i /\ new.skip = i /\ i \in 0..Len(text)
<1> DEFINE i == q.sn[r.sn].loc
           red == r.red
           sym == r.red.sym
           term == FALSE
           kids == <<>>
           new == EmptyNode(q, r)
<1>1. i \in 0..Len(text) /\ Len(text) \in Nat
  <2>1. Len(text) \in Nat /\ SNodeOK(T, Len(text), Len(q.zn), Len(q.pn), q.sn[r.sn])
    BY ParserFacts
  <2> QED
    BY <2>1, SNodeFacts
<1>2. IsSeq(kids) /\ ToSet(kids) \subseteq 1..Len(q.pn)
  BY EmptyFacts
<1>3. PNodesOK(Len(text), q.pn)
  BY DEF ParserOK
<1>4. new = MakePNode(q, sym, i, i, i, term, red, kids)
  BY DEF EmptyNode, Loc
<1> HIDE DEF i, red, sym, term, kids, new
<1>5. i \in i..Len(text)
  BY <1>1
<1>6. Made(Len(text), Len(q.pn), MakePNode(q, sym, i, i, i, term, red, kids), sym, i, i, i, term)
  BY <1>1, <1>2, <1>3, <1>5, MakePNodeOK
<1>7. NewPNode(T, text, q, new) /\ new.sym = sym /\ new.start = i /\ new.skip = i
  BY <1>4, <1>6 DEF NewPNode, Made, sym, term
<1> QED
  BY <1>1, <1>7 DEF new, i, sym

\* The reduction of an empty rule adds a link from the node itself.
LEMMA ReduceEmptyOK ==
  ASSUME NEW T, TableOK(T), GotoOK(T), NEW text, NEW q, Whole(T, text, q), NEW P, Rooted(Stack!Root(P), q),
         NEW r, Reducing(T, q, r), NEW rule, Ruled(T, P, q, r, rule), r.red.n = 0
  PROVE  Kept(T, text, Stack!Root(P), q, After(P, q, r, rule),
              GotoAll(AddPNode(q, EmptyNode(q, r)), q.sn[r.sn].loc, <<r.sn>>))
<1> DEFINE A == After(P, q, r, rule)
           X == r.red.sym
           s == r.sn
           i == q.sn[s].loc
           new == EmptyNode(q, r)
           nodes == <<s>>
           root == Stack!Root(P)
<1>1. ParserOK(T, text, q) /\ q.t = T /\ Len(text) \in Nat
  <2>1. ParserOK(T, text, q)
    BY DEF Whole
  <2> QED
    BY <2>1, ParserFacts DEF ParserOK
<1>2. s \in 1..Len(q.sn) /\ i = q.epos /\ HasColumn(T, X) /\ X \notin DOMAIN T.spell
  BY DEF Reducing, EntryOK, ReductionOK
<1>3. NewPNode(T, text, q, new) /\ new.sym = X /\ new.start = i /\ new.skip = i /\ i \in 0..Len(text)
  BY <1>1, <1>2, EmptyNodeOK
<1>4. IsSeq(nodes) /\ ToSet(nodes) = {s}
  BY SingleFacts
<1>5. LinksOf(q) \subseteq A
  BY DEF After, Justifies
<1>6. Kept(T, text, root, q, A, q)
  BY <1>5, KeptSelf
<1>7. q.sn[s].state \in DOMAIN T.items
  BY <1>1, <1>2, ParserFacts, SNodeFacts
<1>8. ASSUME q.t.goto[q.sn[s].state][new.sym] # 0 PROVE LinkWith(q, new, s, i) \in A
  <2>1. Node(q, s) \in Stack!NodesOf(P, LinksOf(q))
    BY <1>1, <1>2, LowerOnStack
  <2>2. Node(q, s)[1] = q.sn[s].state
    BY DEF Node, StateOf
  <2>3. Stack!HasGoto(P, Node(q, s), X)
    BY <1>1, <1>2, <1>3, <1>7, <1>8, <2>2 DEF Stack!HasGoto, HasColumn, Ruled, Poses
  <2>4. FromBelow(P, LinksOf(q), r.red.n, r.red.sym, Node(q, r.sn), Node(q, s))
    BY <2>1, <2>3, EmptyBelow
  <2>5. Grows(q, q)
    BY <1>6 DEF Kept
  <2>6. i \in Int
    BY SMTT(30), <1>1, <1>3
  <2> QED
    BY <1>1, <1>3, <2>4, <2>5, <2>6, GotoJustified
<1> HIDE DEF new, nodes, A, root
<1>9. CanLink(T, text, A, q, new, i, nodes)
  <2>1. Lands(T, text, q.epos, new.sym, i)
    BY <1>2, <1>3 DEF Lands
  <2>2. HasColumn(T, new.sym) /\ i <= i /\ q.epos <= i /\ new.skip <= i
    BY <1>1, <1>2, <1>3
  <2>3. \A ps \in ToSet(nodes) : new.start = q.sn[ps].loc
    BY <1>3, <1>4
  <2>4. \A ps \in ToSet(nodes) : q.t.goto[q.sn[ps].state][new.sym] # 0 => LinkWith(q, new, ps, i) \in A
    BY <1>4, <1>8
  <2>5. ToSet(nodes) \subseteq 1..Len(q.sn)
    BY <1>2, <1>4
  <2> HIDE DEF i
  <2> QED
    BY <1>3, <1>4, <2>1, <2>2, <2>3, <2>4, <2>5 DEF CanLink
<1>10. Kept(T, text, root, q, A, GotoAll(AddPNode(q, new), i, nodes))
  BY <1>3, <1>6, <1>9, AddAndGoto
<1> QED
  BY <1>10 DEF new, nodes, A, root

\* reduce_one
PathStep(r, b, c, u, path) == ReducePath(u, r, path)
PathHolds(d, u) == Kept(d[1], d[2], d[3], d[4], d[5], u)
PathFold == INSTANCE Folding WITH Step <- PathStep, Holds <- PathHolds

\* reduce_one adds links that the reduction justifies.
LEMMA ReduceOneOK ==
  ASSUME NEW T, TableOK(T), GotoOK(T), NEW text, NEW q, Whole(T, text, q), NEW P, Rooted(Stack!Root(P), q),
         NEW r, Reducing(T, q, r), NEW rule, Ruled(T, P, q, r, rule)
  PROVE  Kept(T, text, Stack!Root(P), q, After(P, q, r, rule), ReduceOne(q, r))
<1> DEFINE A == After(P, q, r, rule)
           root == Stack!Root(P)
           s == r.sn
           z == r.z
           n == r.red.n
           paths == Paths(q, z, n)
           each == FoldSteps(LAMBDA u, path : ReducePath(u, r, path), q, paths)
<1>1. ReduceOne(q, r) = IF z = 0 THEN GotoAll(AddPNode(q, EmptyNode(q, r)), q.sn[r.sn].loc, <<r.sn>>) ELSE each
  BY DEF ReduceOne, EmptyNode, Loc
<1>2. ParserOK(T, text, q)
  BY DEF Whole
<1>3. s \in 1..Len(q.sn) /\ n \in Nat /\ IF n = 0 THEN z = 0 ELSE z \in ToSet(q.sn[s].zns)
  BY DEF Reducing, EntryOK, ReductionOK
<1>4. Traversed(q)
  BY <1>2, ParserTraversed
<1>5. CASE n = 0
  <2>1. Kept(T, text, root, q, A, GotoAll(AddPNode(q, EmptyNode(q, r)), q.sn[r.sn].loc, <<r.sn>>))
    BY <1>5, ReduceEmptyOK
  <2> QED
    BY <1>1, <1>3, <1>5, <2>1
<1>6. CASE n # 0
  <2>1. z \in 1..Len(q.zn) /\ n > 0 /\ z # 0
    BY <1>3, <1>4, <1>6 DEF Traversed
  <2>2. ArePaths(q, z, n, paths)
    BY <1>3, <1>4, <2>1, PathsOK
  <2>3. Len(paths) \in Nat
    BY <2>2, SeqFacts DEF ArePaths
  <2>4. each = PathFold!Values(r, 0, 0, q, paths)[Len(paths)]
    BY DEF PathStep, PathFold!Values, PathFold!FoldsTo, FoldSteps
  <2> DEFINE d == <<T, text, root, q, A>>
  <2> HIDE DEF paths, each
  <2>5. PathHolds(d, q)
    <3>1. LinksOf(q) \subseteq A
      BY DEF After, Justifies
    <3> HIDE DEF A, root
    <3>2. Kept(T, text, Stack!Root(P), q, A, q)
      BY <3>1, KeptSelf
    <3> QED
      BY <3>2 DEF PathHolds, root
  <2>6. ASSUME NEW k \in 1..Len(paths), NEW u, PathHolds(d, u) PROVE PathHolds(d, PathStep(r, 0, 0, u, paths[k]))
    <3>1. Kept(T, text, root, q, A, u)
      BY <2>6 DEF PathHolds
    <3> DEFINE path == paths[k]
    <3>2. PathOK(q, z, n, path)
      BY <2>2 DEF ArePaths
    <3> HIDE DEF path
    <3>3. Kept(T, text, root, q, A, ReducePath(u, r, path))
      BY <2>1, <3>1, <3>2, ReducePathOK
    <3> HIDE DEF A, root
    <3> QED
      BY <3>3 DEF PathHolds, PathStep, path
  <2> HIDE DEF d
  <2>7. PathHolds(d, PathFold!Values(r, 0, 0, q, paths)[Len(paths)])
    BY <2>3, <2>5, <2>6, PathFold!FoldKeeps
  <2>8. Kept(T, text, root, q, A, each)
    BY <2>4, <2>7 DEF PathHolds, d
  <2> QED
    BY <1>1, <2>1, <2>8
<1> QED
  BY <1>5, <1>6

-----------------------------------------------------------------------------
(* Scanning.                                                               *)

\* white_space ends somewhere, behind blanks only.
LEMMA WhiteOK ==
  ASSUME IsSeq(input), NEW i \in 0..Len(input)
  PROVE  AfterBlanks(input, i, White(i)) /\ White(i) \in i..Len(input)
<1> DEFINE n == Len(input)
           Run(j) == \A k \in (i + 1)..j : input[k] = Blank
           js == {j \in i..n : Run(j)}
           m == MaxOf(js)
           Ends(j) == Run(j) /\ (j < n => input[j + 1] # Blank)
<1>1. n \in Nat
  BY SeqFacts
<1>2. js \subseteq 0..n
  BY <1>1
<1>3. i \in js
  BY <1>1
<1> HIDE DEF n
<1>4. m \in js /\ \A y \in js : y <= m
  <2> HIDE DEF js
  <2>1. js # {}
    BY <1>3
  <2> QED
    BY <1>1, <1>2, <2>1, MaxExists
<1> HIDE DEF m
<1>5. m < n => input[m + 1] # Blank
  <2>1. SUFFICES ASSUME m < n, input[m + 1] = Blank PROVE FALSE
    OBVIOUS
  <2>2. m \in Int /\ m + 1 \in i..n
    BY <1>1, <1>4, <2>1
  <2>3. ASSUME NEW k \in (i + 1)..(m + 1) PROVE input[k] = Blank
    <3>1. CASE k = m + 1
      BY <2>1, <3>1
    <3>2. CASE k # m + 1
      BY <1>4, <2>2, <3>2
    <3> QED
      BY <3>1, <3>2
  <2>4. m + 1 \in js
    BY <2>2, <2>3
  <2> HIDE DEF js
  <2>5. m + 1 <= m
    BY <1>4, <2>4
  <2> QED
    BY <2>2, <2>5
<1>6. m \in i..n /\ Ends(m)
  BY <1>4, <1>5
<1>7. White(i) = CHOOSE j \in i..n : Ends(j)
  BY DEF White, n
<1> DEFINE w == White(i)
<1> HIDE DEF w
<1>8. w \in i..n /\ Ends(w)
  <2> HIDE DEF Ends
  <2> QED
    BY <1>6, <1>7 DEF w
<1>9. AfterBlanks(input, i, w)
  BY <1>8 DEF AfterBlanks, n
<1> QED
  BY <1>8, <1>9 DEF w, n

\* A token that the scanner reports from location i of a state.
Scanned(T, state, i, m) ==
  m.term \in T.shifts[state] /\ m.end = i + Len(T.spell[m.term]) /\ Spelled(T, m.term, i)

\* The tokens of one length.
Emitted(ts, e) == {[term |-> t, end |-> e] : t \in ts}

\* The scanner reports tokens of the state that the input spells.
LEMMA EmittedOK ==
  ASSUME NEW T, TableOK(T), NEW state \in DOMAIN T.items, NEW i, NEW n, NEW ts, ts \subseteq T.shifts[state],
         \A t \in ts : Len(T.spell[t]) = n /\ Spelled(T, t, i)
  PROVE  /\ IsSeq(SetToSeq(Emitted(ts, i + n)))
         /\ \A m \in ToSet(SetToSeq(Emitted(ts, i + n))) : Scanned(T, state, i, m)
<1> DEFINE ms == Emitted(ts, i + n)
           f == [t \in ts |-> [term |-> t, end |-> i + n]]
<1>1. IsFiniteSet(ts)
  BY FS_Subset DEF TableOK
<1>2. f \in [ts -> ms] /\ \A m \in ms : \E t \in ts : f[t] = m
  BY DEF Emitted
<1>3. f \in Surjection(ts, ms)
  <2> HIDE DEF f, ms
  <2> QED
    BY <1>2 DEF Surjection
<1>4. IsFiniteSet(ms)
  <2> HIDE DEF f, ms
  <2> QED
    BY <1>1, <1>3, FS_Surjection
<1>5. ASSUME NEW m \in ms PROVE Scanned(T, state, i, m)
  <2>1. PICK t \in ts : m = [term |-> t, end |-> i + n]
    BY DEF Emitted
  <2>2. m.term = t /\ m.end = i + n
    BY <2>1
  <2> QED
    BY <2>2 DEF Scanned
<1> HIDE DEF ms
<1>6. IsSeq(SetToSeq(ms)) /\ ToSet(SetToSeq(ms)) \subseteq ms
  BY <1>4, SetToSeqFacts
<1>7. IsSeq(SetToSeq(ms)) /\ \A m \in ToSet(SetToSeq(ms)) : Scanned(T, state, i, m)
  BY <1>5, <1>6
<1> QED
  BY <1>7 DEF ms

\* scan_buffer reports only tokens that stand there.
LEMMA ScanOK ==
  ASSUME NEW T, TableOK(T), NEW q, q.t = T, IsSeq(input), NEW state \in DOMAIN T.items, NEW i \in 0..Len(input)
  PROVE  IsSeq(Scan(q, state, i)) /\ \A m \in ToSet(Scan(q, state, i)) : Scanned(T, state, i, m)
<1> DEFINE Live1(n) == {t \in q.t.shifts[state] : /\ n <= Len(q.t.spell[t])
                                                 /\ i + n <= Len(input)
                                                 /\ Agrees(q.t.spell[t], i, n)}
           Accepts(n) == {t \in Live1(n) : Len(q.t.spell[t]) = n}
           rs == {n \in 0..(Len(input) - i) : Live1(n) # {}} \cup {0}
           reach == MaxOf(rs)
           ls == {n \in 1..reach : Accepts(n) # {}} \cup {0}
           last  == MaxOf(ls)
           At(n) == SetToSeq(Emitted(Accepts(n), i + n))
           ss == [n \in 1..reach |-> IF n < reach THEN At(n) ELSE <<>>]
           tail == IF last = 0 THEN <<>> ELSE At(last)
           Good(s) == IsSeq(s) /\ \A m \in ToSet(s) : Scanned(T, state, i, m)
<1>1. Scan(q, state, i) = FlattenSeq(ss) \o tail
  BY DEF Scan, Emitted
<1>2. Len(input) \in Nat
  BY SeqFacts
<1>3. ASSUME NEW n PROVE Good(At(n))
  <2> DEFINE ts == Accepts(n)
  <2>1. ts \subseteq T.shifts[state]
    OBVIOUS
  <2>2. \A t \in ts : Len(T.spell[t]) = n /\ Spelled(T, t, i)
    BY DEF Spelled
  <2> HIDE DEF ts
  <2>3. /\ IsSeq(SetToSeq(Emitted(ts, i + n)))
        /\ \A m \in ToSet(SetToSeq(Emitted(ts, i + n))) : Scanned(T, state, i, m)
    BY <2>1, <2>2, EmittedOK
  <2> QED
    BY <2>3 DEF ts
<1>4. Good(<<>>)
  BY EmptyFacts
<1> HIDE DEF Good, At, Live1
<1>5. reach \in Nat
  <2> DEFINE k == Len(input) - i
  <2>1. rs \subseteq 0..k /\ rs # {} /\ k \in Nat
    BY <1>2
  <2> HIDE DEF rs, k
  <2>2. MaxOf(rs) \in rs
    BY <2>1, MaxExists
  <2>3. MaxOf(rs) \in 0..k
    BY <2>1, <2>2
  <2> QED
    BY <2>1, <2>3
<1> HIDE DEF reach
<1>6. Good(tail)
  BY <1>3, <1>4
<1> HIDE DEF tail
<1>7. Good(FlattenSeq(ss))
  <2>1. ss = [n \in 1..reach |-> ss[n]] /\ \A n \in 1..reach : ss[n] = IF n < reach THEN At(n) ELSE <<>>
    OBVIOUS
  <2>2. \A n \in 1..reach : Good(ss[n])
    BY <1>3, <1>4, <2>1
  <2> HIDE DEF ss
  <2>3. IsSeq(ss) /\ Len(ss) = reach
    BY <1>5, <2>1, FunctionIsSeq
  <2>4. \A n \in 1..Len(ss) : IsSeq(ss[n])
    BY <2>2, <2>3 DEF Good
  <2>5. IsSeq(FlattenSeq(ss)) /\ ToSet(FlattenSeq(ss)) = UNION {ToSet(ss[k]) : k \in 1..Len(ss)}
    BY <2>3, <2>4, FlattenFacts
  <2>6. ASSUME NEW m \in ToSet(FlattenSeq(ss)) PROVE Scanned(T, state, i, m)
    <3>1. PICK k \in 1..Len(ss) : m \in ToSet(ss[k])
      BY <2>5
    <3> QED
      BY <2>2, <2>3, <3>1 DEF Good
  <2> QED
    BY <2>5, <2>6 DEF Good
<1>8. IsSeq(FlattenSeq(ss) \o tail) /\ ToSet(FlattenSeq(ss) \o tail) = ToSet(FlattenSeq(ss)) \cup ToSet(tail)
  <2> DEFINE a == FlattenSeq(ss)
  <2>1. IsSeq(a) /\ IsSeq(tail)
    BY <1>6, <1>7 DEF Good
  <2> HIDE DEF a
  <2>2. IsSeq(a \o tail) /\ ToSet(a \o tail) = ToSet(a) \cup ToSet(tail)
    BY <2>1, ConcatFacts
  <2> QED
    BY <2>2 DEF a
<1> QED
  BY <1>1, <1>6, <1>7, <1>8 DEF Good

-----------------------------------------------------------------------------
(* A round of shifts.                                                      *)

\* A token read from a node at the location the engine is at.
Read(T, q, m) ==
  m.sn \in 1..Len(q.sn) /\ q.sn[m.sn].loc = q.epos /\ Scanned(T, q.sn[m.sn].state, q.epos, m)

\* The links there may be after a round of shifts.
WithShifted(P, L) ==
  L \cup {e \in UNION {{Stack!LinkTo(P, v, t[1], t[3]) : v \in Stack!NodesOf(P, L)} : t \in P.tokens} :
            Stack!Shifted(P, L, e)}

ShiftPNode(u, m) == MakePNode(u, m.term, Loc(u, m.sn), m.end, m.end, TRUE, ShiftRed(u, m.term), <<>>)

\* The PNode of a token covers it.
LEMMA ShiftPNodeOK ==
  ASSUME NEW T, NEW text, NEW u, ParserOK(T, text, u), NEW m, m.term \in DOMAIN T.spell,
         NEW i \in 0..Len(text), Loc(u, m.sn) = i, m.end \in i..Len(text)
  PROVE  LET new == ShiftPNode(u, m)
         IN  NewPNode(T, text, u, new) /\ new.sym = m.term /\ new.start = i /\ new.skip = m.end
<1> DEFINE end == m.end
           red == ShiftRed(u, m.term)
           sym == m.term
           term == TRUE
           kids == <<>>
           new == ShiftPNode(u, m)
<1>1. Len(text) \in Nat /\ PNodesOK(Len(text), u.pn)
  BY ParserFacts DEF ParserOK
<1>2. IsSeq(kids) /\ ToSet(kids) \subseteq 1..Len(u.pn)
  BY EmptyFacts
<1>3. end \in i..Len(text) /\ end \in end..Len(text)
  BY <1>1
<1>4. new = MakePNode(u, sym, i, end, end, term, red, kids)
  BY DEF ShiftPNode
<1> HIDE DEF end, red, sym, term, kids, new
<1>5. Made(Len(text), Len(u.pn), MakePNode(u, sym, i, end, end, term, red, kids), sym, i, end, end, term)
  BY <1>1, <1>2, <1>3, MakePNodeOK
<1>6. NewPNode(T, text, u, new) /\ new.sym = sym /\ new.start = i /\ new.skip = end
  BY <1>4, <1>5 DEF NewPNode, Made, sym, term
<1> QED
  BY <1>6 DEF new, sym, end

\* The link of a token is justified.
LEMMA TokenJustified ==
  ASSUME NEW T, NEW q, NEW P, Poses(T, P), P.tokens = Tokens(T), NEW L, NEW s, Node(q, s) \in Stack!NodesOf(P, L),
         NEW t, t \in DOMAIN T.spell, NEW i \in 0..Len(input), Spelled(T, t, i), q.sn[s].loc = i,
         t \in DOMAIN T.goto[q.sn[s].state], T.goto[q.sn[s].state][t] # 0
  PROVE  Stack!LinkTo(P, Node(q, s), t, White(i + Len(T.spell[t]))) \in WithShifted(P, L)
<1> DEFINE token == <<t, i, White(i + Len(T.spell[t]))>>
           v == Node(q, s)
           e == Stack!LinkTo(P, v, t, White(i + Len(T.spell[t])))
<1>1. token \in P.tokens
  BY DEF Tokens
<1>2. token[1] = t /\ token[2] = i /\ token[3] = White(i + Len(T.spell[t]))
  OBVIOUS
<1>3. v[1] = q.sn[s].state /\ v[2] = i
  BY DEF Node, StateOf, Loc
<1>4. Stack!HasGoto(P, v, t)
  BY <1>3 DEF Stack!HasGoto, Poses
<1>5. e = Stack!LinkTo(P, v, token[1], token[3])
  BY <1>2
<1>6. v \in Stack!NodesOf(P, L)
  OBVIOUS
<1> HIDE DEF v, e, token
<1>7. Stack!Shifted(P, L, e)
  BY <1>1, <1>2, <1>3, <1>4, <1>5, <1>6 DEF Stack!Shifted
<1>8. e \in UNION {{Stack!LinkTo(P, w, x[1], x[3]) : w \in Stack!NodesOf(P, L)} : x \in P.tokens}
  BY <1>1, <1>5, <1>6
<1> QED
  BY <1>7, <1>8 DEF WithShifted, e, v

\* One token of shift_all adds links that its tokens justify.
LEMMA ShiftOneOK ==
  ASSUME NEW T, TableOK(T), GotoOK(T), IsSeq(input), NEW q, Whole(T, input, q),
         NEW P, Poses(T, P), P.tokens = Tokens(T), Rooted(Stack!Root(P), q), NEW m, Read(T, q, m),
         NEW u, Kept(T, input, Stack!Root(P), q, WithShifted(P, LinksOf(q)), u)
  PROVE  Kept(T, input, Stack!Root(P), q, WithShifted(P, LinksOf(q)), ShiftOne(u, m))
<1> DEFINE A == WithShifted(P, LinksOf(q))
           root == Stack!Root(P)
           s == m.sn
           t == m.term
           i == q.epos
           new == ShiftPNode(u, m)
           loc == White(m.end)
           nodes == <<s>>
<1>1. ParserOK(T, input, q) /\ ParserOK(T, input, u) /\ Grows(q, u)
  BY DEF Kept, Whole
<1>2. s \in 1..Len(q.sn) /\ q.sn[s].loc = i /\ Scanned(T, q.sn[s].state, i, m)
  BY DEF Read
<1>3. q.sn[s].state \in DOMAIN T.items /\ i \in 0..Len(input) /\ Len(input) \in Nat
  <2>1. Len(input) \in Nat /\ SNodeOK(T, Len(input), Len(q.zn), Len(q.pn), q.sn[s])
    BY <1>1, <1>2, ParserFacts
  <2> QED
    BY <1>2, <2>1, SNodeFacts
<1>4. t \in T.shifts[q.sn[s].state] /\ m.end = i + Len(T.spell[t]) /\ Spelled(T, t, i)
  BY <1>2 DEF Scanned
<1>5. t \in DOMAIN T.spell /\ HasColumn(T, t) /\ Len(T.spell[t]) \in Nat
  <2>1. t \in DOMAIN T.spell /\ HasColumn(T, t)
    BY <1>3, <1>4 DEF TableOK
  <2>2. IsSeq(T.spell[t])
    BY <2>1 DEF TableOK
  <2> QED
    BY <2>1, <2>2, SeqFacts
<1>6. m.end \in i..Len(input) /\ m.end \in 0..Len(input)
  BY <1>3, <1>4, <1>5 DEF Spelled
<1>7. AfterBlanks(input, m.end, loc) /\ loc \in m.end..Len(input)
  BY <1>6, WhiteOK
<1>8. u.epos = i /\ u.t = T /\ s \in 1..Len(u.sn) /\ u.sn[s].loc = i /\ u.sn[s].state = q.sn[s].state /\ Node(u, s) = Node(q, s)
  <2>1. Grown(q.sn, u.sn) /\ u.epos = i /\ u.t = T
    BY <1>1 DEF Grows, ParserOK
  <2>2. s \in 1..Len(u.sn) /\ Node(u, s) = Node(q, s)
    BY <1>2, <2>1, NodeKept
  <2>3. u.sn[s].loc = i /\ u.sn[s].state = q.sn[s].state
    BY <1>2, <2>1 DEF Grown
  <2> QED
    BY <2>1, <2>2, <2>3
<1>9. NewPNode(T, input, u, new) /\ new.sym = t /\ new.start = i /\ new.skip = m.end
  <2>1. Loc(u, m.sn) = i
    BY <1>8 DEF Loc
  <2> QED
    BY <1>1, <1>3, <1>5, <1>6, <2>1, ShiftPNodeOK
<1>10. IsSeq(nodes) /\ ToSet(nodes) = {s}
  BY SingleFacts
<1>11. ASSUME T.goto[q.sn[s].state][t] # 0 PROVE LinkWith(u, new, s, loc) \in A
  <2>1. Node(q, s) \in Stack!NodesOf(P, LinksOf(q))
    BY <1>1, <1>2, LowerOnStack
  <2>2. t \in DOMAIN T.goto[q.sn[s].state]
    BY SMTT(30), <1>3, <1>5 DEF HasColumn
  <2>3. Stack!LinkTo(P, Node(q, s), t, White(i + Len(T.spell[t]))) \in A
    BY <1>2, <1>3, <1>4, <1>5, <1>11, <2>1, <2>2, TokenJustified
  <2>4. LinkWith(u, new, s, loc) = Stack!LinkTo(P, Node(q, s), t, White(i + Len(T.spell[t])))
    <3>1. Node(q, s)[1] = q.sn[s].state
      BY DEF Node, StateOf
    <3> QED
      BY <1>4, <1>8, <1>9, <3>1 DEF LinkWith, Stack!LinkTo, Poses
  <2> QED
    BY <2>3, <2>4
<1> HIDE DEF new, nodes, loc, A, root
<1>12. CanLink(T, input, A, u, new, loc, nodes)
  <2>1. Lands(T, input, u.epos, new.sym, loc)
    BY <1>4, <1>5, <1>7, <1>8, <1>9 DEF Lands
  <2>2. HasColumn(T, new.sym)
    BY <1>5, <1>9
  <2>3. loc \in 0..Len(input) /\ u.epos <= loc /\ new.skip <= loc
    BY <1>3, <1>6, <1>7, <1>8, <1>9
  <2>4. \A ps \in ToSet(nodes) : new.start = u.sn[ps].loc
    BY <1>8, <1>9, <1>10
  <2>5. \A ps \in ToSet(nodes) : u.t.goto[u.sn[ps].state][new.sym] # 0 => LinkWith(u, new, ps, loc) \in A
    BY <1>8, <1>9, <1>10, <1>11
  <2>6. IsSeq(nodes) /\ ToSet(nodes) \subseteq 1..Len(u.sn)
    BY <1>8, <1>10
  <2> QED
    BY <2>1, <2>2, <2>3, <2>4, <2>5, <2>6 DEF CanLink
<1>13. Kept(T, input, root, q, A, u)
  BY DEF A, root
<1>14. Kept(T, input, root, q, A, GotoAll(AddPNode(u, new), loc, nodes))
  BY <1>9, <1>12, <1>13, AddAndGoto
<1>15. ShiftOne(u, m) = GotoAll(AddPNode(u, new), loc, nodes)
  BY DEF ShiftOne, ShiftPNode, new, loc, nodes
<1> QED
  BY <1>14, <1>15 DEF A, root

-----------------------------------------------------------------------------
(* The work lists lose entries, and a generation of nodes is retired.      *)

\* b is a with some of its elements left out: f says where they are in a.
PartOf(a, b, f) ==
  /\ \A i \in 1..Len(b) : f[i] \in 1..Len(a) /\ b[i] = a[f[i]]
  /\ \A i, j \in 1..Len(b) : i < j => f[i] < f[j]

\* A part of a list in order is in order.
LEMMA PartOfShifts ==
  ASSUME NEW epos, NEW sn, NEW a, ShiftsOK(epos, sn, a), NEW b, IsSeq(b), NEW f, PartOf(a, b, f)
  PROVE  ShiftsOK(epos, sn, b)
<1>1. ASSUME NEW i \in 1..Len(b) PROVE b[i] \in 1..Len(sn) /\ epos <= sn[b[i]].loc
  <2>1. f[i] \in 1..Len(a) /\ b[i] = a[f[i]]
    BY DEF PartOf
  <2>2. a[f[i]] \in 1..Len(sn) /\ epos <= sn[a[f[i]]].loc
    BY <2>1 DEF ShiftsOK
  <2> QED
    BY <2>1, <2>2
<1>2. ASSUME NEW i \in 1..Len(b), NEW j \in 1..Len(b), i < j PROVE sn[b[i]].loc <= sn[b[j]].loc
  <2>1. f[i] \in 1..Len(a) /\ b[i] = a[f[i]] /\ f[j] \in 1..Len(a) /\ b[j] = a[f[j]] /\ f[i] < f[j]
    BY <1>2 DEF PartOf
  <2>2. sn[a[f[i]]].loc <= sn[a[f[j]]].loc
    BY <2>1 DEF ShiftsOK
  <2> QED
    BY <2>1, <2>2
<1> QED
  BY <1>1, <1>2 DEF ShiftsOK

\* So is what is left of the list after the nodes that shift.
LEMMA RestOfShifts ==
  ASSUME NEW epos, NEW sn, NEW a, ShiftsOK(epos, sn, a), NEW n \in 0..Len(a)
  PROVE  ShiftsOK(epos, sn, SubSeq(a, n + 1, Len(a)))
<1> DEFINE b == SubSeq(a, n + 1, Len(a))
           f == [i \in 1..Len(b) |-> n + i]
<1>1. IsSeq(a) /\ Len(a) \in Nat
  BY SeqFacts DEF ShiftsOK
<1>2. n + 1 \in 1..(Len(a) + 1) /\ Len(a) \in 0..Len(a)
  BY <1>1
<1>3. /\ IsSeq(b) /\ Len(b) = IF n + 1 <= Len(a) THEN Len(a) - (n + 1) + 1 ELSE 0
      /\ \A i \in 1..(Len(a) - (n + 1) + 1) : b[i] = a[n + 1 + i - 1]
  BY <1>1, <1>2, SubSeqFacts
<1> HIDE DEF b
<1>4. Len(b) = Len(a) - n /\ \A i \in 1..Len(b) : b[i] = a[n + i] /\ n + i \in 1..Len(a)
  BY <1>1, <1>3
<1>5. PartOf(a, b, f)
  BY <1>1, <1>4 DEF PartOf
<1> HIDE DEF f
<1>6. ShiftsOK(epos, sn, b)
  BY <1>3, <1>5, PartOfShifts
<1> QED
  BY <1>6 DEF b

\* So is the list without one of its nodes.
LEMMA LessOneShift ==
  ASSUME NEW epos, NEW sn, NEW a, ShiftsOK(epos, sn, a), NEW k \in 1..Len(a)
  PROVE  ShiftsOK(epos, sn, RemoveAt(a, k))
<1> DEFINE b == RemoveAt(a, k)
           f == [i \in 1..Len(b) |-> IF i < k THEN i ELSE i + 1]
<1>1. IsSeq(a) /\ Len(a) \in Nat
  BY SeqFacts DEF ShiftsOK
<1>2. /\ IsSeq(b) /\ Len(b) = Len(a) - 1
      /\ \A i \in 1..(k - 1) : b[i] = a[i]
      /\ \A i \in k..(Len(a) - 1) : b[i] = a[i + 1]
  BY <1>1, RemoveAtFacts
<1> HIDE DEF b
<1>3. ASSUME NEW i \in 1..Len(b) PROVE f[i] \in 1..Len(a) /\ b[i] = a[f[i]]
  <2>1. CASE i < k
    BY <1>1, <1>2, <2>1
  <2>2. CASE ~(i < k)
    <3>1. i \in k..(Len(a) - 1)
      BY <1>1, <1>2, <2>2
    <3> QED
      BY <1>1, <1>2, <2>2, <3>1
  <2> QED
    BY <2>1, <2>2
<1>4. ASSUME NEW i \in 1..Len(b), NEW j \in 1..Len(b), i < j PROVE f[i] < f[j]
  BY <1>4
<1> HIDE DEF f
<1>5. PartOf(a, b, f)
  BY <1>3, <1>4 DEF PartOf
<1>6. ShiftsOK(epos, sn, b)
  BY <1>2, <1>5, PartOfShifts
<1> QED
  BY <1>6 DEF b

\* So is the list without the reduction that is run.
LEMMA TailOfTodo ==
  ASSUME NEW T, NEW epos, NEW sn, NEW a, TodoOK(T, epos, sn, a), a # <<>>
  PROVE  TodoOK(T, epos, sn, Tail(a)) /\ EntryOK(T, epos, sn, Head(a))
<1> DEFINE b == Tail(a)
<1>1. IsSeq(a)
  BY DEF TodoOK
<1>2. /\ Len(a) > 0 /\ Head(a) = a[1] /\ IsSeq(b) /\ Len(b) = Len(a) - 1
      /\ \A i \in 1..(Len(a) - 1) : b[i] = a[i + 1]
  BY <1>1, TailFacts
<1> HIDE DEF b
<1>3. Len(a) \in Nat /\ \A i \in 1..Len(b) : b[i] = a[i + 1] /\ i + 1 \in 1..Len(a)
  BY <1>1, <1>2, SeqFacts
<1>4. EntryOK(T, epos, sn, Head(a))
  BY <1>2, <1>3 DEF TodoOK
<1>5. ASSUME NEW i \in 1..Len(b) PROVE EntryOK(T, epos, sn, b[i])
  BY <1>3 DEF TodoOK
<1>6. ASSUME NEW i \in 1..Len(b), NEW j \in 1..Len(b), i < j PROVE sn[b[i].sn].loc <= sn[b[j].sn].loc
  <2>1. b[i] = a[i + 1] /\ i + 1 \in 1..Len(a) /\ b[j] = a[j + 1] /\ j + 1 \in 1..Len(a) /\ i + 1 < j + 1
    BY <1>3, <1>6
  <2> DEFINE m == i + 1
             n == j + 1
  <2> HIDE DEF m, n
  <2>2. sn[a[m].sn].loc <= sn[a[n].sn].loc
    BY <2>1 DEF TodoOK, m, n
  <2> QED
    BY <2>1, <2>2 DEF m, n
<1>7. TodoOK(T, epos, sn, b)
  BY <1>2, <1>5, <1>6 DEF TodoOK
<1> QED
  BY <1>4, <1>7 DEF b

\* The head of a list is the nearest of its entries.
LEMMA ShiftsFromHead ==
  ASSUME NEW epos, NEW sn, NEW a, ShiftsOK(epos, sn, a), NEW pos \in Int, \A s \in 1..Len(sn) : sn[s].loc \in Int,
         a # <<>> => pos <= sn[Head(a)].loc
  PROVE  ShiftsOK(pos, sn, a)
<1>1. IsSeq(a) /\ Len(a) \in Nat
  BY SeqFacts DEF ShiftsOK
<1>2. ASSUME NEW i \in 1..Len(a) PROVE a[i] \in 1..Len(sn) /\ pos <= sn[a[i]].loc
  <2>1. a # <<>>
    BY EmptyFacts
  <2>2. Head(a) = a[1]
    BY <1>1, <2>1, TailFacts
  <2>3. 1 \in 1..Len(a) /\ a[1] \in 1..Len(sn) /\ a[i] \in 1..Len(sn)
    BY <1>1 DEF ShiftsOK
  <2>4. CASE i = 1
    BY <2>1, <2>2, <2>3, <2>4
  <2>5. CASE i # 1
    <3>1. sn[a[1]].loc <= sn[a[i]].loc
      BY <2>3, <2>5 DEF ShiftsOK
    <3>2. sn[a[1]].loc \in Int /\ sn[a[i]].loc \in Int /\ pos <= sn[a[1]].loc
      BY <2>1, <2>2, <2>3
    <3> QED
      BY <2>3, <3>1, <3>2
  <2> QED
    BY <2>4, <2>5
<1> QED
  BY <1>2 DEF ShiftsOK

\* No reduction of the list is before its head.
LEMMA TodoFromHead ==
  ASSUME NEW T, NEW epos, NEW sn, NEW a, TodoOK(T, epos, sn, a), NEW pos \in Int, \A s \in 1..Len(sn) : sn[s].loc \in Int,
         a # <<>> => pos <= sn[Head(a).sn].loc
  PROVE  TodoOK(T, pos, sn, a)
<1>1. IsSeq(a) /\ Len(a) \in Nat
  BY SeqFacts DEF TodoOK
<1>2. ASSUME NEW i \in 1..Len(a) PROVE EntryOK(T, pos, sn, a[i])
  <2>1. a # <<>>
    BY EmptyFacts
  <2>2. Head(a) = a[1]
    BY <1>1, <2>1, TailFacts
  <2>3. 1 \in 1..Len(a) /\ EntryOK(T, epos, sn, a[1]) /\ EntryOK(T, epos, sn, a[i])
    BY <1>1 DEF TodoOK
  <2>4. sn[a[1].sn].loc \in Int /\ sn[a[i].sn].loc \in Int /\ pos <= sn[a[1].sn].loc
    BY <2>1, <2>2, <2>3 DEF EntryOK
  <2>5. i # 1 => sn[a[1].sn].loc <= sn[a[i].sn].loc
    BY <2>3 DEF TodoOK
  <2>6. pos <= sn[a[i].sn].loc
    BY <2>4, <2>5
  <2> QED
    BY <2>3, <2>6 DEF EntryOK
<1>3. \A i, j \in 1..Len(a) : i < j => sn[a[i].sn].loc <= sn[a[j].sn].loc
  BY DEF TodoOK
<1> QED
  BY <1>1, <1>2, <1>3 DEF TodoOK

\* The links depend on the stack and on the symbols of the PNodes.
LEMMA SameLinksOf ==
  ASSUME NEW T, NEW text, NEW q, ParserOK(T, text, q), NEW u, u.sn = q.sn, u.zn = q.zn, GrownForest(q.pn, u.pn)
  PROVE  LinksOf(u) = LinksOf(q) /\ \A root : Rooted(root, q) => Rooted(root, u)
<1>1. IsSeq(q.sn) /\ IsSeq(u.sn)
  BY ParserFacts
<1>2. \A s, z, b : IsLink(u, s, z, b) <=> IsLink(q, s, z, b)
  BY DEF IsLink
<1>3. ASSUME NEW s, NEW z, NEW b, IsLink(q, s, z, b) PROVE LinkOf(u, s, z, b) = LinkOf(q, s, z, b)
  <2>1. q.zn[z].pn \in 1..Len(q.pn)
    BY <1>3, LinkRange
  <2>2. u.pn[q.zn[z].pn].sym = q.pn[q.zn[z].pn].sym
    BY <2>1 DEF GrownForest, SameSpan
  <2> QED
    BY <2>2 DEF LinkOf, Node, StateOf, Loc
<1>4. ASSUME NEW e PROVE e \in LinksOf(u) <=> e \in LinksOf(q)
  <2>1. e \in LinksOf(u) <=> \E s, z, b : IsLink(u, s, z, b) /\ e = LinkOf(u, s, z, b)
    BY <1>1, InLinks
  <2>2. e \in LinksOf(q) <=> \E s, z, b : IsLink(q, s, z, b) /\ e = LinkOf(q, s, z, b)
    BY <1>1, InLinks
  <2>3. (\E s, z, b : IsLink(u, s, z, b) /\ e = LinkOf(u, s, z, b)) <=> \E s, z, b : IsLink(q, s, z, b) /\ e = LinkOf(q, s, z, b)
    BY <1>2, <1>3
  <2> QED
    BY <2>1, <2>2, <2>3
<1>5. LinksOf(u) = LinksOf(q)
  BY <1>4
<1>6. ASSUME NEW root, Rooted(root, q) PROVE Rooted(root, u)
  BY <1>5, <1>6 DEF Rooted, Node, StateOf, Loc
<1> QED
  BY <1>5, <1>6

\* u is q but for its work lists.
OtherLists(T, q, u) ==
  /\ IsParser(u) /\ u.t = q.t /\ u.sn = q.sn /\ u.zn = q.zn /\ u.pn = q.pn /\ u.hashS = q.hashS /\ u.hashP = q.hashP
  /\ u.accept = q.accept /\ u.epos = q.epos
  /\ TodoOK(T, q.epos, q.sn, u.todo) /\ ShiftsOK(q.epos, q.sn, u.shifts)

\* A change of the work lists keeps the invariant and the stack.
LEMMA OtherListsKeep ==
  ASSUME NEW T, NEW text, NEW q, Whole(T, text, q), NEW u, OtherLists(T, q, u)
  PROVE  Whole(T, text, u) /\ LinksOf(u) = LinksOf(q) /\ \A root : Rooted(root, q) => Rooted(root, u)
<1>1. ParserOK(T, text, q)
  BY DEF Whole
<1>2. ParserOK(T, text, u)
  BY <1>1 DEF ParserOK, OtherLists
<1>3. Whole(T, text, u)
  BY <1>2 DEF Whole, OtherLists
<1>4. u.sn = q.sn /\ u.zn = q.zn /\ GrownForest(q.pn, u.pn)
  <2>1. Len(q.pn) \in Nat
    BY <1>1, ParserFacts
  <2> QED
    BY <2>1 DEF OtherLists, GrownForest, SameSpan
<1>5. LinksOf(u) = LinksOf(q) /\ \A root : Rooted(root, q) => Rooted(root, u)
  BY <1>1, <1>4, SameLinksOf
<1> QED
  BY <1>3, <1>5

WithShifts(q, shifts) == [q EXCEPT !.shifts = shifts]
WithTodo(q, todo) == [q EXCEPT !.todo = todo]

\* A parser with another list of shifts.
LEMMA WithShiftsOK ==
  ASSUME NEW T, NEW text, NEW q, ParserOK(T, text, q), NEW shifts, ShiftsOK(q.epos, q.sn, shifts)
  PROVE  OtherLists(T, q, WithShifts(q, shifts)) /\ WithShifts(q, shifts).shifts = shifts /\ WithShifts(q, shifts).todo = q.todo
<1> DEFINE u == WithShifts(q, shifts)
<1>1. IsParser(q) /\ TodoOK(T, q.epos, q.sn, q.todo)
  BY DEF ParserOK
<1>2. u = [q EXCEPT !.shifts = shifts]
  BY DEF WithShifts
<1> HIDE DEF u
<1>3. /\ IsParser(u) /\ u.todo = q.todo /\ u.shifts = shifts
      /\ u.t = q.t /\ u.sn = q.sn /\ u.zn = q.zn /\ u.pn = q.pn /\ u.hashS = q.hashS /\ u.hashP = q.hashP
      /\ u.accept = q.accept /\ u.epos = q.epos
  BY <1>1, <1>2 DEF IsParser
<1>4. OtherLists(T, q, u)
  BY <1>1, <1>3 DEF OtherLists
<1> QED
  BY <1>3, <1>4 DEF u

\* A parser with another list of reductions.
LEMMA WithTodoOK ==
  ASSUME NEW T, NEW text, NEW q, ParserOK(T, text, q), NEW todo, TodoOK(T, q.epos, q.sn, todo)
  PROVE  OtherLists(T, q, WithTodo(q, todo)) /\ WithTodo(q, todo).todo = todo
<1> DEFINE u == WithTodo(q, todo)
<1>1. IsParser(q) /\ ShiftsOK(q.epos, q.sn, q.shifts)
  BY DEF ParserOK
<1>2. u = [q EXCEPT !.todo = todo]
  BY DEF WithTodo
<1> HIDE DEF u
<1>3. /\ IsParser(u) /\ u.todo = todo /\ u.shifts = q.shifts
      /\ u.t = q.t /\ u.sn = q.sn /\ u.zn = q.zn /\ u.pn = q.pn /\ u.hashS = q.hashS /\ u.hashP = q.hashP
      /\ u.accept = q.accept /\ u.epos = q.epos
  BY <1>1, <1>2 DEF IsParser
<1>4. OtherLists(T, q, u)
  BY <1>1, <1>3 DEF OtherLists
<1> QED
  BY <1>3, <1>4 DEF u

\* cmp_stacks takes nodes off the list of shifts.
OutrankStep(q, pos, c, list, i) == Outrank(q, pos, list, i)
OutrankHolds(d, list) == ShiftsOK(d[1], d[2], list)
OutrankFold == INSTANCE Folding WITH Step <- OutrankStep, Holds <- OutrankHolds

\* One node of the list is compared with the rest, and the list stays in order.
LEMMA OutrankOK ==
  ASSUME NEW q, NEW pos, NEW epos, NEW sn, NEW list, ShiftsOK(epos, sn, list), NEW i \in Nat, i > 0
  PROVE  ShiftsOK(epos, sn, Outrank(q, pos, list, i))
<1> DEFINE Here(j) == j <= Len(list) /\ Loc(q, list[j]) = pos
           uneven == {j \in (i + 1)..Len(list) : /\ Here(i) /\ Here(j) /\ Rivals(q, list[i], list[j])
                                                 /\ OpPriority(q, list[i]) # OpPriority(q, list[j])}
           j == MinOf(uneven)
           k == IF OpPriority(q, list[i]) > OpPriority(q, list[j]) THEN j ELSE i
<1>1. Outrank(q, pos, list, i) = IF uneven = {} THEN list ELSE RemoveAt(list, k)
  BY DEF Outrank
<1>2. CASE uneven = {}
  BY <1>1, <1>2
<1>3. CASE uneven # {}
  <2>1. uneven \subseteq (i + 1)..Len(list) /\ i <= Len(list)
    BY <1>3
  <2>2. Len(list) \in Nat
    BY SeqFacts DEF ShiftsOK
  <2> HIDE DEF uneven
  <2>3. uneven \subseteq Nat
    BY <2>1, <2>2
  <2>4. j \in uneven
    BY <1>3, <2>3, MinExists
  <2> HIDE DEF j
  <2>5. j \in 1..Len(list) /\ i \in 1..Len(list)
    BY <2>1, <2>2, <2>4
  <2>6. k \in 1..Len(list)
    BY <2>5
  <2> HIDE DEF k
  <2>7. ShiftsOK(epos, sn, RemoveAt(list, k))
    BY <2>6, LessOneShift
  <2> QED
    BY <1>1, <1>3, <2>7
<1> QED
  BY <1>2, <1>3

\* cmp_stacks changes the list of shifts only, and keeps it in order.
LEMMA CmpStacksOK ==
  ASSUME NEW T, NEW text, NEW q, ParserOK(T, text, q), NEW pos, ShiftsOK(pos, q.sn, q.shifts)
  PROVE  \E shifts : CmpStacks(q) = WithShifts(q, shifts) /\ ShiftsOK(q.epos, q.sn, shifts) /\ ShiftsOK(pos, q.sn, shifts)
<1> DEFINE at == Loc(q, Head(q.shifts))
           is == [i \in DOMAIN q.shifts |-> i]
           shifts == FoldSteps(LAMBDA list, i : Outrank(q, at, list, i), q.shifts, is)
<1>1. CmpStacks(q) = WithShifts(q, shifts)
  BY DEF CmpStacks, WithShifts
<1>2. shifts = OutrankFold!Values(q, at, 0, q.shifts, is)[Len(is)]
  BY DEF OutrankStep, OutrankFold!Values, OutrankFold!FoldsTo, FoldSteps
<1>3. IsSeq(q.shifts) /\ DOMAIN q.shifts = 1..Len(q.shifts) /\ Len(q.shifts) \in Nat
  BY SeqFacts DEF ShiftsOK
<1>4. is = [i \in 1..Len(q.shifts) |-> is[i]] /\ \A i \in 1..Len(q.shifts) : is[i] = i
  BY <1>3
<1> HIDE DEF is, shifts, at
<1>5. Len(is) = Len(q.shifts)
  BY <1>3, <1>4, FunctionIsSeq
<1>6. ASSUME NEW epos, ShiftsOK(epos, q.sn, q.shifts) PROVE ShiftsOK(epos, q.sn, shifts)
  <2> DEFINE d == <<epos, q.sn>>
  <2>1. OutrankHolds(d, q.shifts)
    BY <1>6 DEF OutrankHolds
  <2>2. ASSUME NEW k \in 1..Len(is), NEW list, OutrankHolds(d, list) PROVE OutrankHolds(d, OutrankStep(q, at, 0, list, is[k]))
    <3>1. k \in 1..Len(q.shifts)
      BY <1>5
    <3>2. is[k] = k
      BY <1>4, <3>1
    <3>3. k \in Nat /\ k > 0
      BY <1>3, <3>1
    <3>4. ShiftsOK(epos, q.sn, list)
      BY <2>2 DEF OutrankHolds
    <3>5. ShiftsOK(epos, q.sn, Outrank(q, at, list, k))
      BY <3>3, <3>4, OutrankOK
    <3> QED
      BY <3>2, <3>5 DEF OutrankHolds, OutrankStep
  <2> HIDE DEF d
  <2>3. Len(is) \in Nat
    BY <1>3, <1>5
  <2>4. OutrankHolds(d, OutrankFold!Values(q, at, 0, q.shifts, is)[Len(is)])
    BY <2>1, <2>2, <2>3, OutrankFold!FoldKeeps
  <2> QED
    BY <1>2, <2>4 DEF OutrankHolds, d
<1>7. ShiftsOK(q.epos, q.sn, q.shifts)
  BY DEF ParserOK
<1> QED
  BY <1>1, <1>6, <1>7

\* free_old_nodes: the nodes of the generation are no longer found.
LatestKids(q, kids) == [k \in DOMAIN kids |-> Latest(q, kids[k])]
WithKids(v, kids) == [v EXCEPT !.kids = kids]

\* Children ks have the latest versions of the children kids.
SameLatests(pn, ks, kids) ==
  Len(ks) = Len(kids) /\ \A k \in 1..Len(kids) : Latests(pn)[ks[k]] = Latests(pn)[kids[k]]

\* The latest versions of children are PNodes.
LEMMA LatestKidsOK ==
  ASSUME NEW n, NEW q, PNodesOK(n, q.pn), NEW kids, IsSeq(kids), ToSet(kids) \subseteq 1..Len(q.pn)
  PROVE  /\ IsSeq(LatestKids(q, kids)) /\ ToSet(LatestKids(q, kids)) \subseteq 1..Len(q.pn)
         /\ SameLatests(q.pn, LatestKids(q, kids), kids)
<1> DEFINE ks == LatestKids(q, kids)
<1>1. DOMAIN kids = 1..Len(kids) /\ Len(kids) \in Nat
  BY SeqFacts
<1>2. ks = [k \in 1..Len(kids) |-> ks[k]] /\ \A k \in 1..Len(kids) : ks[k] = Latest(q, kids[k])
  BY <1>1 DEF LatestKids
<1> HIDE DEF ks
<1>3. ASSUME NEW k \in 1..Len(kids) PROVE ks[k] \in 1..Len(q.pn) /\ Latests(q.pn)[ks[k]] = Latests(q.pn)[kids[k]]
  <2> DEFINE y == Latests(q.pn)[kids[k]]
  <2>1. kids[k] \in 1..Len(q.pn)
    BY <1>1 DEF ToSet
  <2>2. y \in 1..Len(q.pn) /\ q.pn[y].latest = y
    BY <2>1, LatestOK
  <2>3. ks[k] = y
    BY <1>2, LatestIs
  <2> HIDE DEF y
  <2>4. Latests(q.pn)[y] = y
    BY <2>2, LatestStep
  <2> QED
    BY <2>2, <2>3, <2>4 DEF y
<1>4. IsSeq(ks) /\ Len(ks) = Len(kids)
  BY <1>1, <1>2, FunctionIsSeq
<1>5. ToSet(ks) \subseteq 1..Len(q.pn)
  <2>1. DOMAIN ks = 1..Len(kids)
    BY <1>4, SeqFacts
  <2> QED
    BY <1>3, <2>1 DEF ToSet
<1> QED
  BY <1>3, <1>4, <1>5 DEF ks, SameLatests

\* A PNode with other children.
LEMMA WithKidsOK ==
  ASSUME NEW n, NEW np, NEW v, PNodeOK(n, np, v), NEW kids, IsSeq(kids), ToSet(kids) \subseteq 1..np
  PROVE  LET w == WithKids(v, kids)
         IN  /\ PNodeOK(n, np, w) /\ SameSpan(v, w) /\ w.end = v.end /\ w.latest = v.latest
             /\ w.red = v.red /\ (w.term <=> v.term) /\ w.kids = kids /\ w.amb = v.amb
<1> DEFINE w == WithKids(v, kids)
<1>0. w = [v EXCEPT !.kids = kids]
  BY DEF WithKids
<1> HIDE DEF w
<1>1. v = [sym |-> v.sym, start |-> v.start, end |-> v.end, skip |-> v.skip, term |-> v.term, red |-> v.red,
           kids |-> v.kids, assoc |-> v.assoc, prio |-> v.prio, opAssoc |-> v.opAssoc, opPrio |-> v.opPrio,
           height |-> v.height, latest |-> v.latest, amb |-> v.amb]
  BY DEF PNodeOK
<1>2. /\ w.sym = v.sym /\ w.start = v.start /\ w.end = v.end /\ w.skip = v.skip /\ w.kids = kids
      /\ w.latest = v.latest /\ w.amb = v.amb /\ w.red = v.red /\ w.term = v.term
  BY <1>0, <1>1
<1>3. w = [sym |-> w.sym, start |-> w.start, end |-> w.end, skip |-> w.skip, term |-> w.term, red |-> w.red,
           kids |-> w.kids, assoc |-> w.assoc, prio |-> w.prio, opAssoc |-> w.opAssoc, opPrio |-> w.opPrio,
           height |-> w.height, latest |-> w.latest, amb |-> w.amb]
  BY <1>0, <1>1
<1>4. PNodeOK(n, np, w)
  BY <1>2, <1>3 DEF PNodeOK
<1> QED
  BY <1>2, <1>4 DEF w, SameSpan

OldForest(q) ==
  [x \in DOMAIN q.pn |-> IF x \in q.hashP THEN WithKids(q.pn[x], LatestKids(q, q.pn[x].kids)) ELSE q.pn[x]]

\* w is v with children that have the same latest versions.
SameNode(pn, v, w) ==
  /\ w.latest = v.latest /\ w.red = v.red /\ (w.term <=> v.term) /\ w.amb = v.amb /\ SameLatests(pn, w.kids, v.kids)

\* The forest of a generation that is freed stays a forest.
LEMMA OldForestOK ==
  ASSUME NEW n, NEW q, PNodesOK(n, q.pn)
  PROVE  /\ PNodesOK(n, OldForest(q)) /\ GrownForest(q.pn, OldForest(q)) /\ Len(OldForest(q)) = Len(q.pn)
         /\ \A x \in 1..Len(q.pn) : SameNode(q.pn, q.pn[x], OldForest(q)[x])
<1> DEFINE pn == OldForest(q)
           len == Len(q.pn)
<1>1. IsSeq(q.pn) /\ DOMAIN q.pn = 1..len /\ len \in Nat
  BY SeqFacts DEF PNodesOK
<1>2. /\ pn = [x \in 1..len |-> pn[x]]
      /\ \A x \in 1..len : pn[x] = IF x \in q.hashP THEN WithKids(q.pn[x], LatestKids(q, q.pn[x].kids)) ELSE q.pn[x]
  BY <1>1 DEF OldForest
<1> HIDE DEF pn
<1>3. IsSeq(pn) /\ Len(pn) = len
  <2> HIDE DEF len
  <2> QED
    BY <1>1, <1>2, FunctionIsSeq
<1>4. ASSUME NEW x \in 1..len
      PROVE  /\ PNodeOK(n, len, pn[x]) /\ SameSpan(q.pn[x], pn[x]) /\ pn[x].end = q.pn[x].end
             /\ pn[x].latest = q.pn[x].latest /\ SameNode(q.pn, q.pn[x], pn[x])
  <2> DEFINE v == q.pn[x]
             kids == LatestKids(q, v.kids)
  <2>1. PNodeOK(n, len, v)
    BY DEF PNodesOK
  <2>2. IsSeq(v.kids) /\ ToSet(v.kids) \subseteq 1..len
    BY <2>1 DEF PNodeOK
  <2>3. IsSeq(kids) /\ ToSet(kids) \subseteq 1..len /\ SameLatests(q.pn, kids, v.kids)
    BY <2>2, LatestKidsOK
  <2>4. CASE x \in q.hashP
    <3>1. pn[x] = WithKids(v, kids)
      BY <1>2, <2>4
    <3> HIDE DEF v, kids, len
    <3>2. LET w == WithKids(v, kids)
          IN  /\ PNodeOK(n, len, w) /\ SameSpan(v, w) /\ w.end = v.end /\ w.latest = v.latest
              /\ w.red = v.red /\ (w.term <=> v.term) /\ w.kids = kids /\ w.amb = v.amb
      BY <2>1, <2>3, WithKidsOK
    <3>3. SameNode(q.pn, v, pn[x])
      BY <2>3, <3>1, <3>2 DEF SameNode
    <3> QED
      BY <3>1, <3>2, <3>3 DEF v
  <2>5. CASE x \notin q.hashP
    <3>1. pn[x] = v
      BY <1>2, <2>5
    <3> HIDE DEF len
    <3> QED
      BY <2>1, <3>1 DEF SameSpan, SameNode, SameLatests
  <2> QED
    BY <2>4, <2>5
<1>5. GrownForest(q.pn, pn)
  BY <1>1, <1>3, <1>4 DEF GrownForest
<1>6. ASSUME NEW x \in 1..len PROVE pn[x].latest \in x..len /\ SameSpan(pn[x], pn[pn[x].latest])
  <2>1. pn[x].latest = q.pn[x].latest /\ SameSpan(q.pn[x], pn[x])
    BY <1>4
  <2>2. q.pn[x].latest \in x..len /\ SameSpan(q.pn[x], q.pn[q.pn[x].latest])
    BY DEF PNodesOK
  <2> DEFINE y == q.pn[x].latest
  <2>3. y \in 1..len
    BY <1>1, <2>2
  <2>4. SameSpan(q.pn[y], pn[y])
    BY <1>4, <2>3
  <2>5. SameSpan(pn[x], pn[y])
    BY <2>1, <2>2, <2>4 DEF SameSpan
  <2> QED
    BY <2>1, <2>2, <2>5
<1>7. PNodesOK(n, pn)
  BY <1>3, <1>4, <1>6 DEF PNodesOK
<1> QED
  BY <1>3, <1>4, <1>5, <1>7 DEF pn

\* A forest keeps its alternatives apart when children are replaced by their latest versions.
LEMMA SameForestOK ==
  ASSUME NEW T, NEW n, NEW pn, NEW pn2, PNodesOK(n, pn), PNodesOK(n, pn2), ForestOK(T, pn), GrownForest(pn, pn2),
         Len(pn2) = Len(pn), \A x \in 1..Len(pn) : SameNode(pn, pn[x], pn2[x])
  PROVE  ForestOK(T, pn2)
<1>1. 0 \notin 1..Len(pn) /\ Len(pn) \in Nat
  BY DEF GrownForest
<1>2. Versioned(pn, pn2, 0)
  BY <1>1 DEF Versioned, SameNode
<1>3. ASSUME NEW x \in 1..Len(pn) PROVE Latests(pn2)[x] = Latests(pn)[x]
  <2>1. Latests(pn2)[x] = IF Latests(pn)[x] = 0 THEN Len(pn2) ELSE Latests(pn)[x]
    BY <1>2, LatestChange
  <2>2. Latests(pn)[x] \in 1..Len(pn)
    BY LatestOK
  <2>3. Latests(pn)[x] # 0
    BY <1>1, <2>2
  <2> QED
    BY <2>1, <2>3
<1>4. ASSUME NEW x \in 1..Len(pn)
      PROVE  pn2[x].sym = pn[x].sym /\ pn2[x].red = pn[x].red /\ (pn2[x].term <=> pn[x].term) /\ pn2[x].amb = pn[x].amb
  BY DEF SameNode, GrownForest, SameSpan
<1>5. ASSUME NEW x \in 1..Len(pn)
      PROVE  /\ Len(pn2[x].kids) = Len(pn[x].kids)
             /\ \A k \in 1..Len(pn[x].kids) : Latests(pn2)[pn2[x].kids[k]] = Latests(pn)[pn[x].kids[k]]
  <2>1. SameNode(pn, pn[x], pn2[x])
    OBVIOUS
  <2>2. \A k \in 1..Len(pn2[x].kids) : pn2[x].kids[k] \in 1..Len(pn)
    BY KidsInRange
  <2> QED
    BY <1>3, <2>1, <2>2 DEF SameNode, SameLatests
<1>6. ASSUME NEW y \in 1..Len(pn), NEW z \in 1..Len(pn), SameBuilt(pn2, y, z) PROVE SameBuilt(pn, y, z)
  <2> DEFINE old(x, k) == Latests(pn)[pn[x].kids[k]]
             now(x, k) == Latests(pn2)[pn2[x].kids[k]]
  <2>1. /\ pn2[y].red = pn2[z].red /\ Len(pn2[y].kids) = Len(pn2[z].kids)
        /\ \A k \in 1..Len(pn2[y].kids) : now(y, k) = now(z, k)
    BY ONLY <1>6 DEF SameBuilt
  <2>2. pn2[y].red = pn[y].red /\ pn2[z].red = pn[z].red
    BY <1>4
  <2>3. /\ Len(pn2[y].kids) = Len(pn[y].kids) /\ Len(pn2[z].kids) = Len(pn[z].kids)
        /\ \A k \in 1..Len(pn[y].kids) : now(y, k) = old(y, k)
        /\ \A k \in 1..Len(pn[z].kids) : now(z, k) = old(z, k)
    BY <1>5
  <2> HIDE DEF old, now
  <2>4. \A k \in 1..Len(pn[y].kids) : old(y, k) = old(z, k)
    BY ONLY <2>1, <2>3
  <2> QED
    BY ONLY <2>1, <2>2, <2>3, <2>4 DEF SameBuilt, old
<1>7. \A x \in 1..Len(pn) : Alts(pn2, x) = Alts(pn, x) /\ Alts(pn, x) \subseteq 1..Len(pn)
  BY <1>4 DEF Alts, PNodesOK, PNodeOK
<1>8. ASSUME NEW x \in 1..Len(pn2)
      PROVE  /\ pn2[x].term <=> pn2[x].sym \in DOMAIN T.spell
             /\ \A y \in ToSet(pn2[x].amb) : pn2[y].sym = pn2[x].sym
             /\ \A y, z \in Alts(pn2, x) : SameBuilt(pn2, y, z) => y = z
  <2>1. x \in 1..Len(pn)
    OBVIOUS
  <2>2. pn2[x].term <=> pn2[x].sym \in DOMAIN T.spell
    BY <1>4, <2>1 DEF ForestOK
  <2>3. ASSUME NEW y \in ToSet(pn2[x].amb) PROVE pn2[y].sym = pn2[x].sym
    <3>1. y \in ToSet(pn[x].amb) /\ y \in 1..Len(pn)
      BY <1>4, <1>7, <2>1 DEF Alts
    <3> QED
      BY <1>4, <2>1, <3>1 DEF ForestOK
  <2>4. ASSUME NEW y \in Alts(pn2, x), NEW z \in Alts(pn2, x), SameBuilt(pn2, y, z) PROVE y = z
    <3>1. y \in Alts(pn, x) /\ z \in Alts(pn, x) /\ y \in 1..Len(pn) /\ z \in 1..Len(pn)
      BY <1>7, <2>1
    <3>2. SameBuilt(pn, y, z)
      BY <1>6, <2>4, <3>1
    <3> QED
      BY <2>1, <3>1, <3>2 DEF ForestOK
  <2> QED
    BY <2>2, <2>3, <2>4
<1> QED
  BY <1>8 DEF ForestOK

\* u is q at the later location pos, with a new generation of nodes.
Retired(T, q, pos, u) ==
  /\ IsParser(u) /\ u.t = q.t /\ u.sn = q.sn /\ u.zn = q.zn /\ u.accept = q.accept
  /\ u.todo = q.todo /\ u.shifts = q.shifts /\ u.epos = pos /\ u.hashS = {} /\ u.hashP = {} /\ u.pn = OldForest(q)

\* What free_old_nodes does to a parser.
LEMMA FreeFields ==
  ASSUME NEW T, NEW q, IsParser(q), NEW pos
  PROVE  Retired(T, q, pos, [FreeOldNodes(q) EXCEPT !.epos = pos])
<1> DEFINE v == FreeOldNodes(q)
           pn == OldForest(q)
           u == [v EXCEPT !.epos = pos]
<1>1. v = [q EXCEPT !.hashS = {}, !.hashP = {}, !.lastS = q.hashS, !.pn = pn]
  BY DEF FreeOldNodes, OldForest, WithKids, LatestKids
<1> HIDE DEF pn, v
<1>2. q = [t |-> q.t, sn |-> q.sn, zn |-> q.zn, pn |-> q.pn, hashS |-> q.hashS, hashP |-> q.hashP,
           lastS |-> q.lastS, todo |-> q.todo, shifts |-> q.shifts, accept |-> q.accept, epos |-> q.epos]
  BY DEF IsParser
<1>3. v = [t |-> q.t, sn |-> q.sn, zn |-> q.zn, pn |-> pn, hashS |-> {}, hashP |-> {},
           lastS |-> q.hashS, todo |-> q.todo, shifts |-> q.shifts, accept |-> q.accept, epos |-> q.epos]
  BY <1>1, <1>2
<1>4. u = [t |-> q.t, sn |-> q.sn, zn |-> q.zn, pn |-> pn, hashS |-> {}, hashP |-> {},
           lastS |-> q.hashS, todo |-> q.todo, shifts |-> q.shifts, accept |-> q.accept, epos |-> pos]
  BY <1>3
<1> HIDE DEF u
<1>5. /\ u.t = q.t /\ u.sn = q.sn /\ u.zn = q.zn /\ u.pn = pn /\ u.hashS = {} /\ u.hashP = {}
      /\ u.lastS = q.hashS /\ u.todo = q.todo /\ u.shifts = q.shifts /\ u.accept = q.accept /\ u.epos = pos
  BY <1>4
<1>6. u = [t |-> u.t, sn |-> u.sn, zn |-> u.zn, pn |-> u.pn, hashS |-> u.hashS, hashP |-> u.hashP,
           lastS |-> u.lastS, todo |-> u.todo, shifts |-> u.shifts, accept |-> u.accept, epos |-> u.epos]
  BY <1>4, <1>5
<1>7. Retired(T, q, pos, u)
  BY <1>5, <1>6 DEF Retired, IsParser, pn
<1> QED
  BY <1>7 DEF u, v

\* A new generation keeps the invariant and the stack: the hash is empty.
LEMMA RetiredOK ==
  ASSUME NEW T, NEW text, NEW q, Whole(T, text, q), NEW pos \in 0..Len(text),
         TodoOK(T, pos, q.sn, q.todo), ShiftsOK(pos, q.sn, q.shifts), NEW u, Retired(T, q, pos, u)
  PROVE  Whole(T, text, u) /\ LinksOf(u) = LinksOf(q) /\ \A root : Rooted(root, q) => Rooted(root, u)
<1>1. ParserOK(T, text, q) /\ PNodesOK(Len(text), q.pn) /\ ForestOK(T, q.pn)
  BY DEF Whole, ParserOK
<1>2. /\ PNodesOK(Len(text), OldForest(q)) /\ GrownForest(q.pn, OldForest(q)) /\ Len(OldForest(q)) = Len(q.pn)
      /\ \A x \in 1..Len(q.pn) : SameNode(q.pn, q.pn[x], OldForest(q)[x])
  BY <1>1, OldForestOK
<1>17. ForestOK(T, u.pn)
  <2>1. ForestOK(T, OldForest(q))
    BY <1>1, <1>2, SameForestOK
  <2> QED
    BY <2>1 DEF Retired
<1>3. /\ IsParser(u) /\ u.t = q.t /\ u.sn = q.sn /\ u.zn = q.zn /\ u.accept = q.accept
      /\ u.todo = q.todo /\ u.shifts = q.shifts /\ u.epos = pos /\ u.hashS = {} /\ u.hashP = {} /\ u.pn = OldForest(q)
  BY DEF Retired
<1>4. PNodesOK(Len(text), u.pn) /\ GrownForest(q.pn, u.pn)
  BY <1>2, <1>3
<1>5. LinksOf(u) = LinksOf(q) /\ \A root : Rooted(root, q) => Rooted(root, u)
  BY <1>1, <1>3, <1>4, SameLinksOf
<1> DEFINE v == WithForest(q, u.pn, {})
<1>6. IsParser(v) /\ SameStack(q, v) /\ v.pn = u.pn /\ v.hashP = {}
  BY <1>1, WithForestOK DEF ParserOK
<1> HIDE DEF v
<1>7. ParserOK(T, text, v)
  <2>1. v.hashP \subseteq 1..Len(v.pn) /\ PNodesOK(Len(text), v.pn) /\ GrownForest(q.pn, v.pn)
    BY <1>4, <1>6
  <2> QED
    BY <1>1, <1>6, <2>1, ForestKeeps
<1>8. v.sn = q.sn /\ v.zn = q.zn /\ v.t = q.t /\ v.accept = q.accept
  BY <1>6 DEF SameStack
<1>9. HashOK(T, text, pos, u.sn, u.hashS)
  BY <1>3 DEF HashOK
<1>10. pos \in -1..Len(text)
  BY <1>1, ParserFacts
<1>11. /\ IsSeq(text) /\ v.t = T
       /\ SNodesOK(T, Len(text), v.sn, Len(v.zn), Len(v.pn))
       /\ ZNodesOK(v.zn, Len(v.sn), Len(v.pn)) /\ PNodesOK(Len(text), v.pn)
       /\ Owned(v.sn) /\ Joined(v.sn, v.zn, v.pn) /\ Single(v.sn, v.zn) /\ AcceptOK(T, v.sn, v.accept)
  BY <1>7 DEF ParserOK
<1>12. /\ IsSeq(text) /\ u.t = T
       /\ SNodesOK(T, Len(text), u.sn, Len(u.zn), Len(u.pn))
       /\ ZNodesOK(u.zn, Len(u.sn), Len(u.pn)) /\ PNodesOK(Len(text), u.pn)
       /\ Owned(u.sn) /\ Joined(u.sn, u.zn, u.pn) /\ Single(u.sn, u.zn) /\ AcceptOK(T, u.sn, u.accept)
  BY <1>3, <1>6, <1>8, <1>11
<1>13. TodoOK(T, u.epos, u.sn, u.todo) /\ ShiftsOK(u.epos, u.sn, u.shifts) /\ HashOK(T, text, u.epos, u.sn, u.hashS)
  BY <1>3, <1>9
<1>14. IsParser(u) /\ u.epos \in -1..Len(text) /\ u.hashP \subseteq 1..Len(u.pn)
  BY <1>3, <1>10
<1>15. ParserOK(T, text, u)
  BY <1>12, <1>13, <1>14 DEF ParserOK
<1>16. HashPOK(u.pn, u.hashP)
  BY <1>3 DEF HashPOK
<1> QED
  BY <1>5, <1>15, <1>16, <1>17 DEF Whole

\* The engine moves on to location pos, if it is not there.
Advanced(q, pos, u) ==
  /\ u.t = q.t /\ u.sn = q.sn /\ u.zn = q.zn /\ u.accept = q.accept
  /\ u.todo = q.todo /\ u.shifts = q.shifts /\ u.epos = pos

\* The engine moves on only when nothing is left to do before pos.
LEMMA RetireOK ==
  ASSUME NEW T, NEW text, NEW q, Whole(T, text, q), NEW pos \in 0..Len(text), q.epos <= pos,
         TodoOK(T, pos, q.sn, q.todo), ShiftsOK(pos, q.sn, q.shifts)
  PROVE  /\ Whole(T, text, Retire(q, pos)) /\ Advanced(q, pos, Retire(q, pos))
         /\ LinksOf(Retire(q, pos)) = LinksOf(q) /\ \A root : Rooted(root, q) => Rooted(root, Retire(q, pos))
<1> DEFINE u == Retire(q, pos)
           v == [FreeOldNodes(q) EXCEPT !.epos = pos]
<1>1. IsParser(q) /\ q.epos \in Int /\ pos \in Int
  <2>1. ParserOK(T, text, q)
    BY DEF Whole
  <2> QED
    BY <2>1, ParserFacts DEF Located
<1>2. u = IF pos > q.epos THEN v ELSE q
  BY DEF Retire
<1>3. CASE pos > q.epos
  <2>1. Retired(T, q, pos, v)
    BY <1>1, FreeFields
  <2>2. u = v
    BY <1>2, <1>3
  <2> HIDE DEF u, v
  <2>3. Whole(T, text, v) /\ LinksOf(v) = LinksOf(q) /\ \A root : Rooted(root, q) => Rooted(root, v)
    BY <2>1, RetiredOK
  <2>4. Advanced(q, pos, v)
    BY <2>1 DEF Advanced, Retired
  <2>5. Whole(T, text, u) /\ Advanced(q, pos, u) /\ LinksOf(u) = LinksOf(q) /\ \A root : Rooted(root, q) => Rooted(root, u)
    BY <2>2, <2>3, <2>4
  <2> QED
    BY <2>5 DEF u
<1>4. CASE ~(pos > q.epos)
  <2>1. u = q /\ q.epos = pos
    BY <1>1, <1>2, <1>4
  <2> HIDE DEF u
  <2>2. Whole(T, text, u) /\ Advanced(q, pos, u) /\ LinksOf(u) = LinksOf(q) /\ \A root : Rooted(root, q) => Rooted(root, u)
    BY <2>1 DEF Advanced
  <2> QED
    BY <2>2 DEF u
<1> QED
  BY <1>3, <1>4

-----------------------------------------------------------------------------
(* The steps of the engine.                                                *)

\* The parser after a step: the links that are new are justified on the stack as it was.
StepOK(T, text, P, q, w) ==
  /\ Whole(T, text, w) /\ Rooted(Stack!Root(P), w) /\ LinksOf(q) \subseteq LinksOf(w)
  /\ \A e \in LinksOf(w) \ LinksOf(q) : Stack!Shifted(P, LinksOf(q), e) \/ Stack!Reduced(P, LinksOf(q), e)

\* Links out of a set of justified ones are a step of GSS.
LEMMA KeptIsStep ==
  ASSUME NEW T, NEW text, NEW P, NEW q, NEW v, ParserOK(T, text, v), LinksOf(v) = LinksOf(q), NEW A, NEW w,
         Kept(T, text, Stack!Root(P), v, A, w),
         \A e \in A \ LinksOf(q) : Stack!Shifted(P, LinksOf(q), e) \/ Stack!Reduced(P, LinksOf(q), e)
  PROVE  StepOK(T, text, P, q, w)
<1>1. Whole(T, text, w) /\ Grows(v, w) /\ LinksOf(w) \subseteq A /\ Rooted(Stack!Root(P), w)
  BY DEF Kept
<1>2. ParserOK(T, text, w)
  BY <1>1 DEF Whole
<1>3. IsSeq(w.sn)
  BY <1>2, ParserFacts
<1>4. LinksOf(v) \subseteq LinksOf(w)
  BY <1>1, <1>3, LinksKept
<1> QED
  BY <1>1, <1>4 DEF StepOK

\* The parser about to run the first reduction of the list.
ReadyToReduce(q) ==
  LET r == Head(q.todo)
      u == Retire(q, Loc(q, r.sn))
  IN  [u EXCEPT !.todo = Tail(@)]

\* The head of the list is at the location the engine moves to.
LEMMA ReadyToReduceOK ==
  ASSUME NEW T, NEW text, NEW q, Whole(T, text, q), q.todo # <<>>,
         q.shifts # <<>> => Loc(q, Head(q.todo).sn) <= Loc(q, Head(q.shifts))
  PROVE  LET v == ReadyToReduce(q)
         IN  /\ Whole(T, text, v) /\ LinksOf(v) = LinksOf(q) /\ \A root : Rooted(root, q) => Rooted(root, v)
             /\ Reducing(T, v, Head(q.todo))
<1> DEFINE r == Head(q.todo)
           pos == Loc(q, r.sn)
           u == Retire(q, pos)
           v == ReadyToReduce(q)
<1>1. ParserOK(T, text, q) /\ TodoOK(T, q.epos, q.sn, q.todo) /\ ShiftsOK(q.epos, q.sn, q.shifts)
  BY DEF Whole, ParserOK
<1>2. Len(text) \in Nat /\ q.epos \in Int /\ \A s \in 1..Len(q.sn) : q.sn[s].loc \in 0..Len(text) /\ q.sn[s].loc \in Int
  <2>1. \A s \in 1..Len(q.sn) : SNodeOK(T, Len(text), Len(q.zn), Len(q.pn), q.sn[s])
    BY <1>1, ParserFacts
  <2> QED
    BY <1>1, <2>1, ParserFacts, SNodeFacts DEF Located
<1>3. TodoOK(T, q.epos, q.sn, Tail(q.todo)) /\ EntryOK(T, q.epos, q.sn, r)
  BY <1>1, TailOfTodo
<1>4. r.sn \in 1..Len(q.sn) /\ pos = q.sn[r.sn].loc /\ pos \in 0..Len(text) /\ pos \in Int /\ q.epos <= pos
  BY <1>2, <1>3 DEF EntryOK, Loc
<1>5. TodoOK(T, pos, q.sn, q.todo)
  <2>1. q.todo # <<>> => pos <= q.sn[Head(q.todo).sn].loc
    BY <1>4
  <2> HIDE DEF pos, r
  <2> QED
    BY <1>1, <1>2, <1>4, <2>1, TodoFromHead
<1>6. ShiftsOK(pos, q.sn, q.shifts)
  <2>1. q.shifts # <<>> => pos <= q.sn[Head(q.shifts)].loc
    BY DEF Loc
  <2> HIDE DEF pos, r
  <2> QED
    BY <1>1, <1>2, <1>4, <2>1, ShiftsFromHead
<1>7. TodoOK(T, pos, q.sn, Tail(q.todo)) /\ EntryOK(T, pos, q.sn, r)
  BY <1>5, TailOfTodo
<1>8. v = WithTodo(u, Tail(u.todo))
  BY DEF ReadyToReduce, WithTodo
<1> HIDE DEF pos, u, r, v
<1>9. Whole(T, text, u) /\ Advanced(q, pos, u) /\ LinksOf(u) = LinksOf(q) /\ \A root : Rooted(root, q) => Rooted(root, u)
  BY <1>4, <1>5, <1>6, RetireOK DEF u
<1>10. u.todo = q.todo /\ u.sn = q.sn /\ u.epos = pos
  BY <1>9 DEF Advanced
<1> DEFINE todo == Tail(u.todo)
<1>11. TodoOK(T, u.epos, u.sn, todo)
  BY <1>7, <1>10
<1> HIDE DEF todo
<1>12. OtherLists(T, u, WithTodo(u, todo))
  <2>1. ParserOK(T, text, u)
    BY <1>9 DEF Whole
  <2> QED
    BY <1>11, <2>1, WithTodoOK
<1>13. OtherLists(T, u, v)
  BY <1>8, <1>12 DEF todo
<1>14. Whole(T, text, v) /\ LinksOf(v) = LinksOf(u) /\ \A root : Rooted(root, u) => Rooted(root, v)
  BY <1>9, <1>13, OtherListsKeep
<1>15. v.epos = pos /\ v.sn = q.sn
  BY <1>10, <1>13 DEF OtherLists
<1>16. Reducing(T, v, r)
  BY <1>4, <1>7, <1>15 DEF Reducing
<1> QED
  BY <1>9, <1>14, <1>16 DEF v, r

\* A reduction of the list is a step of GSS.
LEMMA ReduceStepOK ==
  ASSUME NEW T, TableOK(T), GotoOK(T), NEW text, NEW q, Whole(T, text, q), q.todo # <<>>,
         q.shifts # <<>> => Loc(q, Head(q.todo).sn) <= Loc(q, Head(q.shifts)),
         NEW P, Poses(T, P), Rooted(Stack!Root(P), q)
  PROVE  StepOK(T, text, P, q, ReduceOne(ReadyToReduce(q), Head(q.todo)))
<1> DEFINE r == Head(q.todo)
           v == ReadyToReduce(q)
           L == LinksOf(q)
<1>1. /\ Whole(T, text, v) /\ LinksOf(v) = LinksOf(q) /\ Rooted(Stack!Root(P), v)
      /\ Reducing(T, v, r)
  BY ReadyToReduceOK
<1> HIDE DEF r, v
<1>2. ParserOK(T, text, v)
  BY <1>1 DEF Whole
<1>3. r.sn \in 1..Len(v.sn) /\ ReductionOK(T, v.sn[r.sn].state, r.red)
  BY <1>1 DEF Reducing, EntryOK
<1>4. PICK rule \in DOMAIN T.grammar.rules : Completes(T, v.sn[r.sn].state, rule, r.red)
  BY <1>3 DEF ReductionOK
<1>5. Ruled(T, P, v, r, rule)
  BY <1>4 DEF Ruled
<1> DEFINE A == After(P, v, r, rule)
<1>6. Kept(T, text, Stack!Root(P), v, A, ReduceOne(v, r))
  BY <1>1, <1>5, ReduceOneOK
<1>7. ASSUME NEW e \in A \ L PROVE Stack!Reduced(P, L, e)
  <2>1. Stack!ReducedBy(P, L, Node(v, r.sn), rule, e)
    BY <1>1, <1>7 DEF After, Justifies
  <2>2. Node(v, r.sn) \in Stack!NodesOf(P, L)
    BY <1>1, <1>2, <1>3, LowerOnStack
  <2>3. rule \in DOMAIN P.rules
    BY <1>4 DEF Poses
  <2> QED
    BY <2>1, <2>2, <2>3 DEF Stack!Reduced
<1> HIDE DEF A
<1>8. StepOK(T, text, P, q, ReduceOne(v, r))
  <2> DEFINE w == ReduceOne(v, r)
  <2> HIDE DEF w
  <2>1. Kept(T, text, Stack!Root(P), v, A, w)
    BY <1>6 DEF w
  <2>2. \A e \in A \ LinksOf(q) : Stack!Shifted(P, LinksOf(q), e) \/ Stack!Reduced(P, LinksOf(q), e)
    BY <1>7
  <2>3. StepOK(T, text, P, q, w)
    BY <1>1, <1>2, <2>1, <2>2, KeptIsStep
  <2> QED
    BY <2>3 DEF w
<1> QED
  BY <1>8 DEF v, r

\* shift_all
ShiftStep(a, b, c, u, m) == ShiftOne(u, m)
ShiftHolds(d, u) == Kept(d[1], d[2], d[3], d[4], d[5], u)
ShiftFold == INSTANCE Folding WITH Step <- ShiftStep, Holds <- ShiftHolds

\* Every token to shift was read at the location the engine is at.
AllRead(T, q, ms) == IsSeq(ms) /\ \A m \in ToSet(ms) : Read(T, q, m)

\* The tokens of a round of shifts, one after the other.
LEMMA ShiftEachOK ==
  ASSUME NEW T, TableOK(T), GotoOK(T), IsSeq(input), NEW q, Whole(T, input, q),
         NEW P, Poses(T, P), P.tokens = Tokens(T), Rooted(Stack!Root(P), q), NEW ms, AllRead(T, q, ms)
  PROVE  Kept(T, input, Stack!Root(P), q, WithShifted(P, LinksOf(q)), FoldSteps(ShiftOne, q, ms))
<1> DEFINE A == WithShifted(P, LinksOf(q))
           root == Stack!Root(P)
           d == <<T, input, root, q, A>>
           each == FoldSteps(ShiftOne, q, ms)
<1>1. IsSeq(ms) /\ Len(ms) \in Nat /\ \A k \in 1..Len(ms) : Read(T, q, ms[k])
  <2>1. IsSeq(ms) /\ Len(ms) \in Nat /\ DOMAIN ms = 1..Len(ms)
    BY SeqFacts DEF AllRead
  <2> QED
    BY <2>1 DEF AllRead, ToSet
<1>2. each = ShiftFold!Values(0, 0, 0, q, ms)[Len(ms)]
  BY DEF ShiftStep, ShiftFold!Values, ShiftFold!FoldsTo, FoldSteps
<1> HIDE DEF each
<1>3. ShiftHolds(d, q)
  <2>1. LinksOf(q) \subseteq A
    BY DEF WithShifted
  <2> HIDE DEF A, root
  <2>2. Kept(T, input, Stack!Root(P), q, A, q)
    BY <2>1, KeptSelf
  <2> QED
    BY <2>2 DEF ShiftHolds, root
<1>4. ASSUME NEW k \in 1..Len(ms), NEW u, ShiftHolds(d, u) PROVE ShiftHolds(d, ShiftStep(0, 0, 0, u, ms[k]))
  <2>1. Kept(T, input, root, q, A, u)
    BY <1>4 DEF ShiftHolds
  <2> DEFINE m == ms[k]
  <2>2. Read(T, q, m)
    BY <1>1
  <2> HIDE DEF m
  <2>3. Kept(T, input, root, q, A, ShiftOne(u, m))
    BY <2>1, <2>2, ShiftOneOK
  <2> HIDE DEF A, root
  <2> QED
    BY <2>3 DEF ShiftHolds, ShiftStep, m
<1> HIDE DEF d
<1>5. ShiftHolds(d, ShiftFold!Values(0, 0, 0, q, ms)[Len(ms)])
  BY <1>1, <1>3, <1>4, ShiftFold!FoldKeeps
<1>6. Kept(T, input, root, q, A, each)
  BY <1>2, <1>5 DEF ShiftHolds, d
<1> QED
  BY <1>6 DEF each

\* The nodes that wait at a location are the first ones of the list.
LEMMA WaitingAtOK ==
  ASSUME NEW q, IsSeq(q.shifts), NEW pos
  PROVE  WaitingAt(q, pos) \in 0..Len(q.shifts) /\ \A k \in 1..WaitingAt(q, pos) : Loc(q, q.shifts[k]) = pos
<1> DEFINE len == Len(q.shifts)
           ns == {n \in 0..len : \A k \in 1..n : Loc(q, q.shifts[k]) = pos}
           n == MaxOf(ns)
<1>1. WaitingAt(q, pos) = n
  BY DEF WaitingAt
<1>2. len \in Nat
  BY SeqFacts
<1>3. ns \subseteq 0..len /\ 0 \in ns
  BY <1>2
<1>4. \A m \in ns : m \in 0..len /\ \A k \in 1..m : Loc(q, q.shifts[k]) = pos
  OBVIOUS
<1> HIDE DEF ns, len
<1>5. n \in ns
  <2>1. ns # {}
    BY <1>3
  <2> QED
    BY <1>2, <1>3, <2>1, MaxExists
<1>6. n \in 0..len /\ \A k \in 1..n : Loc(q, q.shifts[k]) = pos
  BY <1>4, <1>5
<1> QED
  BY <1>1, <1>6 DEF len

\* The tokens read from one node.
LEMMA ShiftsOfOK ==
  ASSUME NEW T, TableOK(T), IsSeq(input), NEW q, ParserOK(T, input, q), NEW s \in 1..Len(q.sn), q.sn[s].loc = q.epos
  PROVE  AllRead(T, q, ShiftsOf(q, s))
<1> DEFINE state == q.sn[s].state
           i == q.epos
           ms == Scan(q, state, i)
           xs == ShiftsOf(q, s)
<1>1. state \in DOMAIN T.items /\ i \in 0..Len(input) /\ q.t = T
  <2>1. Len(input) \in Nat /\ SNodeOK(T, Len(input), Len(q.zn), Len(q.pn), q.sn[s])
    BY ParserFacts
  <2> QED
    BY <2>1, SNodeFacts DEF ParserOK
<1>2. xs = [j \in DOMAIN ms |-> [sn |-> s, term |-> ms[j].term, end |-> ms[j].end]]
  BY DEF ShiftsOf, StateOf, Loc
<1> HIDE DEF state, i, xs
<1>3. IsSeq(ms) /\ \A m \in ToSet(ms) : Scanned(T, state, i, m)
  BY <1>1, ScanOK
<1> HIDE DEF ms
<1>4. DOMAIN ms = 1..Len(ms) /\ Len(ms) \in Nat
  BY <1>3, SeqFacts
<1>5. xs = [j \in 1..Len(ms) |-> xs[j]]
  BY <1>2, <1>4
<1>6. IsSeq(xs) /\ Len(xs) = Len(ms)
  BY <1>4, <1>5, FunctionIsSeq
<1>7. ASSUME NEW j \in 1..Len(ms) PROVE Read(T, q, xs[j])
  <2>1. xs[j].sn = s /\ xs[j].term = ms[j].term /\ xs[j].end = ms[j].end
    BY <1>2, <1>4
  <2>2. Scanned(T, state, i, ms[j])
    BY <1>3, <1>4 DEF ToSet
  <2> QED
    BY <2>1, <2>2 DEF Read, Scanned, state, i
<1>8. AllRead(T, q, xs)
  <2>1. DOMAIN xs = 1..Len(ms)
    BY <1>6, SeqFacts
  <2> QED
    BY <1>6, <1>7, <2>1 DEF AllRead, ToSet
<1> QED
  BY <1>8 DEF xs

\* The tokens read from the first n nodes of a list.
ReadFrom(q, n, list) == FlattenSeq([k \in 1..n |-> ShiftsOf(q, list[k])])

\* The tokens read from the nodes of a list.
LEMMA ReadFromOK ==
  ASSUME NEW T, TableOK(T), IsSeq(input), NEW q, ParserOK(T, input, q), NEW n \in Nat, NEW list,
         \A k \in 1..n : list[k] \in 1..Len(q.sn) /\ q.sn[list[k]].loc = q.epos
  PROVE  AllRead(T, q, ReadFrom(q, n, list))
<1> DEFINE ss == [k \in 1..n |-> ShiftsOf(q, list[k])]
<1>1. ss = [k \in 1..n |-> ss[k]] /\ \A k \in 1..n : ss[k] = ShiftsOf(q, list[k])
  OBVIOUS
<1>2. ReadFrom(q, n, list) = FlattenSeq(ss)
  BY DEF ReadFrom
<1> HIDE DEF ss
<1>3. \A k \in 1..n : AllRead(T, q, ss[k])
  <2>1. SUFFICES ASSUME NEW k \in 1..n PROVE AllRead(T, q, ss[k])
    OBVIOUS
  <2> DEFINE s == list[k]
  <2>2. s \in 1..Len(q.sn) /\ q.sn[s].loc = q.epos
    OBVIOUS
  <2>3. ss[k] = ShiftsOf(q, s)
    BY <1>1
  <2> HIDE DEF s
  <2>4. AllRead(T, q, ShiftsOf(q, s))
    BY <2>2, ShiftsOfOK
  <2> QED
    BY <2>3, <2>4
<1>4. IsSeq(ss) /\ Len(ss) = n
  BY <1>1, FunctionIsSeq
<1>5. \A k \in 1..Len(ss) : IsSeq(ss[k])
  BY <1>3, <1>4 DEF AllRead
<1>6. IsSeq(FlattenSeq(ss)) /\ ToSet(FlattenSeq(ss)) = UNION {ToSet(ss[k]) : k \in 1..Len(ss)}
  BY <1>4, <1>5, FlattenFacts
<1>7. ASSUME NEW m \in ToSet(FlattenSeq(ss)) PROVE Read(T, q, m)
  <2>1. PICK k \in 1..Len(ss) : m \in ToSet(ss[k])
    BY <1>6
  <2> QED
    BY <1>3, <1>4, <2>1 DEF AllRead
<1> QED
  BY <1>2, <1>6, <1>7 DEF AllRead

\* The parser about to shift from the first node of the list.
Compared(q) == IF "stacks" \in q.t.ranks /\ Len(q.shifts) > 1 THEN CmpStacks(q) ELSE q
ReadyAt(q, pos) == Retire(Compared(q), pos)

\* The stacks that wait are compared before they shift.
LEMMA ComparedOK ==
  ASSUME NEW T, NEW text, NEW q, Whole(T, text, q), NEW pos, TodoOK(T, pos, q.sn, q.todo), ShiftsOK(pos, q.sn, q.shifts)
  PROVE  LET c == Compared(q)
         IN  /\ Whole(T, text, c) /\ LinksOf(c) = LinksOf(q) /\ \A root : Rooted(root, q) => Rooted(root, c)
             /\ c.epos = q.epos /\ TodoOK(T, pos, c.sn, c.todo) /\ ShiftsOK(pos, c.sn, c.shifts)
<1> DEFINE c == Compared(q)
           Good(u) == /\ Whole(T, text, u) /\ LinksOf(u) = LinksOf(q) /\ \A root : Rooted(root, q) => Rooted(root, u)
                      /\ u.epos = q.epos /\ TodoOK(T, pos, u.sn, u.todo) /\ ShiftsOK(pos, u.sn, u.shifts)
<1>1. ParserOK(T, text, q)
  BY DEF Whole
<1>2. Good(q)
  OBVIOUS
<1>3. Good(CmpStacks(q))
  <2> DEFINE u == CmpStacks(q)
  <2>1. PICK shifts : u = WithShifts(q, shifts) /\ ShiftsOK(q.epos, q.sn, shifts) /\ ShiftsOK(pos, q.sn, shifts)
    BY <1>1, CmpStacksOK
  <2> HIDE DEF u
  <2>2. /\ OtherLists(T, q, WithShifts(q, shifts)) /\ WithShifts(q, shifts).shifts = shifts
        /\ WithShifts(q, shifts).todo = q.todo
    BY <1>1, <2>1, WithShiftsOK
  <2>3. OtherLists(T, q, u) /\ u.shifts = shifts /\ u.todo = q.todo
    BY <2>1, <2>2
  <2>4. Whole(T, text, u) /\ LinksOf(u) = LinksOf(q) /\ \A root : Rooted(root, q) => Rooted(root, u)
    BY <2>3, OtherListsKeep
  <2>5. u.epos = q.epos /\ u.sn = q.sn
    BY <2>3 DEF OtherLists
  <2>6. TodoOK(T, pos, u.sn, u.todo) /\ ShiftsOK(pos, u.sn, u.shifts)
    BY <2>1, <2>3, <2>5
  <2> QED
    BY <2>4, <2>5, <2>6 DEF u
<1>4. c \in {q, CmpStacks(q)}
  BY DEF Compared
<1> HIDE DEF c, Good
<1>5. Good(c)
  BY <1>2, <1>3, <1>4
<1> QED
  BY <1>5 DEF Good, c

\* The nodes that shift are at the location the engine moves to, and nothing is left to
\* reduce there.
LEMMA ReadyAtOK ==
  ASSUME NEW T, NEW text, NEW q, Whole(T, text, q), q.shifts # <<>>, NEW pos, pos = Loc(q, Head(q.shifts)),
         q.todo # <<>> => ~(Loc(q, Head(q.todo).sn) <= pos)
  PROVE  LET v == ReadyAt(q, pos)
         IN  /\ Whole(T, text, v) /\ LinksOf(v) = LinksOf(q) /\ \A root : Rooted(root, q) => Rooted(root, v)
             /\ v.epos = pos
<1> DEFINE v == ReadyAt(q, pos)
           c == Compared(q)
<1>1. ParserOK(T, text, q) /\ TodoOK(T, q.epos, q.sn, q.todo) /\ ShiftsOK(q.epos, q.sn, q.shifts)
  BY DEF Whole, ParserOK
<1>2. Len(text) \in Nat /\ q.epos \in Int /\ \A s \in 1..Len(q.sn) : q.sn[s].loc \in 0..Len(text) /\ q.sn[s].loc \in Int
  <2>1. \A s \in 1..Len(q.sn) : SNodeOK(T, Len(text), Len(q.zn), Len(q.pn), q.sn[s])
    BY <1>1, ParserFacts
  <2> QED
    BY <1>1, <2>1, ParserFacts, SNodeFacts DEF Located
<1>3. Head(q.shifts) \in 1..Len(q.sn) /\ q.epos <= q.sn[Head(q.shifts)].loc
  <2>1. Len(q.shifts) > 0 /\ Head(q.shifts) = q.shifts[1] /\ Len(q.shifts) \in Nat
    BY <1>1, TailFacts, SeqFacts DEF ShiftsOK
  <2> QED
    BY <1>1, <2>1 DEF ShiftsOK
<1>4. pos = q.sn[Head(q.shifts)].loc /\ pos \in 0..Len(text) /\ pos \in Int /\ q.epos <= pos
  BY <1>2, <1>3 DEF Loc
<1>5. ShiftsOK(pos, q.sn, q.shifts)
  <2>1. q.shifts # <<>> => pos <= q.sn[Head(q.shifts)].loc
    BY <1>4
  <2> QED
    BY <1>1, <1>2, <1>4, <2>1, ShiftsFromHead
<1>6. TodoOK(T, pos, q.sn, q.todo)
  <2>1. q.todo # <<>> => pos <= q.sn[Head(q.todo).sn].loc
    <3>1. SUFFICES ASSUME q.todo # <<>> PROVE pos <= q.sn[Head(q.todo).sn].loc
      OBVIOUS
    <3>2. EntryOK(T, q.epos, q.sn, Head(q.todo))
      BY <1>1, <3>1, TailOfTodo
    <3>3. Head(q.todo).sn \in 1..Len(q.sn)
      BY <3>2 DEF EntryOK
    <3>4. q.sn[Head(q.todo).sn].loc \in Int /\ ~(q.sn[Head(q.todo).sn].loc <= pos)
      BY <1>2, <3>1, <3>3 DEF Loc
    <3> QED
      BY <1>4, <3>4
  <2> QED
    BY <1>1, <1>2, <1>4, <2>1, TodoFromHead
<1>7. /\ Whole(T, text, c) /\ LinksOf(c) = LinksOf(q) /\ \A root : Rooted(root, q) => Rooted(root, c)
      /\ c.epos = q.epos /\ TodoOK(T, pos, c.sn, c.todo) /\ ShiftsOK(pos, c.sn, c.shifts)
  BY <1>5, <1>6, ComparedOK
<1> HIDE DEF c
<1>8. /\ Whole(T, text, Retire(c, pos)) /\ Advanced(c, pos, Retire(c, pos))
      /\ LinksOf(Retire(c, pos)) = LinksOf(c) /\ \A root : Rooted(root, c) => Rooted(root, Retire(c, pos))
  BY <1>4, <1>7, RetireOK
<1>9. v = Retire(c, pos)
  BY DEF ReadyAt, c
<1> HIDE DEF v
<1>10. v.epos = pos
  BY <1>8, <1>9 DEF Advanced
<1> QED
  BY <1>7, <1>8, <1>9, <1>10 DEF v

\* shift_all reads from every node that waits and adds links that the tokens justify.
LEMMA ShiftAllOK ==
  ASSUME NEW T, TableOK(T), GotoOK(T), IsSeq(input), NEW q, Whole(T, input, q), NEW pos, q.epos = pos,
         NEW P, Poses(T, P), P.tokens = Tokens(T), Rooted(Stack!Root(P), q)
  PROVE  \E v : /\ ParserOK(T, input, v) /\ LinksOf(v) = LinksOf(q)
                /\ Kept(T, input, Stack!Root(P), v, WithShifted(P, LinksOf(q)), ShiftAll(q, pos))
<1> DEFINE n == WaitingAt(q, pos)
           rest == SubSeq(q.shifts, n + 1, Len(q.shifts))
           v == WithShifts(q, rest)
           ms == ReadFrom(q, n, q.shifts)
<1>1. ParserOK(T, input, q) /\ ShiftsOK(q.epos, q.sn, q.shifts)
  BY DEF Whole, ParserOK
<1>2. IsSeq(q.shifts) /\ Len(q.shifts) \in Nat
  BY <1>1, SeqFacts DEF ShiftsOK
<1>3. n \in 0..Len(q.shifts) /\ \A k \in 1..n : Loc(q, q.shifts[k]) = pos
  BY <1>2, WaitingAtOK
<1>4. ShiftAll(q, pos) = FoldSteps(ShiftOne, v, ms)
  BY DEF ShiftAll, WithShifts, ReadFrom
<1> HIDE DEF n, v, ms
<1>5. n \in Nat /\ \A k \in 1..n : q.shifts[k] \in 1..Len(q.sn) /\ q.sn[q.shifts[k]].loc = q.epos
  BY <1>1, <1>2, <1>3 DEF ShiftsOK, Loc
<1>6. AllRead(T, q, ms)
  <2> DEFINE list == q.shifts
  <2>1. \A k \in 1..n : list[k] \in 1..Len(q.sn) /\ q.sn[list[k]].loc = q.epos
    BY <1>5
  <2> HIDE DEF list
  <2>2. AllRead(T, q, ReadFrom(q, n, list))
    BY <1>1, <1>5, <2>1, ReadFromOK
  <2> QED
    BY <2>2 DEF list, ms
<1>7. ShiftsOK(q.epos, q.sn, rest)
  BY <1>1, <1>3, RestOfShifts
<1> HIDE DEF rest
<1>8. OtherLists(T, q, v)
  BY <1>1, <1>7, WithShiftsOK DEF v
<1>9. Whole(T, input, v) /\ LinksOf(v) = LinksOf(q) /\ Rooted(Stack!Root(P), v)
  BY <1>8, OtherListsKeep
<1>10. v.sn = q.sn /\ v.epos = q.epos
  BY <1>8 DEF OtherLists
<1>11. AllRead(T, v, ms)
  BY <1>6, <1>10 DEF AllRead, Read
<1>12. Kept(T, input, Stack!Root(P), v, WithShifted(P, LinksOf(v)), FoldSteps(ShiftOne, v, ms))
  BY <1>9, <1>11, ShiftEachOK
<1>13. Kept(T, input, Stack!Root(P), v, WithShifted(P, LinksOf(q)), ShiftAll(q, pos))
  BY <1>4, <1>9, <1>12
<1>14. ParserOK(T, input, v)
  BY <1>9 DEF Whole
<1> QED
  BY <1>9, <1>13, <1>14

\* A round of shifts is a step of GSS.
LEMMA ShiftStepOK ==
  ASSUME NEW T, TableOK(T), GotoOK(T), IsSeq(input), NEW q, Whole(T, input, q),
         q.shifts # <<>>, NEW pos, pos = Loc(q, Head(q.shifts)), q.todo # <<>> => ~(Loc(q, Head(q.todo).sn) <= pos),
         NEW P, Poses(T, P), P.tokens = Tokens(T), Rooted(Stack!Root(P), q)
  PROVE  StepOK(T, input, P, q, ShiftAll(ReadyAt(q, pos), pos))
<1> DEFINE u == ReadyAt(q, pos)
           w == ShiftAll(u, pos)
           L == LinksOf(q)
           A == WithShifted(P, L)
<1>1. Whole(T, input, u) /\ LinksOf(u) = LinksOf(q) /\ Rooted(Stack!Root(P), u) /\ u.epos = pos
  BY ReadyAtOK
<1> HIDE DEF u
<1>2. PICK v : /\ ParserOK(T, input, v) /\ LinksOf(v) = LinksOf(u)
               /\ Kept(T, input, Stack!Root(P), v, WithShifted(P, LinksOf(u)), ShiftAll(u, pos))
  BY <1>1, ShiftAllOK
<1>3. Kept(T, input, Stack!Root(P), v, A, w) /\ LinksOf(v) = L
  BY <1>1, <1>2
<1>4. \A e \in A \ L : Stack!Shifted(P, L, e) \/ Stack!Reduced(P, L, e)
  BY DEF WithShifted
<1> HIDE DEF w, A
<1>5. StepOK(T, input, P, q, w)
  BY <1>2, <1>3, <1>4, KeptIsStep
<1> QED
  BY <1>5 DEF w, u

-----------------------------------------------------------------------------
(* The parser as the engine starts.                                        *)

\* A parser before its first node.
LEMMA EmptyParserOK ==
  ASSUME IsSeq(input)
  PROVE  /\ ParserOK(Table[g], input, EmptyParser) /\ EmptyParser.epos = -1
         /\ EmptyParser.sn = <<>> /\ EmptyParser.zn = <<>> /\ EmptyParser.pn = <<>> /\ EmptyParser.hashP = {}
<1> DEFINE T == Table[g]
           q == EmptyParser
<1>1. /\ q.t = T /\ q.sn = <<>> /\ q.zn = <<>> /\ q.pn = <<>> /\ q.hashS = {} /\ q.hashP = {} /\ q.lastS = {}
      /\ q.todo = <<>> /\ q.shifts = <<>> /\ q.accept = 0 /\ q.epos = -1
  BY DEF EmptyParser
<1>2. IsParser(q)
  BY <1>1 DEF EmptyParser, IsParser
<1> HIDE DEF T, q
<1>3. IsSeq(<<>>) /\ Len(<<>>) = 0 /\ ToSet(<<>>) = {} /\ \A i : i \notin 1..Len(<<>>)
  BY EmptyFacts
<1>4. SNodesOK(T, Len(input), q.sn, Len(q.zn), Len(q.pn)) /\ ZNodesOK(q.zn, Len(q.sn), Len(q.pn))
  BY <1>1, <1>3 DEF SNodesOK, ZNodesOK
<1>5. PNodesOK(Len(input), q.pn) /\ Owned(q.sn) /\ Joined(q.sn, q.zn, q.pn) /\ Single(q.sn, q.zn)
  BY <1>1, <1>3 DEF PNodesOK, Owned, Joined, Single
<1>6. TodoOK(T, q.epos, q.sn, q.todo) /\ ShiftsOK(q.epos, q.sn, q.shifts)
  BY <1>1, <1>3 DEF TodoOK, ShiftsOK
<1>7. HashOK(T, input, q.epos, q.sn, q.hashS) /\ AcceptOK(T, q.sn, q.accept)
  BY <1>1, <1>3 DEF HashOK, AcceptOK
<1>8. -1 \in -1..Len(input)
  <2>1. Len(input) \in Nat
    BY SeqFacts
  <2> QED
    BY <2>1
<1>9. ParserOK(T, input, q)
  BY <1>1, <1>2, <1>4, <1>5, <1>6, <1>7, <1>8 DEF ParserOK
<1> QED
  BY <1>1, <1>9 DEF T, q

\* The first SNode, after which the PNode below it is made.
FirstNode == AddSNode(EmptyParser, 1, White(0))

\* It is at the first token, in the first state.
LEMMA FirstNodeOK ==
  ASSUME IsSeq(input), TableOK(Table[g]), GotoOK(Table[g])
  PROVE  LET a == FirstNode
         IN  /\ ParserOK(Table[g], input, a) /\ a.sn = Append(<<>>, Fresh(1, White(0)))
             /\ a.zn = <<>> /\ a.pn = <<>> /\ a.hashP = {}
<1> DEFINE T == Table[g]
           q == EmptyParser
           i == White(0)
           a == FirstNode
           one == 1
<1>1. ParserOK(T, input, q) /\ q.epos = -1 /\ q.sn = <<>> /\ q.zn = <<>> /\ q.pn = <<>> /\ q.hashP = {}
  BY EmptyParserOK
<1>2. i \in 0..Len(input) /\ -1 <= i
  <2>1. 0 \in 0..Len(input) /\ Len(input) \in Nat
    BY SeqFacts
  <2>2. White(0) \in 0..Len(input)
    BY <2>1, WhiteOK
  <2> QED
    BY <2>1, <2>2
<1>3. one \in DOMAIN T.items
  BY DEF TableOK
<1>4. \A X : Enters(T, X, one) => Lands(T, input, q.epos, X, i)
  BY SMTT(30) DEF Enters, GotoOK, Moved
<1>5. a = AddSNode(q, one, i)
  BY DEF FirstNode
<1> HIDE DEF T, q, i, a, one
<1>6. LET u == AddSNode(q, one, i)
      IN  /\ ParserOK(T, input, u) /\ SameLinks(q, u) /\ u.sn \in {q.sn, Append(q.sn, Fresh(one, i))}
          /\ FindSNode(u, one) # 0
  <2>1. q.epos <= i
    BY <1>1, <1>2
  <2>2. TableOK(T) /\ ParserOK(T, input, q) /\ i \in 0..Len(input)
    BY <1>1, <1>2 DEF T
  <2> QED
    BY <1>3, <1>4, <2>1, <2>2, AddSNodeOK
<1>7. ParserOK(T, input, a) /\ SameLinks(q, a) /\ a.sn \in {<<>>, Append(<<>>, Fresh(one, i))} /\ FindSNode(a, one) # 0
  BY <1>1, <1>5, <1>6
<1>8. a.sn # <<>>
  <2>1. FindSNode(a, one) \in a.hashS
    BY <1>7, FindSNodeOK
  <2>2. a.hashS \subseteq 1..Len(a.sn)
    BY <1>7, ParserFacts DEF Live
  <2>3. Len(<<>>) = 0
    BY EmptyFacts
  <2> QED
    BY <2>1, <2>2, <2>3
<1>9. a.zn = <<>> /\ a.pn = <<>> /\ a.hashP = {}
  BY <1>1, <1>7 DEF SameLinks
<1> QED
  BY <1>7, <1>8, <1>9 DEF T, i, a, one

\* The PNode that no reduction made, and the parser with it.
RootNode == MakePNode(EmptyParser, "S'", White(0), White(0), White(0), FALSE, NoReduction, <<>>)
WithRootNode == InsertPNode(FirstNode, RootNode)

\* It covers nothing.
LEMMA RootNodeOK ==
  ASSUME IsSeq(input)
  PROVE  /\ PNodeOK(Len(input), 1, RootNode) /\ RootNode.latest = 1
         /\ RootNode.sym = "S'" /\ ~RootNode.term /\ RootNode.amb = <<>>
         /\ RootNode.start = White(0) /\ RootNode.skip = White(0) /\ White(0) \in 0..Len(input)
<1> DEFINE q == EmptyParser
           i == White(0)
           len == Len(input)
           sym == "S'"
           term == FALSE
           red == NoReduction
           kids == <<>>
           new == MakePNode(q, sym, i, i, i, term, red, kids)
<1>1. RootNode = new
  BY DEF RootNode
<1>2. PNodesOK(len, q.pn) /\ q.pn = <<>>
  BY EmptyParserOK DEF ParserOK
<1>3. i \in 0..len /\ len \in Nat
  <2>1. 0 \in 0..Len(input) /\ Len(input) \in Nat
    BY SeqFacts
  <2> QED
    BY <2>1, WhiteOK
<1>4. IsSeq(kids) /\ ToSet(kids) \subseteq 1..Len(q.pn)
  BY EmptyFacts
<1> HIDE DEF q, i, sym, term, red, kids, len
<1>5. i \in i..len
  BY <1>3
<1>6. Made(len, Len(q.pn), MakePNode(q, sym, i, i, i, term, red, kids), sym, i, i, i, term)
  BY <1>2, <1>3, <1>4, <1>5, MakePNodeOK
<1> HIDE DEF new
<1>7. /\ PNodeOK(len, Len(q.pn) + 1, new) /\ new.latest = Len(q.pn) + 1 /\ new.start = i /\ new.skip = i
      /\ new.sym = sym /\ (new.term <=> term) /\ new.amb = <<>>
  BY <1>6 DEF new, Made
<1>8. Len(q.pn) + 1 = 1
  BY <1>2, EmptyFacts
<1> QED
  BY <1>1, <1>3, <1>7, <1>8 DEF i, len, sym, term

\* It is in the forest and in the hash.
LEMMA WithRootNodeOK ==
  ASSUME IsSeq(input), TableOK(Table[g]), GotoOK(Table[g])
  PROVE  LET b == WithRootNode
         IN  /\ ParserOK(Table[g], input, b) /\ b.sn = Append(<<>>, Fresh(1, White(0)))
             /\ b.zn = <<>> /\ IsSeq(b.pn) /\ Len(b.pn) = 1 /\ b.pn[1] = RootNode /\ b.hashP = {1}
<1> DEFINE T == Table[g]
           a == FirstNode
           pn == Append(a.pn, RootNode)
           hashP == {1}
           b == WithRootNode
<1>1. /\ ParserOK(T, input, a) /\ a.sn = Append(<<>>, Fresh(1, White(0)))
      /\ a.zn = <<>> /\ a.pn = <<>> /\ a.hashP = {}
  BY FirstNodeOK
<1>2. IsSeq(<<>>) /\ Len(<<>>) = 0
  BY EmptyFacts
<1>3. IsSeq(pn) /\ Len(pn) = 1 /\ pn[1] = RootNode
  <2> DEFINE es == a.pn
             new == Append(es, RootNode)
  <2>1. IsSeq(es) /\ Len(es) = 0
    BY <1>1, <1>2
  <2> HIDE DEF es
  <2>2. IsSeq(new) /\ Len(new) = Len(es) + 1 /\ new[Len(es) + 1] = RootNode
    BY <2>1, AppendFacts
  <2> HIDE DEF new
  <2>3. IsSeq(new) /\ Len(new) = 1 /\ new[1] = RootNode
    BY <2>1, <2>2
  <2> QED
    BY <2>3 DEF new, es
<1>4. b = WithForest(a, pn, hashP)
  <2>1. b = [a EXCEPT !.pn = Append(@, RootNode), !.hashP = @ \cup {Len(a.pn) + 1}]
    BY DEF WithRootNode, InsertPNode
  <2>2. IsParser(a)
    BY <1>1 DEF ParserOK
  <2>3. a.hashP \cup {Len(a.pn) + 1} = hashP
    BY <1>1, <1>2
  <2> HIDE DEF hashP
  <2>4. b = [a EXCEPT !.pn = pn, !.hashP = hashP]
    <3> HIDE DEF a, b
    <3> QED
      BY <2>1, <2>2, <2>3 DEF IsParser
  <2> QED
    BY <2>4 DEF WithForest
<1> HIDE DEF T, a, b, pn, hashP
<1>5. IsParser(b) /\ SameStack(a, b) /\ b.pn = pn /\ b.hashP = hashP
  BY <1>1, <1>4, WithForestOK DEF ParserOK
<1>6. PNodeOK(Len(input), 1, RootNode) /\ RootNode.latest = 1
  BY RootNodeOK
<1>7. 1..Len(pn) = {1} /\ RootNode.latest \in 1..1
  BY <1>3, <1>6
<1>8. PNodesOK(Len(input), pn)
  BY <1>3, <1>6, <1>7 DEF PNodesOK, SameSpan
<1>9. GrownForest(a.pn, pn)
  BY <1>1, <1>2, <1>3 DEF GrownForest
<1>10. hashP \subseteq 1..Len(pn)
  BY <1>7 DEF hashP
<1>11. ParserOK(T, input, b)
  <2>1. PNodesOK(Len(input), b.pn) /\ GrownForest(a.pn, b.pn) /\ b.hashP \subseteq 1..Len(b.pn)
    BY <1>5, <1>8, <1>9, <1>10
  <2> QED
    BY <1>1, <1>5, <2>1, ForestKeeps
<1> QED
  BY <1>1, <1>3, <1>5, <1>11 DEF SameStack, T, b, hashP

\* The first SNode with the ZNode of that PNode.
RootSNode == [Fresh(1, White(0)) EXCEPT !.zns = <<1>>, !.lastPn = 1]

\* It is a node of the stack without links to others.
LEMMA RootSNodeOK ==
  ASSUME NEW T, 1 \in DOMAIN T.items, IsSeq(input)
  PROVE  /\ SNodeOK(T, Len(input), 1, 1, RootSNode) /\ RootSNode.state = 1 /\ RootSNode.loc = White(0)
         /\ ToSet(RootSNode.zns) = {1}
<1> DEFINE i == White(0)
           v == RootSNode
           zns == <<1>>
<1>1. i \in 0..Len(input)
  BY RootNodeOK
<1>2. IsSeq(zns) /\ ToSet(zns) = {1}
  BY SingleFacts
<1>3. v = [state |-> 1, loc |-> i, depth |-> 0, lastPn |-> 1, zns |-> zns]
  <2> DEFINE f == Fresh(1, i)
  <2>1. f = [state |-> 1, loc |-> i, depth |-> 0, lastPn |-> 0, zns |-> <<>>]
    BY DEF Fresh
  <2>2. v = [f EXCEPT !.zns = zns, !.lastPn = 1]
    BY DEF RootSNode
  <2> HIDE DEF f, v, zns, i
  <2> QED
    BY <2>1, <2>2
<1> HIDE DEF i, v, zns
<1>4. v.state = 1 /\ v.loc = i /\ v.depth = 0 /\ v.lastPn = 1 /\ v.zns = zns
  BY <1>3
<1>5. v = [state |-> v.state, loc |-> v.loc, depth |-> v.depth, lastPn |-> v.lastPn, zns |-> v.zns]
  BY <1>3, <1>4
<1>6. SNodeOK(T, Len(input), 1, 1, v)
  BY <1>1, <1>2, <1>4, <1>5 DEF SNodeOK
<1> QED
  BY <1>2, <1>4, <1>6 DEF i, v

\* The fields of the parser that starts.
LEMMA StartFields ==
  ASSUME IsSeq(input), TableOK(Table[g]), GotoOK(Table[g])
  PROVE  LET b == WithRootNode
             u == StartParser
         IN  /\ IsParser(u) /\ u.t = b.t /\ u.pn = b.pn /\ u.hashS = b.hashS /\ u.hashP = b.hashP
             /\ u.todo = b.todo /\ u.shifts = b.shifts /\ u.accept = b.accept /\ u.epos = b.epos
             /\ u.zn = <<NoSNodes(1)>> /\ u.sn = [b.sn EXCEPT ![1] = RootSNode]
<1> DEFINE b == WithRootNode
           u == StartParser
           zn == <<NoSNodes(1)>>
           sn == [b.sn EXCEPT ![1] = RootSNode]
<1>1. IsParser(b) /\ b.sn = Append(<<>>, Fresh(1, White(0)))
  BY WithRootNodeOK DEF ParserOK
<1>2. 1 \in DOMAIN b.sn /\ b.sn[1] = Fresh(1, White(0))
  <2> DEFINE es == <<>>
             f == Fresh(1, White(0))
             c == Append(es, f)
  <2>1. IsSeq(es) /\ Len(es) = 0
    BY EmptyFacts
  <2>2. b.sn = c
    BY <1>1
  <2> HIDE DEF es, f
  <2>3. DOMAIN c = 1..(Len(es) + 1) /\ c[Len(es) + 1] = f
    BY <2>1, AppendFacts
  <2> HIDE DEF c, b
  <2>4. 1 \in DOMAIN b.sn /\ b.sn[1] = f
    BY <2>1, <2>2, <2>3
  <2> QED
    BY <2>4 DEF f
<1>3. u = [b EXCEPT !.zn = zn, !.sn[1].zns = <<1>>, !.sn[1].lastPn = 1]
  BY DEF StartParser, WithRootNode, FirstNode, RootNode, NoSNodes
<1>4. [[b.sn[1] EXCEPT !.zns = <<1>>] EXCEPT !.lastPn = 1] = RootSNode
  BY <1>2 DEF RootSNode
<1> HIDE DEF b, u, zn
<1>5. u = [b EXCEPT !.zn = zn, !.sn = sn]
  BY <1>1, <1>2, <1>3, <1>4 DEF IsParser
<1> HIDE DEF sn
<1>6. /\ IsParser(u) /\ u.t = b.t /\ u.pn = b.pn /\ u.hashS = b.hashS /\ u.hashP = b.hashP
      /\ u.todo = b.todo /\ u.shifts = b.shifts /\ u.accept = b.accept /\ u.epos = b.epos
      /\ u.zn = zn /\ u.sn = sn
  BY <1>1, <1>5 DEF IsParser
<1> QED
  BY <1>6 DEF b, u, zn, sn

\* The parser of the initial state satisfies the invariant; its stack has no links.
LEMMA StartParserOK ==
  ASSUME IsSeq(input), TableOK(Table[g]), GotoOK(Table[g]), "S'" \notin DOMAIN Table[g].spell
  PROVE  /\ Whole(Table[g], input, StartParser) /\ LinksOf(StartParser) = {}
         /\ Rooted(<<1, White(0)>>, StartParser)
<1> DEFINE T == Table[g]
           b == WithRootNode
           u == StartParser
           i == White(0)
           z == NoSNodes(1)
           v == RootSNode
<1>1. /\ ParserOK(T, input, b) /\ b.sn = Append(<<>>, Fresh(1, i)) /\ b.zn = <<>>
      /\ IsSeq(b.pn) /\ Len(b.pn) = 1 /\ b.pn[1] = RootNode /\ b.hashP = {1}
  BY WithRootNodeOK
<1>2. /\ IsParser(u) /\ u.t = b.t /\ u.pn = b.pn /\ u.hashS = b.hashS /\ u.hashP = b.hashP
      /\ u.todo = b.todo /\ u.shifts = b.shifts /\ u.accept = b.accept /\ u.epos = b.epos
      /\ u.zn = <<z>> /\ u.sn = [b.sn EXCEPT ![1] = v]
  BY StartFields
<1>3. 1 \in DOMAIN T.items
  BY DEF TableOK
<1>4. SNodeOK(T, Len(input), 1, 1, v) /\ v.state = 1 /\ v.loc = i /\ ToSet(v.zns) = {1}
  BY <1>3, RootSNodeOK
<1>5. z.pn = 1 /\ z.sns = <<>> /\ ZNodeOK(1, 1, z)
  BY NoSNodesOK
<1>6. /\ RootNode.start = i /\ RootNode.skip = i /\ i \in Int
      /\ RootNode.sym = "S'" /\ ~RootNode.term /\ RootNode.amb = <<>>
  BY RootNodeOK
<1>21. "S'" \notin DOMAIN T.spell
  OBVIOUS
<1>7. Fresh(1, i).state = 1 /\ Fresh(1, i).loc = i /\ Fresh(1, i).zns = <<>>
  BY FreshFacts
<1>8. IsSeq(<<>>) /\ Len(<<>>) = 0 /\ ToSet(<<>>) = {}
  BY EmptyFacts
<1>9. b.sn[1].state = 1 /\ b.sn[1].loc = i /\ b.sn[1].zns = <<>> /\ Len(b.sn) = 1 /\ IsSeq(b.sn)
  <2> DEFINE es == <<>>
             f == Fresh(1, i)
             c == Append(es, f)
  <2>1. IsSeq(es) /\ Len(es) = 0 /\ b.sn = c
    BY <1>1, <1>8
  <2> HIDE DEF es, f, b
  <2>2. IsSeq(c) /\ Len(c) = Len(es) + 1 /\ c[Len(es) + 1] = f
    BY <2>1, AppendFacts
  <2> HIDE DEF c
  <2>3. IsSeq(b.sn) /\ Len(b.sn) = 1 /\ b.sn[1] = f
    BY <2>1, <2>2
  <2> QED
    BY <1>7, <2>3 DEF f
<1> HIDE DEF T, b, u, i, z, v
<1>10. IsSeq(u.sn) /\ Len(u.sn) = 1 /\ u.sn[1] = v
  <2> DEFINE s == b.sn
             k == 1
             t == [s EXCEPT ![k] = v]
  <2>1. IsSeq(s) /\ k \in 1..Len(s)
    BY <1>9
  <2>2. u.sn = t /\ Len(s) = 1
    BY <1>2, <1>9
  <2> HIDE DEF s, k
  <2>3. IsSeq(t) /\ Len(t) = Len(s) /\ t[k] = v
    BY <2>1, ExceptFacts
  <2> HIDE DEF t
  <2> QED
    BY <2>2, <2>3 DEF k
<1>11. IsSeq(u.zn) /\ Len(u.zn) = 1 /\ u.zn[1] = z
  <2> DEFINE t == <<z>>
  <2>1. IsSeq(t) /\ Len(t) = 1 /\ t[1] = z
    BY SingleFacts
  <2> HIDE DEF t
  <2> QED
    BY <1>2, <2>1 DEF t
<1>12. 1..1 = {1} /\ 1 \in 1..1
  OBVIOUS
<1>13. SameNodes(b, u)
  <2>1. Grown(b.sn, u.sn)
    BY <1>4, <1>8, <1>9, <1>10, <1>12 DEF Grown
  <2> QED
    BY <1>2, <1>9, <1>10, <2>1 DEF SameNodes
<1>14. SNodesOK(T, Len(input), u.sn, Len(u.zn), Len(u.pn)) /\ ZNodesOK(u.zn, Len(u.sn), Len(u.pn))
  BY <1>1, <1>2, <1>4, <1>5, <1>10, <1>11, <1>12 DEF SNodesOK, ZNodesOK
<1>15. Owned(u.sn)
  BY <1>10, <1>12 DEF Owned
<1>16. Joined(u.sn, u.zn, u.pn)
  BY <1>1, <1>2, <1>4, <1>5, <1>6, <1>8, <1>10, <1>11, <1>12 DEF Joined
<1>22. Single(u.sn, u.zn)
  BY <1>4, <1>10, <1>12 DEF Single
<1>23. ForestOK(T, u.pn)
  <2>1. Len(u.pn) = 1 /\ u.pn[1] = RootNode /\ Alts(u.pn, 1) = {1}
    BY <1>1, <1>2, <1>6, <1>8 DEF Alts
  <2> QED
    BY <1>6, <1>8, <1>12, <1>21, <2>1 DEF ForestOK
<1>17. ParserOK(T, input, u)
  BY <1>1, <1>2, <1>13, <1>14, <1>15, <1>16, <1>22, SameNodesKeeps
<1>18. HashPOK(u.pn, u.hashP)
  BY <1>1, <1>2 DEF HashPOK
<1>19. LinksOf(u) = {}
  <2>1. ASSUME NEW s, NEW y, NEW c, IsLink(u, s, y, c) PROVE FALSE
    <3>1. s = 1 /\ y \in ToSet(u.sn[s].zns) /\ c \in ToSet(u.zn[y].sns)
      BY <1>10, <1>12, <2>1 DEF IsLink
    <3>2. y = 1
      BY <1>4, <1>10, <3>1
    <3> QED
      BY <1>5, <1>8, <1>11, <3>1, <3>2
  <2>2. \A e : e \notin LinksOf(u)
    BY <1>10, <2>1, InLinks
  <2> QED
    BY <2>2
<1>20. Rooted(<<1, i>>, u)
  BY <1>4, <1>10, <1>12 DEF Rooted, Node, StateOf, Loc
<1> QED
  BY <1>17, <1>18, <1>19, <1>20, <1>23 DEF Whole, T, u, i

-----------------------------------------------------------------------------
(* The invariant.                                                          *)

Posed == Problem(Table[g], {})

GLRInv ==
  /\ g \in Grammars /\ input \in Inputs[g] /\ result \in {"running", "accept", "error"}
  /\ Whole(Table[g], input, p) /\ Rooted(Stack!Root(Posed), p)

\* The tables and the input of a parse satisfy the assumptions.
LEMMA PosedFacts ==
  ASSUME g \in Grammars, input \in Inputs[g]
  PROVE  /\ TableOK(Table[g]) /\ GotoOK(Table[g]) /\ RulesOK(Table[g]) /\ IsSeq(input)
         /\ Poses(Table[g], Posed) /\ Posed.tokens = Tokens(Table[g]) /\ Posed.end = Len(input)
         /\ Stack!Root(Posed) = <<1, White(0)>>
<1>1. TableOK(Table[g]) /\ GotoOK(Table[g]) /\ RulesOK(Table[g]) /\ IsSeq(input)
  BY TableAssumption, InputAssumption
<1>2. Poses(Table[g], Posed) /\ Posed.tokens = Tokens(Table[g]) /\ Posed.end = Len(input) /\ Posed.start = White(0)
  BY DEF Poses, Posed, Problem
<1>3. Stack!Root(Posed) = <<1, White(0)>>
  BY <1>2 DEF Stack!Root, Stack!Start
<1> QED
  BY <1>1, <1>2, <1>3

\* The engine starts with nothing on the stack but its root.
LEMMA InitInv ==
  ASSUME Init
  PROVE  GLRInv /\ Links = {} /\ result = "running"
<1>1. g \in Grammars /\ input \in Inputs[g] /\ p = StartParser /\ result = "running"
  BY DEF Init
<1>2. /\ TableOK(Table[g]) /\ GotoOK(Table[g]) /\ IsSeq(input) /\ Stack!Root(Posed) = <<1, White(0)>>
      /\ "S'" \notin DOMAIN Table[g].spell
  BY <1>1, PosedFacts, GrammarAssumption DEF SpellingOK
<1>3. Whole(Table[g], input, StartParser) /\ LinksOf(StartParser) = {} /\ Rooted(<<1, White(0)>>, StartParser)
  BY <1>2, StartParserOK
<1>4. Whole(Table[g], input, p) /\ LinksOf(p) = {} /\ Rooted(Stack!Root(Posed), p)
  BY <1>1, <1>2, <1>3
<1> QED
  BY <1>1, <1>4 DEF GLRInv, Links

\* A step keeps the problem.
LEMMA PosedKept ==
  ASSUME UNCHANGED <<g, input>>
  PROVE  UNCHANGED Posed
BY DEF Posed, Problem, Tokens, Spelled, White, Agrees

\* A reduction, or a round of shifts.
Steps == StepOK(Table[g], input, Posed, p, p') /\ UNCHANGED <<g, input, result>> /\ result = "running"

\* Reduce is one of these.
LEMMA ReduceGrows ==
  ASSUME GLRInv, Reduce
  PROVE  Steps
<1>1. /\ g \in Grammars /\ input \in Inputs[g]
      /\ Whole(Table[g], input, p) /\ Rooted(Stack!Root(Posed), p)
  BY DEF GLRInv
<1>2. TableOK(Table[g]) /\ GotoOK(Table[g]) /\ Poses(Table[g], Posed)
  BY <1>1, PosedFacts
<1>3. p.todo # <<>> /\ (p.shifts # <<>> => Loc(p, Head(p.todo).sn) <= Loc(p, Head(p.shifts)))
  BY DEF Reduce, CanReduce
<1>4. StepOK(Table[g], input, Posed, p, ReduceOne(ReadyToReduce(p), Head(p.todo)))
  BY <1>1, <1>2, <1>3, ReduceStepOK
<1>5. p' = ReduceOne(ReadyToReduce(p), Head(p.todo))
  BY DEF Reduce, ReadyToReduce
<1> QED
  BY <1>4, <1>5 DEF Steps, Reduce, Running

\* Shift is the other.
LEMMA ShiftGrows ==
  ASSUME GLRInv, Shift
  PROVE  Steps
<1> DEFINE pos == Loc(p, Head(p.shifts))
<1>1. /\ g \in Grammars /\ input \in Inputs[g]
      /\ Whole(Table[g], input, p) /\ Rooted(Stack!Root(Posed), p)
  BY DEF GLRInv
<1>2. TableOK(Table[g]) /\ GotoOK(Table[g]) /\ Poses(Table[g], Posed) /\ Posed.tokens = Tokens(Table[g]) /\ IsSeq(input)
  BY <1>1, PosedFacts
<1>3. p.shifts # <<>> /\ (p.todo # <<>> => ~(Loc(p, Head(p.todo).sn) <= pos))
  BY DEF Shift, CanReduce
<1>4. p' = ShiftAll(ReadyAt(p, pos), pos)
  BY DEF Shift, ReadyToShift, ReadyAt, Compared
<1>5. StepOK(Table[g], input, Posed, p, ShiftAll(ReadyAt(p, pos), pos))
  BY <1>1, <1>2, <1>3, ShiftStepOK
<1> HIDE DEF pos
<1> QED
  BY <1>4, <1>5 DEF Steps, Shift, Running

\* Both keep the invariant and are steps of GSS.
LEMMA GrowsOK ==
  ASSUME GLRInv, Steps
  PROVE  GLRInv' /\ Stack!Grow
<1>1. StepOK(Table[g], input, Posed, p, p') /\ UNCHANGED <<g, input, result>> /\ result = "running"
  BY DEF Steps
<1>2. UNCHANGED Posed
  BY <1>1, PosedKept
<1>3. /\ Whole(Table[g], input, p') /\ Rooted(Stack!Root(Posed), p') /\ LinksOf(p) \subseteq LinksOf(p')
      /\ \A e \in LinksOf(p') \ LinksOf(p) : Stack!Shifted(Posed, LinksOf(p), e) \/ Stack!Reduced(Posed, LinksOf(p), e)
  BY <1>1 DEF StepOK
<1>4. GLRInv'
  BY <1>1, <1>2, <1>3 DEF GLRInv
<1>5. Links = LinksOf(p) /\ Links' = LinksOf(p')
  BY DEF Links
<1>6. Stack!Grow
  BY <1>1, <1>2, <1>3, <1>5 DEF Stack!Grow, Posed
<1> QED
  BY <1>4, <1>6

\* The engine accepts exactly if an accepting node is at the end of the input.
LEMMA AcceptsWhenAccepting ==
  ASSUME GLRInv
  PROVE  (p.accept # 0 /\ Loc(p, p.accept) = Len(input)) <=> Stack!Accepting(Posed, Links)
<1> DEFINE T == Table[g]
           len == Len(input)
<1>1. /\ g \in Grammars /\ input \in Inputs[g]
      /\ Whole(T, input, p) /\ Rooted(Stack!Root(Posed), p)
  BY DEF GLRInv
<1>2. TableOK(T) /\ RulesOK(T) /\ Poses(T, Posed) /\ Posed.end = len /\ Stack!Root(Posed) = <<1, White(0)>>
  BY <1>1, PosedFacts
<1>3. ParserOK(T, input, p) /\ AcceptOK(T, p.sn, p.accept)
  BY <1>1 DEF Whole, ParserOK
<1>4. /\ len \in Nat /\ Len(p.sn) \in Nat
      /\ \A s \in 1..Len(p.sn) : p.sn[s].state \in DOMAIN T.items /\ p.sn[s].loc \in 0..len
  BY <1>3, ParserFacts, SNodeFacts
<1>5. /\ \A s \in 1..Len(p.sn) : Node(p, s) \in Stack!NodesOf(Posed, LinksOf(p))
  BY <1>1, <1>3, LowerOnStack
<1>6. T.accept = {s \in DOMAIN T.items : <<1, 1>> \in T.items[s]} /\ <<1, 1>> \notin T.items[1]
  BY <1>2 DEF TableOK, RulesOK
<1>7. Posed.items = T.items
  BY <1>2 DEF Poses
<1> HIDE DEF T, len
<1>8. ASSUME p.accept # 0, Loc(p, p.accept) = len PROVE Stack!Accepting(Posed, Links)
  <2> DEFINE s == p.accept
             v == Node(p, s)
  <2>1. s \in 1..Len(p.sn) /\ p.sn[s].state \in T.accept
    BY <1>3, <1>4, <1>8 DEF AcceptOK
  <2>2. v[1] = p.sn[s].state /\ v[2] = len
    BY <1>8 DEF Node, StateOf, Loc
  <2>3. <<1, 1>> \in Posed.items[v[1]]
    BY <1>6, <1>7, <2>1, <2>2
  <2>4. v \in Stack!NodesOf(Posed, Links)
    BY <1>5, <2>1 DEF Links
  <2> HIDE DEF v
  <2> QED
    BY <1>2, <2>2, <2>3, <2>4 DEF Stack!Accepting
<1>9. ASSUME Stack!Accepting(Posed, Links) PROVE p.accept # 0 /\ Loc(p, p.accept) = len
  <2>1. PICK v \in Stack!NodesOf(Posed, Links) : v[2] = len /\ <<1, 1>> \in T.items[v[1]]
    BY <1>2, <1>7, <1>9 DEF Stack!Accepting
  <2>2. v # Stack!Root(Posed)
    BY <1>2, <1>6, <2>1
  <2>3. PICK e \in LinksOf(p) : v = e[3]
    BY <2>1, <2>2 DEF Stack!NodesOf, Links
  <2>4. PICK s \in 1..Len(p.sn) : v = Node(p, s)
    BY <1>3, <2>3, LinkEnds
  <2>5. p.sn[s].state = v[1] /\ p.sn[s].loc = len
    BY <2>1, <2>4 DEF Node, StateOf, Loc
  <2>6. p.sn[s].state \in T.accept
    BY <1>4, <1>6, <2>1, <2>5
  <2>7. p.accept # 0 /\ p.accept \in 0..Len(p.sn) /\ p.sn[s].loc <= p.sn[p.accept].loc
    BY <1>3, <2>6 DEF AcceptOK
  <2>8. p.sn[p.accept].loc \in 0..len
    BY <1>4, <2>7
  <2>9. p.sn[p.accept].loc = len
    BY <1>4, <2>5, <2>7, <2>8
  <2> QED
    BY <2>7, <2>9 DEF Loc
<1> QED
  BY <1>8, <1>9 DEF len

\* The answer is accept exactly if an accepting node is at the end: the one kept is the
\* farthest.
LEMMA FinishAnswers ==
  ASSUME GLRInv, Finish
  PROVE  GLRInv' /\ Stack!Answer
<1>1. /\ result = "running" /\ UNCHANGED <<g, input, p>>
      /\ result' = IF p.accept # 0 /\ Loc(p, p.accept) = Len(input) THEN "accept" ELSE "error"
  BY DEF Finish, Running
<1>2. UNCHANGED Posed
  BY <1>1, PosedKept
<1>3. GLRInv'
  BY <1>1, <1>2 DEF GLRInv
<1>4. result' = IF Stack!Accepting(Posed, Links) THEN "accept" ELSE "error"
  BY <1>1, AcceptsWhenAccepting
<1>5. UNCHANGED Links
  BY <1>1 DEF Links
<1>6. Stack!Answer
  BY <1>1, <1>2, <1>4, <1>5 DEF Stack!Answer, Posed
<1> QED
  BY <1>3, <1>6

\* A step keeps the invariant, and is a step of GSS or changes nothing that GSS sees.
LEMMA StepInv ==
  ASSUME GLRInv, [Next]_vars
  PROVE  GLRInv' /\ [Stack!Next]_Stack!vars
<1>1. CASE Reduce
  BY <1>1, ReduceGrows, GrowsOK DEF Stack!Next
<1>2. CASE Shift
  BY <1>2, ShiftGrows, GrowsOK DEF Stack!Next
<1>3. CASE Finish
  BY <1>3, FinishAnswers DEF Stack!Next
<1>4. CASE UNCHANGED vars
  <2>1. UNCHANGED <<g, input, p, result>>
    BY <1>4 DEF vars
  <2>2. UNCHANGED Posed
    BY <2>1, PosedKept
  <2>3. GLRInv'
    BY <2>1, <2>2 DEF GLRInv
  <2>4. UNCHANGED Stack!vars
    BY <2>1, <2>2 DEF Stack!vars, Posed, Links
  <2> QED
    BY <2>3, <2>4
<1> QED
  BY <1>1, <1>2, <1>3, <1>4 DEF Next

\* The invariant holds of every parse.
LEMMA InvariantHolds ==
  Spec => []GLRInv
<1>1. Init => GLRInv
  BY InitInv
<1>2. GLRInv /\ [Next]_vars => GLRInv'
  BY StepInv
<1> QED
  BY <1>1, <1>2, PTL DEF Spec

-----------------------------------------------------------------------------
(* What follows.                                                           *)

\* What it says of the types.
LEMMA InvImpliesTypeOK ==
  ASSUME GLRInv
  PROVE  TypeOK
<1> DEFINE T == Table[g]
           len == Len(input)
           ns == Len(p.sn)
           nz == Len(p.zn)
           np == Len(p.pn)
<1>1. g \in Grammars /\ input \in Inputs[g] /\ result \in {"running", "accept", "error"} /\ ParserOK(T, input, p)
  BY DEF GLRInv, Whole
<1>2. /\ ns \in Nat /\ nz \in Nat /\ np \in Nat /\ len \in Nat
      /\ DOMAIN p.sn = 1..ns /\ DOMAIN p.zn = 1..nz /\ DOMAIN p.pn = 1..np
  BY <1>1, ParserFacts, SeqFacts
<1>3. /\ \A s \in 1..ns : SNodeOK(T, len, nz, np, p.sn[s])
      /\ \A z \in 1..nz : ZNodeOK(ns, np, p.zn[z])
      /\ \A x \in 1..np : PNodeOK(len, np, p.pn[x])
  BY <1>1, ParserFacts
<1>4. p.t = T /\ p.epos \in -1..len /\ p.hashP \subseteq 1..np
  BY <1>1 DEF ParserOK
<1>5. p.hashS \subseteq 1..ns /\ p.accept \in 0..ns
  BY <1>1 DEF ParserOK, HashOK, AcceptOK
<1>6. \A x \in 1..np : p.pn[x].latest \in x..np
  BY <1>1 DEF ParserOK, PNodesOK
<1>7. TodoOK(T, p.epos, p.sn, p.todo) /\ ShiftsOK(p.epos, p.sn, p.shifts)
  BY <1>1 DEF ParserOK
<1>8. DOMAIN p.todo = 1..Len(p.todo) /\ DOMAIN p.shifts = 1..Len(p.shifts)
  BY <1>7, SeqFacts DEF TodoOK, ShiftsOK
<1> HIDE DEF T, len, ns, nz, np
<1>9. \A s \in DOMAIN p.sn : /\ p.sn[s].state \in DOMAIN T.items /\ p.sn[s].loc \in 0..len
                             /\ ToSet(p.sn[s].zns) \subseteq DOMAIN p.zn
                             /\ p.sn[s].lastPn \in DOMAIN p.pn \cup {0}
  <2>1. SUFFICES ASSUME NEW s \in 1..ns
                 PROVE  /\ p.sn[s].state \in DOMAIN T.items /\ p.sn[s].loc \in 0..len
                        /\ ToSet(p.sn[s].zns) \subseteq DOMAIN p.zn
                        /\ p.sn[s].lastPn \in DOMAIN p.pn \cup {0}
    BY <1>2
  <2>2. SNodeOK(T, len, nz, np, p.sn[s])
    BY <1>3
  <2>3. p.sn[s].lastPn \in 0..np /\ 0..np \subseteq (1..np) \cup {0}
    BY <1>2, <2>2 DEF SNodeOK
  <2> QED
    BY <1>2, <2>2, <2>3 DEF SNodeOK
<1>10. \A z \in DOMAIN p.zn : p.zn[z].pn \in DOMAIN p.pn /\ ToSet(p.zn[z].sns) \subseteq DOMAIN p.sn
  BY <1>2, <1>3 DEF ZNodeOK
<1>11. \A x \in DOMAIN p.pn : /\ 0 <= p.pn[x].start /\ p.pn[x].start <= p.pn[x].end
                              /\ p.pn[x].end <= p.pn[x].skip /\ p.pn[x].skip <= len
                              /\ ToSet(p.pn[x].kids) \cup ToSet(p.pn[x].amb) \cup {p.pn[x].latest} \subseteq DOMAIN p.pn
  <2>1. SUFFICES ASSUME NEW x \in 1..np
                 PROVE  /\ 0 <= p.pn[x].start /\ p.pn[x].start <= p.pn[x].end
                        /\ p.pn[x].end <= p.pn[x].skip /\ p.pn[x].skip <= len
                        /\ ToSet(p.pn[x].kids) \cup ToSet(p.pn[x].amb) \cup {p.pn[x].latest} \subseteq DOMAIN p.pn
    BY <1>2
  <2>2. PNodeOK(len, np, p.pn[x])
    BY <1>3
  <2>3. p.pn[x].start \in 0..len /\ p.pn[x].end \in p.pn[x].start..len /\ p.pn[x].skip \in p.pn[x].end..len
    BY <2>2 DEF PNodeOK
  <2>4. ToSet(p.pn[x].kids) \subseteq 1..np /\ ToSet(p.pn[x].amb) \subseteq 1..np
    BY <2>2 DEF PNodeOK
  <2>5. p.pn[x].latest \in 1..np
    BY <1>2, <1>6
  <2> QED
    BY <1>2, <2>3, <2>4, <2>5
<1>12. p.accept \in DOMAIN p.sn \cup {0}
  BY <1>2, <1>5
<1>13. ToSet(p.shifts) \subseteq DOMAIN p.sn
  BY <1>2, <1>7, <1>8 DEF ShiftsOK, ToSet, ns
<1>14. \A i \in DOMAIN p.todo : p.todo[i].sn \in DOMAIN p.sn /\ p.todo[i].z \in DOMAIN p.zn \cup {0}
  <2>1. SUFFICES ASSUME NEW i \in 1..Len(p.todo)
                 PROVE  p.todo[i].sn \in DOMAIN p.sn /\ p.todo[i].z \in DOMAIN p.zn \cup {0}
    BY <1>8
  <2>2. EntryOK(T, p.epos, p.sn, p.todo[i])
    BY <1>7 DEF TodoOK
  <2>3. p.todo[i].sn \in DOMAIN p.sn /\ (p.todo[i].z = 0 \/ p.todo[i].z \in ToSet(p.sn[p.todo[i].sn].zns))
    BY <1>2, <2>2 DEF EntryOK, ns
  <2> QED
    BY <1>9, <2>3
<1> QED
  BY <1>1, <1>2, <1>4, <1>5, <1>9, <1>10, <1>11, <1>12, <1>13, <1>14 DEF TypeOK, T, len

\* What it says of the hashes.
LEMMA InvImpliesHashesUnique ==
  ASSUME GLRInv
  PROVE  HashesUnique
<1>1. HashOK(Table[g], input, p.epos, p.sn, p.hashS) /\ HashPOK(p.pn, p.hashP)
  BY DEF GLRInv, Whole, ParserOK
<1>2. \A s, t \in p.hashS : StateOf(p, s) = StateOf(p, t) => s = t
  BY <1>1 DEF HashOK, StateOf
<1>3. \A x, y \in p.hashP :
        <<p.pn[x].sym, p.pn[x].start, p.pn[x].skip>> = <<p.pn[y].sym, p.pn[y].start, p.pn[y].skip>>
          => Latest(p, x) = Latest(p, y)
  <2>1. SUFFICES ASSUME NEW x \in p.hashP, NEW y \in p.hashP,
                        <<p.pn[x].sym, p.pn[x].start, p.pn[x].skip>> = <<p.pn[y].sym, p.pn[y].start, p.pn[y].skip>>
                 PROVE  Latest(p, x) = Latest(p, y)
    OBVIOUS
  <2>2. SameSpan(p.pn[x], p.pn[y])
    BY <2>1 DEF SameSpan
  <2>3. Latests(p.pn)[x] = Latests(p.pn)[y]
    BY <1>1, <2>2 DEF HashPOK
  <2>4. Latest(p, x) = Latests(p.pn)[x] /\ Latest(p, y) = Latests(p.pn)[y]
    BY LatestIs
  <2> QED
    BY <2>3, <2>4
<1> QED
  BY <1>2, <1>3 DEF HashesUnique

\* What it says of the work lists.
LEMMA InvImpliesWorkInOrder ==
  ASSUME GLRInv
  PROVE  WorkInOrder
<1>1. ParserOK(Table[g], input, p)
  BY DEF GLRInv, Whole
<1>2. TodoOK(Table[g], p.epos, p.sn, p.todo) /\ ShiftsOK(p.epos, p.sn, p.shifts)
  BY <1>1 DEF ParserOK
<1>3. DOMAIN p.todo = 1..Len(p.todo) /\ DOMAIN p.shifts = 1..Len(p.shifts)
  BY <1>2, SeqFacts DEF TodoOK, ShiftsOK
<1>4. p.epos \in Int /\ \A s \in 1..Len(p.sn) : p.sn[s].loc \in Int
  BY <1>1, ParserFacts DEF Located
<1>5. \A i \in 1..Len(p.todo) : Loc(p, p.todo[i].sn) >= p.epos
  BY <1>2, <1>4 DEF TodoOK, EntryOK, Loc
<1>6. \A i \in 1..Len(p.shifts) : Loc(p, p.shifts[i]) >= p.epos
  BY <1>2, <1>4 DEF ShiftsOK, Loc
<1>7. \A i, j \in 1..Len(p.todo) : i < j => Loc(p, p.todo[i].sn) <= Loc(p, p.todo[j].sn)
  BY <1>2 DEF TodoOK, Loc
<1>8. \A i, j \in 1..Len(p.shifts) : i < j => Loc(p, p.shifts[i]) <= Loc(p, p.shifts[j])
  BY <1>2 DEF ShiftsOK, Loc
<1> QED
  BY <1>3, <1>5, <1>6, <1>7, <1>8 DEF WorkInOrder

\* Intervals from 1 that are equal end at one number.
LEMMA SameRange ==
  ASSUME NEW m \in Nat, NEW n \in Nat, 1..m = 1..n
  PROVE  m = n
<1>1. CASE m = 0
  <2>1. \A i \in 1..n : FALSE
    BY <1>1
  <2>2. n # 0 => 1 \in 1..n
    OBVIOUS
  <2> QED
    BY <1>1, <2>1, <2>2
<1>2. CASE m # 0
  <2>1. m \in 1..n
    BY <1>2
  <2>2. n \in 1..m
    BY <2>1
  <2> QED
    BY <2>1, <2>2
<1> QED
  BY <1>1, <1>2

\* What it says of the links and of the alternatives.
LEMMA InvImpliesNothingTwice ==
  ASSUME GLRInv
  PROVE  NothingTwice
<1> DEFINE np == Len(p.pn)
<1>1. ParserOK(Table[g], input, p) /\ ForestOK(Table[g], p.pn) /\ PNodesOK(Len(input), p.pn)
  BY DEF GLRInv, Whole, ParserOK
<1>2. DOMAIN p.sn = 1..Len(p.sn) /\ DOMAIN p.zn = 1..Len(p.zn) /\ DOMAIN p.pn = 1..np
  BY <1>1, ParserFacts, SeqFacts
<1>3. \A s \in DOMAIN p.sn : \A y, z \in ToSet(p.sn[s].zns) : p.zn[y].pn = p.zn[z].pn => y = z
  BY <1>1, <1>2 DEF ParserOK, Single
<1>4. \A z \in DOMAIN p.zn : IsInjective(p.zn[z].sns)
  <2>1. SUFFICES ASSUME NEW z \in 1..Len(p.zn) PROVE IsInjective(p.zn[z].sns)
    BY <1>2
  <2>2. IsSeq(p.zn[z].sns) /\ Distinct(p.zn[z].sns)
    BY <1>1, ParserFacts DEF ZNodeOK
  <2>3. DOMAIN p.zn[z].sns = 1..Len(p.zn[z].sns)
    BY <2>2, SeqFacts
  <2> QED
    BY <2>2, <2>3 DEF Distinct, IsInjective
<1>5. \A x \in DOMAIN p.pn : \A y, z \in {x} \cup ToSet(p.pn[x].amb) : Built(y) = Built(z) => y = z
  <2>1. SUFFICES ASSUME NEW x \in 1..np, NEW y \in Alts(p.pn, x), NEW z \in Alts(p.pn, x), Built(y) = Built(z)
                 PROVE  y = z
    BY <1>2 DEF Alts
  <2>2. y \in 1..np /\ z \in 1..np
    BY <1>1 DEF Alts, PNodesOK, PNodeOK
  <2>3. \A w \in 1..np : Len(p.pn[w].kids) \in Nat /\ DOMAIN p.pn[w].kids = 1..Len(p.pn[w].kids)
    BY <1>1, SeqFacts DEF PNodesOK, PNodeOK
  <2> DEFINE a == [k \in DOMAIN p.pn[y].kids |-> Latest(p, p.pn[y].kids[k])]
             b == [k \in DOMAIN p.pn[z].kids |-> Latest(p, p.pn[z].kids[k])]
  <2>4. p.pn[y].red = p.pn[z].red /\ a = b
    BY <2>1 DEF Built
  <2>5. 1..Len(p.pn[y].kids) = 1..Len(p.pn[z].kids)
    <3>1. DOMAIN a = DOMAIN b
      BY <2>4
    <3> QED
      BY <2>2, <2>3, <3>1
  <2>6. Len(p.pn[y].kids) = Len(p.pn[z].kids)
    BY <2>2, <2>3, <2>5, SameRange
  <2>7. ASSUME NEW k \in 1..Len(p.pn[y].kids)
        PROVE  Latests(p.pn)[p.pn[y].kids[k]] = Latests(p.pn)[p.pn[z].kids[k]]
    <3>1. a[k] = Latest(p, p.pn[y].kids[k]) /\ b[k] = Latest(p, p.pn[z].kids[k])
      BY <2>2, <2>3, <2>6
    <3>2. Latest(p, p.pn[y].kids[k]) = Latest(p, p.pn[z].kids[k])
      BY <2>4, <3>1
    <3> QED
      BY <3>2, LatestIs
  <2>8. SameBuilt(p.pn, y, z)
    BY <2>4, <2>6, <2>7 DEF SameBuilt
  <2> QED
    BY <1>1, <2>8 DEF ForestOK
<1> QED
  BY <1>3, <1>4, <1>5 DEF NothingTwice

\* The engine never leaves its types: every pointer of a node, of the hashes and of the
\* work lists is to a node there is, and every PNode spans a part of the input.
THEOREM TypeCorrect == Spec => []TypeOK
BY InvariantHolds, InvImpliesTypeOK, PTL

\* find_SNode and find_PNode find at most one node, as their asserts say.
THEOREM OneOfEach == Spec => []HashesUnique
BY InvariantHolds, InvImpliesHashesUnique, PTL

\* The lists that add_Reduction and add_Shift keep stay in the order in which
\* exhaustive_parse takes from their heads, and nothing is queued behind it.
THEOREM ListsInOrder == Spec => []WorkInOrder
BY InvariantHolds, InvImpliesWorkInOrder, PTL

\* set_add_znode, the sets of SNodes and add_PNode hold nothing twice: no two links of a
\* node have one PNode, no link leads to a node twice, and no two alternatives of a PNode
\* are the same reduction of the same children, though children are replaced by later
\* versions after PNode_equal has compared them.
THEOREM NothingBuiltTwice == Spec => []NothingTwice
BY InvariantHolds, InvImpliesNothingTwice, PTL

\* Whatever the work lists and the hashes find, the engine builds a graph-structured
\* stack by the rules of GSS and answers what is on it.
THEOREM EngineIsGSS == Spec => ImplementsGSS
<1>1. Init => Links = {} /\ result = "running"
  BY InitInv
<1>2. GLRInv /\ [Next]_vars => [Stack!Next]_Stack!vars
  BY StepInv
<1> QED
  BY <1>1, <1>2, InvariantHolds, PTL DEF Spec, ImplementsGSS
==============================================================================

------------------------------ MODULE Priorities ------------------------------
(***************************************************************************)
(* How parse.c (522-895, 1361-1465) prefers one parse to another: operators *)
(* and rules have an associativity, a set of                               *)
(*   "left" "right" "unary" "binary" "nary" "no"                           *)
(* (the flags of AssocKind, gram.h 79-93), and a priority.  All operators  *)
(* take the parser q, see GLR: q.pn are the PNodes, q.sn the nodes of the  *)
(* stack, q.zn its links, q.t the tables, and q.t.ranks which of           *)
(*   "priority" "greedy" "height" "stacks"                                 *)
(* are in use (the dont_use_... and dont_compare_stacks of a parser).      *)
(***************************************************************************)
EXTENDS Helpers, FiniteSets

Loc(q, s) == q.sn[s].loc
StateOf(q, s) == q.sn[s].state

\* LATEST: the current version of a PNode.
Latest(q, x) ==
  LET f[y \in DOMAIN q.pn] == IF q.pn[y].latest = y THEN y ELSE f[q.pn[y].latest]
  IN  f[x]

-----------------------------------------------------------------------------
(* Adjacent operators.                                                     *)

\* child_table: by parent, child, and priority of the child against the parent's, or
\* if equal the associativities child|parent; 1 is legal, 666 "impossible".
ChildTable ==
  << << <<1, 0, 1, 1, 0, 0>>, <<1, 1, 1, 1, 666, 666>>, <<1, 0, 666, 666, 1, 1>> >>,
     << <<1, 0, 0, 0, 1, 1>>, <<1, 0, 1, 1, 666, 666>>, <<1, 1, 666, 666, 1, 1>> >>,
     << <<1, 0, 0, 666, 0, 666>>, <<1, 1, 1, 666, 666, 666>>, <<1, 0, 666, 666, 1, 666>> >>,
     << <<1, 0, 666, 0, 666, 0>>, <<1, 0, 666, 1, 666, 666>>, <<1, 1, 666, 666, 666, 1>> >> >>

UnaryOrBinary(a) == {"unary", "binary"} \cap a # {}

\* check_child: may an expression with this associativity and priority be an operand,
\* on the right or on the left, of this parent?
CheckChild(parent, child, right) ==
  LET row    == IF {"binary", "nary"} \cap parent.assoc # {} THEN IF right THEN 2 ELSE 1
                ELSE IF "left" \in parent.assoc THEN 3 ELSE 4
      group  == IF {"binary", "nary"} \cap child.assoc # {} THEN 1
                ELSE IF "left" \in child.assoc THEN 2 ELSE 3
      column == IF child.prio > parent.prio THEN 1 ELSE IF child.prio < parent.prio THEN 2
                ELSE 3 + (IF "right" \in child.assoc THEN 2 ELSE 0)
                       + (IF "right" \in parent.assoc THEN 1 ELSE 0)
  IN  /\ ~("no" \in parent.assoc \cap child.assoc /\ parent.prio = child.prio)
      /\ "nary" \in parent.assoc \cup child.assoc \/ ChildTable[row][group][column] # 0

OpOf(n) == [assoc |-> n.opAssoc, prio |-> n.opPrio]
RankOf(n) == [assoc |-> n.assoc, prio |-> n.prio]

\* check_assoc_priority: three neighbours on the stack, the top one first, the third
\* may be absent ({}), where an operator may be unary or binary.
CheckAssocPriority(n0, n1, third) ==
  IF ~UnaryOrBinary(n0.opAssoc)
  THEN UnaryOrBinary(n1.opAssoc) /\ n0.assoc # {} => CheckChild(OpOf(n1), RankOf(n0), TRUE)
  ELSE /\ n1.opAssoc # {} => CheckChild(OpOf(n1), OpOf(n0), TRUE)
       /\ n1.opAssoc = {} => \A n2 \in third : n2.opAssoc # {} => CheckChild(OpOf(n2), OpOf(n0), TRUE)
       /\ n1.assoc # {} => CheckChild(OpOf(n0), RankOf(n1), FALSE)

Beneath(q, z) == UNION {ToSet(q.sn[s].zns) : s \in ToSet(q.zn[z].sns)}
NodeOf(q, z) == q.pn[q.zn[z].pn]

\* check_path_priorities_internal, from the operator at element i of the path: its
\* neighbours are in the path or one level below it; farther down nothing is refused.
CheckFrom(q, path, i) ==
  LET N(k) == NodeOf(q, path[k])
  IN  CASE Len(path) > i + 1 -> CheckAssocPriority(N(i), N(i + 1), {N(i + 2)})
        [] Len(path) = i + 1 ->
             LET third == {NodeOf(q, z) : z \in Beneath(q, path[i + 1])}
             IN  IF third = {} THEN CheckAssocPriority(N(i), N(i + 1), {})
                 ELSE \E n \in third : CheckAssocPriority(N(i), N(i + 1), {n})
        [] OTHER -> TRUE

\* check_path_priorities: the operators at the top of a path to be reduced agree.
PathLegal(q, path) ==
  LET N(k) == NodeOf(q, path[k])
  IN  \/ Len(path) < 2
      \/ N(1).opAssoc # {} /\ CheckFrom(q, path, 1)
      \/ /\ N(1).opAssoc = {}
         /\ N(2).opAssoc # {} => /\ N(1).assoc # {} => CheckChild(OpOf(N(2)), RankOf(N(1)), TRUE)
                                 /\ CheckFrom(q, path, 2)

-----------------------------------------------------------------------------
(* Comparing whole trees.                                                  *)

\* heapify, heap_insert and heap_pop on a max-heap of PNodes by height.
Height(q, x) == q.pn[x].height
Heapify(q, heap, at) ==
  LET sift[s \in Seq(DOMAIN q.pn) \X Nat] ==
        LET h == s[1]  i == s[2]
            kids == {k \in {2 * i, 2 * i + 1} : k <= Len(h) /\ Height(q, h[k]) > Height(q, h[i])}
            top  == CHOOSE k \in kids : \A j \in kids : \/ Height(q, h[k]) > Height(q, h[j])
                                                        \/ Height(q, h[k]) = Height(q, h[j]) /\ k <= j
        IN  IF kids = {} THEN h ELSE sift[<<[h EXCEPT ![i] = h[top], ![top] = h[i]], top>>]
  IN  sift[<<heap, at>>]
Heaped(q, seq) ==
  FoldLeft(LAMBDA h, i : Heapify(q, h, i), seq, Reverse([i \in 1..(Len(seq) \div 2) |-> i]))
HeapPop(q, heap) == Heaped(q, SubSeq([heap EXCEPT ![1] = Last(heap)], 1, Len(heap) - 1))

\* get_children: one side takes in the children of its node, unless the other side
\* has the node as well; those not seen on either side are expanded later.
TakeChildren(q, side, other) ==
  IF side.at \in other.seen THEN side
  ELSE FoldLeft(LAMBDA s, kid : LET c == Latest(q, kid)
                                IN  [s EXCEPT !.seen = @ \cup {c},
                                              !.heap = IF c \in s.seen \cup other.seen THEN @
                                                       ELSE Heaped(q, Append(@, c))],
                side, q.pn[side.at].kids)

Pop(q, side) == IF side.heap = <<>> THEN [side EXCEPT !.at = 0]
                ELSE [side EXCEPT !.at = Head(side.heap), !.heap = HeapPop(q, side.heap)]

\* get_unshared_pnodes: the nodes of two trees that are not in both, found from the
\* highest down so that what is below a shared node is not visited.
Unshared(q, x, y) ==
  LET Side == [at : Nat, seen : SUBSET DOMAIN q.pn, heap : Seq(DOMAIN q.pn)]
      Start(n) == [at |-> Latest(q, n), seen |-> {Latest(q, n)}, heap |-> <<>>]
      walk[s \in Side \X Side] ==
        LET a == s[1]  b == s[2]
        IN  CASE a.at = 0 /\ b.at = 0 -> <<a.seen \ b.seen, b.seen \ a.seen>>
              [] a.at # 0 /\ (b.at = 0 \/ Height(q, a.at) > Height(q, b.at)) ->
                   walk[<<Pop(q, TakeChildren(q, a, b)), b>>]
              [] OTHER -> walk[<<a, Pop(q, TakeChildren(q, b, a))>>]
  IN  walk[<<Start(x), Start(y)>>]

\* An order given by a key, a sequence of numbers compared from the left.
Before(k1, k2) ==
  \E i \in DOMAIN k1 : k1[i] < k2[i] /\ \A j \in 1..(i - 1) : k1[j] = k2[j]

\* prioritycmp and compare_priorities
PriorityKey(q, x) ==
  LET n == q.pn[x]
  IN  <<IF n.assoc = {} THEN 1 ELSE 0, n.height, -n.prio, n.start, -n.end, x>>

InPriorityOrder(q, S) == Listed(S, LAMBDA a, b : Before(PriorityKey(q, a), PriorityKey(q, b)))

\* The first pair of nodes with different priorities decides.
PriorityDifference(q, xs, ys) ==
  LET differ == {i \in DOMAIN xs \cap DOMAIN ys : q.pn[xs[i]].prio # q.pn[ys[i]].prio}
      first == MinOf(differ)
  IN  IF differ = {} THEN 0 ELSE q.pn[ys[first]].prio - q.pn[xs[first]].prio

ComparePriorities(q, both) ==
  PriorityDifference(q, InPriorityOrder(q, both[1]), InPriorityOrder(q, both[2]))
CmpPriorities(q, x, y) == ComparePriorities(q, Unshared(q, x, y))

\* greedycmp and cmp_greediness: at the first place where both trees have a node of
\* the same symbol and start, the longer one wins, then the one with fewer children.
GreedyKey(q, x) == <<q.pn[x].start, q.t.order[q.pn[x].sym], q.pn[x].end, x>>

InGreedyOrder(q, S) == Listed(S, LAMBDA a, b : Before(GreedyKey(q, a), GreedyKey(q, b)))

GreedyDifference(q, xs, ys) ==
  LET Place(n) == <<n.start, q.t.order[n.sym]>>
      merge[i \in 1..(Len(xs) + 1), j \in 1..(Len(ys) + 1)] ==
        IF i > Len(xs) \/ j > Len(ys) THEN 0
        ELSE LET a == q.pn[xs[i]]  b == q.pn[ys[j]]
             IN  CASE Before(Place(a), Place(b)) -> merge[i + 1, j]
                   [] Before(Place(b), Place(a)) -> merge[i, j + 1]
                   [] a.end # b.end -> b.end - a.end
                   [] Len(a.kids) # Len(b.kids) -> Len(a.kids) - Len(b.kids)
                   [] OTHER -> merge[i + 1, j + 1]
  IN  merge[1, 1]

CompareGreediness(q, both) == GreedyDifference(q, InGreedyOrder(q, both[1]), InGreedyOrder(q, both[2]))
CmpGreediness(q, x, y) == CompareGreediness(q, Unshared(q, x, y))

Mutant_CmpPNodes(q, x, y) == 1                        \* the first alternative wins
Mutant2_CmpPNodes(q, x, y) == IF "height" \in q.t.ranks   \* the taller one wins
                              THEN q.pn[y].height - q.pn[x].height ELSE 0

\* cmp_pnodes: negative if x is preferred, positive if y is, 0 if they are ambiguous.
OrElse(v, w) == IF v # 0 THEN v ELSE w
CmpPNodes(q, x, y) ==
  OrElse(IF "priority" \in q.t.ranks /\ q.pn[x].assoc # {} /\ q.pn[y].assoc # {}
         THEN CmpPriorities(q, x, y) ELSE 0,
  OrElse(IF "greedy" \in q.t.ranks THEN CmpGreediness(q, x, y) ELSE 0,
         IF "height" \in q.t.ranks THEN q.pn[x].height - q.pn[y].height ELSE 0))

-----------------------------------------------------------------------------
(* Comparing whole stacks.                                                 *)

\* binary_op_ZNode: the only link of a node, or the one below it if it is a unary
\* operator, when it is a binary operator; else 0.
BinaryOpZNode(q, s) ==
  LET Only(n) == IF Len(q.sn[n].zns) = 1 THEN Head(q.sn[n].zns) ELSE 0
      z == Only(s)
      below == IF z = 0 \/ NodeOf(q, z).opAssoc # {"unary", "right"} THEN z
               ELSE IF Len(q.zn[z].sns) = 1 THEN Only(Head(q.zn[z].sns)) ELSE 0
  IN  IF below = 0 \/ "binary" \notin NodeOf(q, below).opAssoc THEN 0 ELSE below

Mutant_Rivals(q, s, t) ==     \* looked up one way only
  LET y == BinaryOpZNode(q, s)
      z == BinaryOpZNode(q, t)
  IN  /\ y # 0 /\ z # 0
      /\ ToSet(q.zn[y].sns) = ToSet(q.zn[z].sns)
      /\ q.t.reducesTo[StateOf(q, s)] = StateOf(q, t)

\* Two waiting nodes hold binary operators over the same stack, and one of their
\* states "reduces to" the other.
Rivals(q, s, t) ==
  LET y == BinaryOpZNode(q, s)
      z == BinaryOpZNode(q, t)
  IN  /\ y # 0 /\ z # 0
      /\ ToSet(q.zn[y].sns) = ToSet(q.zn[z].sns)
      /\ \/ q.t.reducesTo[StateOf(q, s)] = StateOf(q, t)
         \/ q.t.reducesTo[StateOf(q, t)] = StateOf(q, s)
OpPriority(q, s) == NodeOf(q, BinaryOpZNode(q, s)).opPrio

\* cmp_stacks: of two rivals waiting at the head's location the one with the lower
\* priority is deleted.  A node that has deleted another looks no farther, and when a
\* node is deleted the one after it is passed over: the i-th turn is about the node
\* that is i-th by then.
Outrank(q, pos, list, i) ==
  LET Here(j) == j <= Len(list) /\ Loc(q, list[j]) = pos
      uneven == {j \in (i + 1)..Len(list) : /\ Here(i) /\ Here(j) /\ Rivals(q, list[i], list[j])
                                            /\ OpPriority(q, list[i]) # OpPriority(q, list[j])}
      j == MinOf(uneven)
  IN  IF uneven = {} THEN list
      ELSE RemoveAt(list, IF OpPriority(q, list[i]) > OpPriority(q, list[j]) THEN j ELSE i)

CmpStacks(q) ==
  LET pos == Loc(q, Head(q.shifts))
  IN  [q EXCEPT !.shifts = FoldSteps(LAMBDA list, i : Outrank(q, pos, list, i), @, [i \in DOMAIN @ |-> i])]
=============================================================================

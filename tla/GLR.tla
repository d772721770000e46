-------------------------------- MODULE GLR --------------------------------
(***************************************************************************)
(* The GLR engine of parse.c: exhaustive_parse and everything it calls,    *)
(* for one grammar and one input chosen initially.                         *)
(*                                                                         *)
(* The Parser is the record p:                                             *)
(*   t             the tables of the grammar                               *)
(*   sn, zn, pn    the SNodes (states of the graph-structured stack),      *)
(*                 ZNodes (links: a PNode and the SNodes below it) and     *)
(*                 PNodes (the parse forest); a pointer is an index, 0 NULL*)
(*   hashS, hashP  the nodes of the current generation of snode_hash and   *)
(*                 pnode_hash; lastS the SNodes of the one before          *)
(*   todo          reductions_todo, sorted by location, then by depth      *)
(*   shifts        shifts_todo, sorted by location                         *)
(*   accept, epos  the accepting SNode and the last position retired       *)
(*                                                                         *)
(* Configuration: literal terminals without term priorities, no actions,   *)
(* no symbol-table scopes, commit_actions_interval never reached, no       *)
(* partial parses, no error recovery (see ErrorRecovery).  White space is a *)
(* run of Blank characters.  A set of ZNodes is                            *)
(* the sequence in order of insertion, which is what the code keeps up to  *)
(* INTEGRAL_VEC_SIZE members.                                              *)
(*                                                                         *)
(* A Mutant_ operator is a faulty variant of the definition after it, which *)
(* some property is known to catch.                                        *)
(***************************************************************************)
EXTENDS Priorities

CONSTANTS
  Grammars,   \* the grammars to parse with
  Table,      \* Table[g]: the tables of grammar g (LRTables!Tables)
  Inputs,     \* Inputs[g]: the inputs given to grammar g, sequences of characters
  Blank       \* the white space character

Infinity == 1000000    \* INT_MAX

VARIABLES g, input, p, result
vars == <<g, input, p, result>>

-----------------------------------------------------------------------------
(* Locations and scanning.                                                 *)

\* white_space: the next location that is not blank.
White(i) ==
  CHOOSE j \in i..Len(input) :
    /\ \A k \in (i+1)..j : input[k] = Blank
    /\ j < Len(input) => input[j+1] # Blank

Agrees(word, i, n) == \A k \in 1..n : input[i + k] = word[k]

\* scan_buffer in D_SCAN_ALL mode.  The scanner runs while some terminal of the
\* state can still match.  A terminal is emitted when the character after it is
\* consumed (accepts_diff), and at the end the longest match is emitted, once
\* more if characters were consumed after it.
Scan(q, state, i) ==
  LET Live(n) == {t \in q.t.shifts[state] : /\ n <= Len(q.t.spell[t])
                                            /\ i + n <= Len(input)
                                            /\ Agrees(q.t.spell[t], i, n)}
      Accepts(n) == {t \in Live(n) : Len(q.t.spell[t]) = n}
      reach == MaxOf({n \in 0..(Len(input) - i) : Live(n) # {}} \cup {0})
      last  == MaxOf({n \in 1..reach : Accepts(n) # {}} \cup {0})
      At(n) == SetToSeq({[term |-> t, end |-> i + n] : t \in Accepts(n)})
  IN  FlattenSeq([n \in 1..reach |-> IF n < reach THEN At(n) ELSE <<>>]) \o (IF last = 0 THEN <<>> ELSE At(last))

-----------------------------------------------------------------------------
(* Node tables.                                                            *)

\* Any live node will do.
Mutant_FindSNode(q, state) == IF q.hashS = {} THEN 0 ELSE CHOOSE s \in q.hashS : TRUE

\* find_SNode
FindSNode(q, state) ==
  IF \E s \in q.hashS : StateOf(q, s) = state
  THEN CHOOSE s \in q.hashS : StateOf(q, s) = state
  ELSE 0

\* free_old_nodes: empty both hashes, after pointing the children of the PNodes
\* of this generation at their latest versions.
FreeOldNodes(q) ==
  [q EXCEPT !.hashS = {}, !.hashP = {}, !.lastS = q.hashS,
            !.pn = [x \in DOMAIN q.pn |->
                     IF x \in q.hashP
                     THEN [q.pn[x] EXCEPT !.kids = [k \in DOMAIN @ |-> Latest(q, @[k])]]
                     ELSE q.pn[x]]]

Retire(q, pos) == IF pos > q.epos THEN [FreeOldNodes(q) EXCEPT !.epos = pos] ELSE q

-----------------------------------------------------------------------------
(* The two work lists.                                                     *)

ZNodeDepth(q, z) ==
  IF z = 0 THEN Infinity
  ELSE MaxOf({q.sn[q.zn[z].sns[k]].depth : k \in DOMAIN q.zn[z].sns} \cup {0})

\* A reduction that starts with ZNode z (0 if it is empty) at SNode s; if newSn is not 0,
\* only along the paths that have it at newDepth.
Entry(z, s, red, newSn, newDepth) ==
  [z |-> z, sn |-> s, red |-> red, newSn |-> newSn, newDepth |-> newDepth]

\* add_Reduction: before the first entry that is farther in the input, or at the
\* same location and no deeper.  An equal entry from there on makes it a no-op
\* if the entry found has the same depth.
AddReduction(q, z, s, red, newSn, newDepth) ==
  LET d == ZNodeDepth(q, z)
      same(x) == Loc(q, x.sn) = Loc(q, s)
      stop == {i \in DOMAIN q.todo : \/ Loc(q, s) < Loc(q, q.todo[i].sn)
                                     \/ same(q.todo[i]) /\ d >= ZNodeDepth(q, q.todo[i].z)}
      at == IF stop = {} THEN Len(q.todo) + 1 ELSE MinOf(stop)
      queued == /\ stop # {}
                /\ same(q.todo[at]) /\ d = ZNodeDepth(q, q.todo[at].z)
                /\ \E j \in at..Len(q.todo) :
                     <<q.todo[j].z, q.todo[j].sn, q.todo[j].red>> = <<z, s, red>>
  IN  IF queued THEN q ELSE [q EXCEPT !.todo = InsertAt(@, at, Entry(z, s, red, newSn, newDepth))]

Mutant_AddShift(q, s) == [q EXCEPT !.shifts = Append(@, s)]    \* not sorted

\* add_Shift: before the entries that are as far or farther.
AddShift(q, s) ==
  LET stop == {i \in DOMAIN q.shifts : Loc(q, s) <= Loc(q, q.shifts[i])}
      at == IF stop = {} THEN Len(q.shifts) + 1 ELSE MinOf(stop)
  IN  [q EXCEPT !.shifts = InsertAt(@, at, s)]

-----------------------------------------------------------------------------
(* Growing the graph-structured stack.                                     *)

\* new_SNode: also the first, or the farthest, accepting node.
NewSNode(q, state, loc) ==
  LET s == Len(q.sn) + 1
      better == /\ state \in q.t.accept
                /\ q.accept = 0 \/ loc > Loc(q, q.accept)
  IN  [q EXCEPT !.sn = Append(@, [state |-> state, loc |-> loc, depth |-> 0,
                                  lastPn |-> 0, zns |-> <<>>]),
                !.hashS = @ \cup {s},
                !.accept = IF better THEN s ELSE @]

\* The hash is not consulted.
Mutant_AddSNode(q, state, loc) ==
  IF q.t.shifts[state] # {} THEN AddShift(NewSNode(q, state, loc), Len(q.sn) + 1)
  ELSE NewSNode(q, state, loc)

\* add_SNode: find the node of this state in the current generation, or make it
\* and queue its shift and its epsilon reductions.
AddSNode(q, state, loc) ==
  IF FindSNode(q, state) # 0 THEN q
  ELSE LET s  == Len(q.sn) + 1
           q1 == NewSNode(q, state, loc)
           q2 == IF q.t.shifts[state] # {} THEN AddShift(q1, s) ELSE q1
       IN  FoldSteps(LAMBDA r, red : IF red.n = 0 THEN AddReduction(r, 0, s, red, 0, 0) ELSE r,
                     q2, q.t.reds[state])

Mutant_FindZNode(q, s, x) == 0    \* a new ZNode for every goto

\* set_find_znode
FindZNode(q, s, x) ==
  LET zs == {z \in ToSet(q.sn[s].zns) : q.zn[z].pn = x}
  IN  IF zs = {} THEN 0 ELSE CHOOSE z \in zs : TRUE

\* No right-epsilon hints.
Mutant_QueueForNewZNode(q, z, s) ==
  FoldSteps(LAMBDA r, red : IF red.n > 0 THEN AddReduction(r, z, s, red, 0, 0) ELSE r,
            q, q.t.reds[StateOf(q, s)])

\* The reductions goto_PNode queues for a new ZNode z of s: the ones of the state,
\* and, after a nonterminal, those its right-epsilon hints name, restarted from
\* every link of the node at the end of the nullable tail if there is one.
QueueForNewZNode(q, z, s) ==
  LET Own(r, red) == IF red.n > 0 THEN AddReduction(r, z, s, red, 0, 0) ELSE r
      Hinted(r, h) ==
        LET pre == FindSNode(r, h.state)
        IN  IF pre = 0 THEN r
            ELSE FoldSteps(LAMBDA u, y : AddReduction(u, y, pre, h.red, s, h.depth),
                           r, r.sn[pre].zns)
  IN  FoldSteps(Hinted, FoldSteps(Own, q, q.t.reds[StateOf(q, s)]),
                IF q.pn[q.zn[z].pn].term THEN <<>> ELSE q.t.hints[StateOf(q, s)])

AddZNode(q, x, s) ==
  QueueForNewZNode([q EXCEPT !.zn = Append(@, [pn |-> x, sns |-> <<>>]),
                             !.sn[s].zns = Append(@, Len(q.zn) + 1)],
                   Len(q.zn) + 1, s)

AddLink(q, z, ps) ==
  IF Contains(q.zn[z].sns, ps) THEN q ELSE [q EXCEPT !.zn[z].sns = Append(@, ps)]

\* The reductions are queued whenever a link is made or met, not only for a new ZNode.
Mutant_LinkPNode(q, x, s, ps) ==
  LET z == FindZNode(q, s, x)
  IN  IF z = 0 THEN AddLink(AddZNode(q, x, s), Len(q.zn) + 1, ps)
      ELSE AddLink(QueueForNewZNode(q, z, s), z, ps)

\* Link node s to ps through PNode x.  The link is added AFTER the reductions of a new
\* ZNode are queued, and a link added to a ZNode that exists queues nothing.
LinkPNode(q, x, s, ps) ==
  LET z == FindZNode(q, s, x)
  IN  IF z = 0 THEN AddLink(AddZNode(q, x, s), Len(q.zn) + 1, ps)
      ELSE AddLink(q, z, ps)

Reached(q, x, s, ps) ==
  [q EXCEPT !.sn[s].lastPn = x,
            !.sn[s].depth = IF ps # s /\ @ < q.sn[ps].depth + 1 THEN q.sn[ps].depth + 1 ELSE @]

\* goto_PNode: follow the goto of PNode x from ps to the node of that state.
GotoPNode(q, loc, x, ps) ==
  LET to == q.t.goto[StateOf(q, ps)][q.pn[x].sym]
      From(r, s) == LinkPNode(Reached(r, x, s, ps), x, s, ps)
      Linked(r) == From(r, FindSNode(r, to))
  IN  IF to = 0 THEN q ELSE Linked(AddSNode(q, to, loc))

-----------------------------------------------------------------------------
(* The parse forest.                                                       *)

\* find_PNode
FindPNode(q, sym, start, skip) ==
  LET xs == {x \in q.hashP : /\ q.pn[x].sym = sym
                             /\ q.pn[x].start = start /\ q.pn[x].skip = skip}
  IN  IF xs = {} THEN 0 ELSE Latest(q, CHOOSE x \in xs : TRUE)

\* PNode_equal: the same shift, or the same reduction of the same children.
PNodeEqual(q, x, new) ==
  IF new.term THEN q.pn[x].term
  ELSE /\ q.pn[x].red = new.red /\ ~q.pn[x].term
       /\ Len(q.pn[x].kids) = Len(new.kids)
       /\ \A k \in DOMAIN new.kids : Latest(q, q.pn[x].kids[k]) = Latest(q, new.kids[k])

NoReduction == [sym |-> "", n |-> -1, assoc |-> {}, prio |-> 0, opAssoc |-> {}, opPrio |-> 0, act |-> 0]

\* The operator of a terminal, and the rank reduce_actions gives a node: the rule's, or
\* that of the last operator among the children.
ShiftRed(q, t) == [NoReduction EXCEPT !.opAssoc = q.t.ops[t].assoc, !.opPrio = q.t.ops[t].prio]
RankFrom(q, red, kids) ==
  LET ops == {k \in DOMAIN kids : q.pn[kids[k]].opAssoc # {}}
  IN  IF red.assoc # {} THEN [assoc |-> red.assoc, prio |-> red.prio]
      ELSE IF ops # {} THEN OpOf(q.pn[kids[MaxOf(ops)]])
      ELSE [assoc |-> {}, prio |-> 0]

\* end and skip are swapped.
Mutant_MakePNode(q, sym, start, end, skip, term, red, kids) ==
  [sym |-> sym, start |-> start, end |-> skip, skip |-> end, term |-> term, red |-> red,
   kids |-> [k \in DOMAIN kids |-> Latest(q, kids[k])], height |-> 0, assoc |-> {}, prio |-> 0,
   opAssoc |-> {}, opPrio |-> 0, latest |-> Len(q.pn) + 1, amb |-> <<>>]

\* make_PNode: a node before it is inserted.
MakePNode(q, sym, start, end, skip, term, red, kids) ==
  LET ks   == [k \in DOMAIN kids |-> Latest(q, kids[k])]
      rank == RankFrom(q, red, ks)
  IN  [sym |-> sym, start |-> start, end |-> end, skip |-> skip, term |-> term, red |-> red,
       kids |-> ks, assoc |-> rank.assoc, prio |-> rank.prio,
       opAssoc |-> red.opAssoc, opPrio |-> red.opPrio,
       height |-> MaxOf({q.pn[ks[k]].height + 1 : k \in DOMAIN ks} \cup {0}),
       latest |-> Len(q.pn) + 1, amb |-> <<>>]

\* Whether make_PNode keeps the node: its first and its last operand may be its children.
Fits(q, new) ==
  LET n == Len(new.kids)
  IN  \A k \in IF n > 1 THEN {1, n} ELSE {} :
        LET child == q.pn[new.kids[k]]
        IN  child.assoc # {} /\ new.assoc # {} => CheckChild(RankOf(new), RankOf(child), k = n)

\* The node of the span takes in node id, the last one of q, which is ranked against it.
TakeIn(q, id, old, rank) ==
  IF rank = 0 THEN <<[q EXCEPT !.pn[old].amb = <<id>> \o @], old>>
  ELSE IF rank < 0 THEN <<[q EXCEPT !.hashP = @ \cup {id}, !.pn[old].latest = id], id>>
  ELSE <<[q EXCEPT !.pn = SubSeq(@, 1, id - 1)], old>>

\* insert_PNode
InsertPNode(q, new) == [q EXCEPT !.pn = Append(@, new), !.hashP = @ \cup {Len(q.pn) + 1}]

\* add_PNode: the node of this symbol and span, after it has taken in the new
\* alternative.  One already known is dropped, and so is one whose operands do not fit.
\* cmp_pnodes ranks the others: a better one replaces the node, a worse one is dropped,
\* an equal one becomes an ambiguity.  The result is <<parser, PNode>>, PNode 0 if there
\* is none.
AddPNodeTo(q, old, new) ==
  LET id   == Len(q.pn) + 1
      with == [q EXCEPT !.pn = Append(@, new)]
  IN  IF \/ old # 0 /\ \E x \in {old} \cup ToSet(q.pn[old].amb) : PNodeEqual(q, x, new)
         \/ ~Fits(q, new)
      THEN <<q, old>>
      ELSE IF old = 0 THEN <<InsertPNode(q, new), id>>
      ELSE TakeIn(with, id, old, CmpPNodes(with, id, old))

AddPNode(q, new) == AddPNodeTo(q, FindPNode(q, new.sym, new.start, new.skip), new)

-----------------------------------------------------------------------------
(* Reducing and shifting.                                                  *)

\* build_paths: the link sequences of length n that start with z, top of the stack
\* first, in the order of the depth-first walk.
Below(q, z) == FlattenSeq([k \in DOMAIN q.zn[z].sns |-> q.sn[q.zn[z].sns[k]].zns])

Lengthened(q, path) == [j \in DOMAIN Below(q, Last(path)) |-> Append(path, Below(q, Last(path))[j])]

Paths(q, z, n) ==
  FoldSteps(LAMBDA paths, k : FlattenSeq([i \in DOMAIN paths |-> Lengthened(q, paths[i])]),
            <<<<z>>>>, [k \in 1..(n - 1) |-> k])

\* The gotos of a PNode, if there is one, from every node it starts at: a is the result
\* of AddPNode.
GotoAll(a, loc, nodes) ==
  IF a[2] = 0 THEN a[1] ELSE FoldSteps(LAMBDA u, ps : GotoPNode(u, loc, a[2], ps), a[1], nodes)

\* The body of the loop of reduce_one for one path.
ReducePath(q, r, path) ==
  LET first == q.zn[path[r.red.n]]
      top   == q.zn[path[1]].pn
      kids  == [k \in 1..r.red.n |-> q.zn[path[r.red.n + 1 - k]].pn]
      blocked == r.newSn # 0 /\ ~Contains(q.zn[path[r.newDepth + 1]].sns, r.newSn)
  IN  IF blocked \/ ~PathLegal(q, path) THEN q
      ELSE GotoAll(AddPNode(q, MakePNode(q, r.red.sym, q.pn[first.pn].start, q.pn[top].end,
                                         Loc(q, r.sn), FALSE, r.red, kids)),
                   Loc(q, r.sn), first.sns)

ReduceOne(q, r) ==
  LET i == Loc(q, r.sn)
  IN  IF r.z = 0
      THEN GotoAll(AddPNode(q, MakePNode(q, r.red.sym, i, i, i, FALSE, r.red, <<>>)), i, <<r.sn>>)
      ELSE FoldSteps(LAMBDA u, path : ReducePath(u, r, path), q, Paths(q, r.z, r.red.n))

\* shift_all: scan from every node waiting at pos, then make the PNodes and follow
\* the gotos, each to the location after the white space that follows it.
ShiftOne(q, m) ==
  GotoAll(AddPNode(q, MakePNode(q, m.term, Loc(q, m.sn), m.end, m.end, TRUE, ShiftRed(q, m.term), <<>>)),
          White(m.end), <<m.sn>>)

WaitingAt(q, pos) ==
  MaxOf({n \in 0..Len(q.shifts) : \A k \in 1..n : Loc(q, q.shifts[k]) = pos})

\* The tokens scanned from a node.
ShiftsOf(q, s) ==
  LET ms == Scan(q, StateOf(q, s), Loc(q, s))
  IN  [j \in DOMAIN ms |-> [sn |-> s, term |-> ms[j].term, end |-> ms[j].end]]

ShiftAll(q, pos) ==
  LET n == WaitingAt(q, pos)
      results == FlattenSeq([k \in 1..n |-> ShiftsOf(q, q.shifts[k])])
  IN  FoldSteps(ShiftOne, [q EXCEPT !.shifts = SubSeq(@, n + 1, Len(@))], results)

-----------------------------------------------------------------------------
(* exhaustive_parse.                                                       *)

EmptyParser == [t |-> Table[g], sn |-> <<>>, zn |-> <<>>, pn |-> <<>>, hashS |-> {}, hashP |-> {}, lastS |-> {},
                todo |-> <<>>, shifts |-> <<>>, accept |-> 0, epos |-> -1]

\* The initial state (parse.c 1815-1826): one SNode and, under it, the PNode of
\* symbol 0 that no reduction made, the first of the hash.
StartParser ==
  LET i == White(0)
      root == MakePNode(EmptyParser, "S'", i, i, i, FALSE, NoReduction, <<>>)
  IN  [InsertPNode(AddSNode(EmptyParser, 1, i), root) EXCEPT
         !.zn = <<[pn |-> 1, sns |-> <<>>]>>, !.sn[1].zns = <<1>>, !.sn[1].lastPn = 1]

Init ==
  /\ g \in Grammars
  /\ input \in Inputs[g]
  /\ p = StartParser
  /\ result = "running"

Running == result = "running"

\* The reductions are run before the shifts unless a shift is waiting at an
\* earlier location.
CanReduce ==
  /\ p.todo # <<>>
  /\ p.shifts # <<>> => Loc(p, Head(p.todo).sn) <= Loc(p, Head(p.shifts))

\* reduce all: one reduction of the list
Reduce ==
  /\ Running /\ CanReduce
  /\ LET r == Head(p.todo)
         q == Retire(p, Loc(p, r.sn))
     IN  p' = ReduceOne([q EXCEPT !.todo = Tail(@)], r)
  /\ UNCHANGED <<g, input, result>>

\* shift all: the stacks that wait are compared first, if more than one waits
ReadyToShift ==
  Retire(IF "stacks" \in p.t.ranks /\ Len(p.shifts) > 1 THEN CmpStacks(p) ELSE p, Loc(p, Head(p.shifts)))
Shift ==
  /\ Running /\ ~CanReduce /\ p.shifts # <<>>
  /\ p' = ShiftAll(ReadyToShift, Loc(p, Head(p.shifts)))
  /\ UNCHANGED <<g, input, result>>

\* done?
Finish ==
  /\ Running /\ p.todo = <<>> /\ p.shifts = <<>>
  /\ result' = IF p.accept # 0 /\ Loc(p, p.accept) = Len(input) THEN "accept" ELSE "error"
  /\ UNCHANGED <<g, input, p>>

Next == Reduce \/ Shift \/ Finish
Spec == Init /\ [][Next]_vars

\* The loop of exhaustive_parse runs until it returns: WF_vars(Next), written out,
\* since a step is enabled exactly while the parser is running.
Fairness == []<>(~Running) \/ []<><<Next>>_vars
FairSpec == Spec /\ Fairness

-----------------------------------------------------------------------------
\* The type invariant: every index is in range, every span in the input.
TypeOK ==
  /\ g \in Grammars /\ input \in Inputs[g] /\ p.t = Table[g]
  /\ result \in {"running", "accept", "error"}
  /\ \A s \in DOMAIN p.sn : /\ p.sn[s].state \in DOMAIN p.t.items /\ p.sn[s].loc \in 0..Len(input)
                            /\ ToSet(p.sn[s].zns) \subseteq DOMAIN p.zn
                            /\ p.sn[s].lastPn \in DOMAIN p.pn \cup {0}
  /\ \A z \in DOMAIN p.zn : p.zn[z].pn \in DOMAIN p.pn /\ ToSet(p.zn[z].sns) \subseteq DOMAIN p.sn
  /\ \A x \in DOMAIN p.pn : /\ 0 <= p.pn[x].start /\ p.pn[x].start <= p.pn[x].end
                            /\ p.pn[x].end <= p.pn[x].skip /\ p.pn[x].skip <= Len(input)
                            /\ ToSet(p.pn[x].kids) \cup ToSet(p.pn[x].amb) \cup {p.pn[x].latest}
                                 \subseteq DOMAIN p.pn
  /\ p.hashS \subseteq DOMAIN p.sn /\ p.hashP \subseteq DOMAIN p.pn
  /\ p.accept \in DOMAIN p.sn \cup {0} /\ p.epos \in -1..Len(input)
  /\ ToSet(p.shifts) \subseteq DOMAIN p.sn
  /\ \A i \in DOMAIN p.todo : p.todo[i].sn \in DOMAIN p.sn /\ p.todo[i].z \in DOMAIN p.zn \cup {0}

\* The asserts of find_SNode and find_PNode (parse.c 152, 309): one live node per
\* state, and one latest PNode per symbol and span.
HashesUnique ==
  /\ \A s, t \in p.hashS : StateOf(p, s) = StateOf(p, t) => s = t
  /\ \A x, y \in p.hashP :
       <<p.pn[x].sym, p.pn[x].start, p.pn[x].skip>> = <<p.pn[y].sym, p.pn[y].start, p.pn[y].skip>>
         => Latest(p, x) = Latest(p, y)

\* The head of each work list is its nearest entry, and nothing is queued behind the
\* location the engine has retired: exhaustive_parse looks only at the heads.
WorkInOrder ==
  /\ \A i, j \in DOMAIN p.todo : i < j => Loc(p, p.todo[i].sn) <= Loc(p, p.todo[j].sn)
  /\ \A i, j \in DOMAIN p.shifts : i < j => Loc(p, p.shifts[i]) <= Loc(p, p.shifts[j])
  /\ \A i \in DOMAIN p.todo : Loc(p, p.todo[i].sn) >= p.epos
  /\ \A i \in DOMAIN p.shifts : Loc(p, p.shifts[i]) >= p.epos

\* The rule of a PNode and its children.
Built(x) == <<p.pn[x].red, [k \in DOMAIN p.pn[x].kids |-> Latest(p, p.pn[x].kids[k])]>>

\* Nothing is built twice, which is also why a parse of a cyclic grammar ends: the
\* links of a node have different PNodes, a link joins different nodes, and the
\* alternatives of a PNode differ in their rule or in a child.
NothingTwice ==
  /\ \A s \in DOMAIN p.sn : \A y, z \in ToSet(p.sn[s].zns) : p.zn[y].pn = p.zn[z].pn => y = z
  /\ \A z \in DOMAIN p.zn : IsInjective(p.zn[z].sns)
  /\ \A x \in DOMAIN p.pn : \A y, z \in {x} \cup ToSet(p.pn[x].amb) : Built(y) = Built(z) => y = z
=============================================================================

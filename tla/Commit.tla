------------------------------- MODULE Commit -------------------------------
(***************************************************************************)
(* Final actions (parse.c 1461-1614, 1853-1872, 2038-2128): GLR with the   *)
(* commit of the stack during the parse, when one stack is left and        *)
(* commit_actions_interval locations have passed, and the commit of the    *)
(* parse tree at its end.                                                  *)
(*                                                                         *)
(* A final action is the number red.act of its rule; what it is given is   *)
(* appended to log.  evaluated holds the PNodes with that flag.  o is the  *)
(* configuration: interval, the switches fixup (dont_fixup_internal_       *)
(* productions off), ebnf (fixup_EBNF_productions), merge (dont_merge_     *)
(* epsilon_trees off) and save (save_parse_tree), and pick, the alternative *)
(* ambiguity_fn returns, "first" or "last".                                *)
(***************************************************************************)
EXTENDS GLR

CONSTANT Configurations

VARIABLES o, progress, evaluated, log, tree, visited
cvars == <<vars, o, progress, evaluated, log, tree, visited>>

Epsilon(q, x) == q.pn[x].start = q.pn[x].end
HasCode(q, x) == q.pn[x].red.act # 0
Mutant_UnreducedEpsilon(q, x) == FALSE    \* committed as the others
UnreducedEpsilon(q, x) == Epsilon(q, x) /\ HasCode(q, x)
Internal(q, x) == q.t.kind[q.pn[x].sym] \in {"INTERNAL", "EBNF"}

-----------------------------------------------------------------------------
(* The walk over a tree changes w: the children and ambiguities of the     *)
(* PNodes, the ones that are evaluated, and the log.                       *)
Spans(q) == (DOMAIN q.t.kind) \X Nat \X Nat
Entries(q) == [act : Nat, node : Spans(q), kids : Seq(Spans(q))]
Walks(q) == [kids : [DOMAIN q.pn -> Seq(DOMAIN q.pn)], amb : [DOMAIN q.pn -> Seq(DOMAIN q.pn)],
             done : SUBSET DOMAIN q.pn, log : Seq(Entries(q))]

\* final_actionless
Actionless(q, w, x) ==
  LET f[y \in DOMAIN q.pn] == ~HasCode(q, y) /\ \A k \in DOMAIN w.kids[y] : f[w.kids[y][k]]
  IN  f[x]

\* resolve_ambiguities: empty alternatives without actions are as good as the first.
Resolve(q, w, x) ==
  LET Mergeable(y) == Epsilon(q, y) /\ Actionless(q, w, y)
      others == SelectSeq(w.amb[x], LAMBDA y : ~(o.merge /\ Mergeable(x) /\ Mergeable(y)))
  IN  IF others = <<>> \/ o.pick = "first" THEN x ELSE Last(others)

\* fixup_internal_symbol: child i gives way to its own children.
Spliced(w, x, i) ==
  [w EXCEPT !.kids[x] = SubSeq(@, 1, i - 1) \o w.kids[@[i]] \o SubSeq(@, i + 1, Len(@))]

MustSplice(q, x, kid) ==
  /\ o.fixup /\ Internal(q, x)
  /\ q.t.kind[q.pn[kid].sym] \in IF o.ebnf THEN {"INTERNAL", "EBNF"} ELSE {"INTERNAL"}

\* Code of a rule sees the node and its children.
SpanOf(q, x) == <<q.pn[x].sym, q.pn[x].start, q.pn[x].end>>
Call(q, kids, x) ==
  IF HasCode(q, x)
  THEN <<[act |-> q.pn[x].red.act, node |-> SpanOf(q, x),
          kids |-> [k \in DOMAIN kids |-> SpanOf(q, kids[k])]]>>
  ELSE <<>>
Run(q, w, x) == [w EXCEPT !.log = @ \o Call(q, w.kids[x], x)]

Mutant_FreeBelow(q, w, x) ==    \* also in a tree that is saved
  IF x \in w.done /\ ~Internal(q, x) THEN [w EXCEPT !.kids[x] = <<>>, !.amb[x] = <<>>] ELSE w

\* free_ParseTreeBelow
FreeBelow(q, w, x) ==
  IF x \in w.done /\ ~o.save /\ ~Internal(q, x) THEN [w EXCEPT !.kids[x] = <<>>, !.amb[x] = <<>>] ELSE w

\* commit_tree: the walk after it and the PNode that stands for x.  walk[w, x, 0] enters
\* x; walk[w, x, i] goes on with child i, and commits it again after a splice.
CommitTree(q, w0, x0) ==
  LET walk[w \in Walks(q), x \in DOMAIN q.pn, i \in Nat] ==
        CASE i = 0 ->
               LET y == Latest(q, x)
                   v == IF UnreducedEpsilon(q, y) THEN w ELSE [w EXCEPT !.done = @ \cup {y}]
               IN  IF y \in w.done THEN <<w, y>> ELSE walk[v, Resolve(q, v, y), 1]
          [] i > Len(w.kids[x]) -> <<FreeBelow(q, Run(q, w, x), x), x>>
          [] OTHER ->
               LET sub == walk[w, w.kids[x][i], 0]
                   v   == [sub[1] EXCEPT !.kids[x][i] = sub[2]]
               IN  IF MustSplice(q, x, sub[2]) THEN walk[Spliced(v, x, i), x, i] ELSE walk[v, x, i + 1]
  IN  walk[w0, x0, 0]

-----------------------------------------------------------------------------
(* The commits of a parser, with the evaluated nodes and the log, in m.    *)
Machine(q) == [q |-> q, done |-> evaluated, log |-> log]

\* The machine that is left by a walk w.
Committed(m, w) ==
  [q |-> [m.q EXCEPT !.pn = [y \in DOMAIN @ |-> [@[y] EXCEPT !.kids = w.kids[y], !.amb = w.amb[y]]]],
   done |-> w.done, log |-> w.log]

Walk(m) == [kids |-> [y \in DOMAIN m.q.pn |-> m.q.pn[y].kids], amb |-> [y \in DOMAIN m.q.pn |-> m.q.pn[y].amb],
            done |-> m.done, log |-> m.log]

\* A PNode is committed: the machine after it, and the PNode to use from now on.
CommitNode(m, x) == CHOOSE r \in {<<Committed(m, w[1]), w[2]>> : w \in {CommitTree(m.q, Walk(m), x)}} : TRUE

CommitLink(m, z) ==
  CHOOSE n \in {[r[1] EXCEPT !.q.zn[z].pn = r[2]] : r \in {CommitNode(m, m.q.zn[z].pn)}} : TRUE

\* Only the nodes' own links are counted.
Mutant_StackLinks(q, s) ==
  LET f[n \in DOMAIN q.sn] ==
        LET z == Head(q.sn[n].zns)
        IN  IF Len(q.sn[n].zns) # 1 \/ UnreducedEpsilon(q, q.zn[z].pn) THEN <<0>>
            ELSE IF q.zn[z].sns = <<>> THEN <<z>> ELSE Append(f[Head(q.zn[z].sns)], z)
  IN  f[s]

\* The links from node s down to the bottom, 0 where the stack is not alone or where an
\* empty reduction may still be part of another node.
StackLinks(q, s) ==
  LET f[n \in DOMAIN q.sn] ==
        LET zns == q.sn[n].zns
            z   == Head(zns)
        IN  IF Len(zns) # 1 \/ Len(q.zn[z].sns) > 1 \/ UnreducedEpsilon(q, q.zn[z].pn) THEN <<0>>
            ELSE IF q.zn[z].sns = <<>> THEN <<z>> ELSE Append(f[Head(q.zn[z].sns)], z)
  IN  f[s]

\* commit_stack: from the bottom up, all of it or nothing.
CommitStack(m, s) ==
  LET links == StackLinks(m.q, s) IN IF Contains(links, 0) THEN m ELSE FoldLeft(CommitLink, m, links)

\* handle_top_level_ambiguities: the PNodes that reach the accepting node.
TopNode(q, s) ==
  LET first == Latest(q, q.zn[Head(q.sn[s].zns)].pn)
      Join(u, z) == LET x == Latest(q, q.zn[z].pn)
                    IN  IF x = first \/ u.pn[x].amb # <<>> \/ Contains(u.pn[first].amb, x) THEN u
                        ELSE [u EXCEPT !.pn[first].amb = <<x>> \o @]
  IN  <<FoldLeft(Join, q, Tail(q.sn[s].zns)), first>>

-----------------------------------------------------------------------------
CInit == /\ Init
         /\ o \in Configurations
         /\ progress = 0 /\ evaluated = {} /\ log = <<>> /\ tree = 0 /\ visited = <<>>

CReduce == Reduce /\ UNCHANGED <<o, progress, evaluated, log, tree, visited>>

\* When one reduction waits after the shift, the stack it is about.
CommitAfterShift(m, ready) ==
  IF ready /\ Len(m.q.todo) = 1 THEN CommitStack(m, m.q.todo[1].sn) ELSE m

\* The stack that is left before the shift.
CommitBeforeShift(m, alone) == IF alone THEN CommitStack(m, Head(m.q.shifts)) ELSE m

\* shift all (parse.c 1853-1872)
CShift ==
  /\ Running /\ ~CanReduce /\ p.shifts # <<>>
  /\ \E pos \in {Loc(p, Head(p.shifts))}, q \in {ReadyToShift}, ready \in {progress + 1 > o.interval} :
     \E alone \in {ready /\ Len(q.shifts) = 1 /\ q.todo = <<>>} :
     \E m \in {CommitBeforeShift(Machine(q), alone)} :
     \E after \in {[m EXCEPT !.q = ShiftAll(@, pos)]} :
     \E last \in {CommitAfterShift(after, ready /\ ~alone)} :
        /\ p' = last.q /\ evaluated' = last.done /\ log' = last.log
        /\ progress' = IF ready /\ (alone \/ Len(after.q.todo) = 1) THEN 0 ELSE progress + 1
  /\ UNCHANGED <<g, input, result, o, tree, visited>>

\* done? and, in dparse, the commit of the tree.
Accepted == p.accept # 0 /\ Loc(p, p.accept) = Len(input)

CFinish ==
  /\ Running /\ p.todo = <<>> /\ p.shifts = <<>>
  /\ \/ /\ Accepted
        /\ \E top \in {TopNode(p, p.accept)} : \E r \in {CommitNode(Machine(top[1]), top[2])} :
             /\ p' = r[1].q /\ evaluated' = r[1].done /\ log' = r[1].log /\ tree' = r[2]
        /\ result' = "accept"
     \/ ~Accepted /\ result' = "error" /\ UNCHANGED <<p, evaluated, log, tree>>
  /\ UNCHANGED <<g, input, o, progress, visited>>

\* d_pass over the saved tree, where the rules that have final code have pass code too:
\* the nodes visited by pass_preorder and pass_postorder.
Passes == [order : {"preorder", "postorder"}, over : {"all", "undefined", "root"}]
Visits(pass) ==
  LET kids(x) == p.pn[x].kids
      visit[x \in DOMAIN p.pn] ==
        LET own == Call(p, kids(x), x)
            below == IF pass.over = "all" \/ (pass.over = "undefined" /\ own = <<>>)
                     THEN FlattenSeq([k \in DOMAIN kids(x) |-> visit[kids(x)[k]]]) ELSE <<>>
        IN  IF pass.order = "preorder" THEN own \o below ELSE below \o own
  IN  visit[tree]

Pass ==
  /\ result = "accept" /\ o.save /\ visited = <<>>
  /\ \E pass \in Passes : visited' = <<pass, Visits(pass)>>
  /\ UNCHANGED <<vars, o, progress, evaluated, log, tree>>

CNext == CReduce \/ CShift \/ CFinish \/ Pass
CSpec == CInit /\ [][CNext]_cvars
=============================================================================

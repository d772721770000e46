------------------------------ MODULE GLRStack ------------------------------
(***************************************************************************)
(* The graph-structured stack behind the nodes of GLR, which implements    *)
(* GSS: whichever nodes the hashes, the ZNode sets and the work lists find, *)
(* a step of the engine adds only links that the tables justify on the     *)
(* stack as it was.  GLRProofs proves it from the assumptions below, which *)
(* TLC checks for the tables of LRTables.                                  *)
(***************************************************************************)
EXTENDS GLR

-----------------------------------------------------------------------------
(* What the tables of a grammar are.                                       *)

\* Rule r of the grammar is one that reduction red stands for, at its end in state s.
Completes(T, s, r, red) ==
  /\ r \in DOMAIN T.grammar.rules /\ r # 1 /\ <<r, red.n>> \in T.items[s]
  /\ T.grammar.rules[r].lhs = red.sym /\ Len(T.grammar.rules[r].rhs) = red.n

\* Every symbol that is reduced to or shifted has a column in the goto table.
HasColumn(T, X) == \A s \in DOMAIN T.items : X \in DOMAIN T.goto[s]

ReductionOK(T, s, red) ==
  /\ red.n \in Nat /\ \E r \in DOMAIN T.grammar.rules : Completes(T, s, r, red)
  /\ red.sym \notin DOMAIN T.spell /\ HasColumn(T, red.sym)

TableOK(T) ==
  /\ 1 \in DOMAIN T.items /\ 0 \notin DOMAIN T.items
  /\ T.accept = {s \in DOMAIN T.items : <<1, 1>> \in T.items[s]}
  /\ \A t \in DOMAIN T.spell : IsSeq(T.spell[t]) /\ Len(T.spell[t]) > 0
  /\ \A s \in DOMAIN T.items :
       /\ IsSeq(T.reds[s]) /\ \A k \in DOMAIN T.reds[s] : ReductionOK(T, s, T.reds[s][k])
       /\ IsSeq(T.hints[s])
       /\ s # 1 => \A k \in DOMAIN T.hints[s] : LET h == T.hints[s][k]
                                                 IN  h.red.n > 0 /\ ReductionOK(T, h.state, h.red)
       /\ IsFiniteSet(T.shifts[s]) /\ T.shifts[s] \subseteq DOMAIN T.spell
       /\ \A t \in T.shifts[s] : HasColumn(T, t)

RulesOK(T) ==
  /\ IsSeq(T.grammar.rules) /\ T.grammar.rules # <<>> /\ Len(T.grammar.rules[1].rhs) = 1
  /\ \A r \in DOMAIN T.grammar.rules : IsSeq(T.grammar.rules[r].rhs)
  /\ \A s \in DOMAIN T.items : \A it \in T.items[s] : it[1] \in DOMAIN T.grammar.rules /\ it[2] \in Nat
  /\ \A s \in DOMAIN T.items : <<1, 0>> \in T.items[s] => s = 1
  /\ <<1, 1>> \notin T.items[1]

\* A goto leads to a state, not the first, with an item whose dot has moved; every such
\* item has moved over the symbol of the goto.
Moved(T, s, X, to) ==
  /\ to \in DOMAIN T.items /\ to # 1 /\ \E it \in T.items[to] : it[2] > 0
  /\ \A it \in T.items[to] : it[2] > 0 =>
       /\ it[2] <= Len(T.grammar.rules[it[1]].rhs) /\ T.grammar.rules[it[1]].rhs[it[2]] = X
       /\ <<it[1], it[2] - 1>> \in T.items[s]

GotoOK(T) ==
  /\ DOMAIN T.goto = DOMAIN T.items
  /\ \A s \in DOMAIN T.items : \A X \in DOMAIN T.goto[s] : T.goto[s][X] # 0 => Moved(T, s, X, T.goto[s][X])

ASSUME TableAssumption == \A gr \in Grammars : RulesOK(Table[gr]) /\ GotoOK(Table[gr]) /\ TableOK(Table[gr])
\* The words of the terminals are those of the grammar, whose first symbol is none.
SpellingOK(T) == T.grammar.spell = T.spell /\ IsFiniteSet(DOMAIN T.spell) /\ "S'" \notin DOMAIN T.spell

ASSUME GrammarAssumption == \A gr \in Grammars : SpellingOK(Table[gr])
ASSUME InputAssumption == \A gr \in Grammars : \A text \in Inputs[gr] : IsSeq(text)

-----------------------------------------------------------------------------
(* The stack.                                                              *)

Node(q, s) == <<StateOf(q, s), Loc(q, s)>>

\* The link from SNode s down to SNode b through ZNode z.
LinkOf(q, s, z, b) == <<Node(q, b), q.pn[q.zn[z].pn].sym, Node(q, s)>>
LinksOf(q) ==
  UNION {UNION {{LinkOf(q, s, z, b) : b \in ToSet(q.zn[z].sns)} : z \in ToSet(q.sn[s].zns)} : s \in DOMAIN q.sn}
Links == LinksOf(p)

\* The spans of the tokens of the input, each with the blanks that follow it.
Spelled(T, t, i) == i + Len(T.spell[t]) <= Len(input) /\ Agrees(T.spell[t], i, Len(T.spell[t]))
Tokens(T) ==
  UNION {{<<t, i, White(i + Len(T.spell[t]))>> : i \in {k \in 0..Len(input) : Spelled(T, t, k)}} : t \in DOMAIN T.spell}

\* The problem of GSS that the tables and the input pose, with the spans the grammar
\* derives, which only the properties of GSS speak about.
Problem(T, derived) ==
  [rules |-> T.grammar.rules, items |-> T.items, goto |-> T.goto, tokens |-> Tokens(T),
   start |-> White(0), end |-> Len(input), derived |-> derived]

Stack == INSTANCE GSS WITH Problems <- {}, prob <- Problem(Table[g], {}), links <- Links, verdict <- result

\* Each reduction and each round of shifts adds only links that the tables justify
\* on the stack as it was, whichever nodes the hash, the ZNode sets and the work
\* lists found; and the answer is accept exactly if an accepting node is at the end.
ImplementsGSS == Links = {} /\ result = "running" /\ [][Stack!Next]_Stack!vars
=============================================================================

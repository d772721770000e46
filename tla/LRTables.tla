------------------------------ MODULE LRTables ------------------------------
(***************************************************************************)
(* The LR(0) tables make_dparser builds for a grammar (lr.c), as far as    *)
(* the parsing engine reads them: goto, reductions, shifts, right-epsilon  *)
(* hints and the accepting state.  An item <<r, d>> has the dot before     *)
(* element d + 1 of rule r; d = Len(rhs) is the code's ELEM_END.           *)
(***************************************************************************)
EXTENDS Grammar, FiniteSets

Rhs(gr, it) == gr.rules[it[1]].rhs
AtEnd(gr, it) == it[2] = Len(Rhs(gr, it))
NextSym(gr, it) == Rhs(gr, it)[it[2] + 1]

Items(gr) == UNION {{<<r, d>> : d \in 0..Len(gr.rules[r].rhs)} : r \in DOMAIN gr.rules}
SymsAfterDot(gr, I) == {NextSym(gr, it) : it \in {x \in I : ~AtEnd(gr, x)}}

\* build_closure (lr.c 67-83)
Closure(gr, I) ==
  LeastFixpoint(LAMBDA J : {<<r, 0>> : r \in {q \in DOMAIN gr.rules :
                                                gr.rules[q].lhs \in SymsAfterDot(gr, J)}},
                Items(gr), I)

\* build_state_for (lr.c 98-111)
GotoItems(gr, I, X) ==
  Closure(gr, {<<it[1], it[2] + 1>> : it \in {x \in I : ~AtEnd(gr, x) /\ NextSym(gr, x) = X}})

\* The symbols after a dot, nonterminals and terminals, in the order of the first item
\* that has them; items are sorted by rule, then by dot (itemcmp).
SymbolsInOrder(gr, I) ==
  LET Sorted == Listed({it \in I : ~AtEnd(gr, it)},
                             LAMBDA a, b : a[1] < b[1] \/ (a[1] = b[1] /\ a[2] < b[2]))
  IN  FoldLeft(LAMBDA syms, it : IF Contains(syms, NextSym(gr, it)) THEN syms
                                 ELSE Append(syms, NextSym(gr, it)), <<>>, Sorted)

\* build_new_states, maybe_add_state, build_LR_sets (lr.c 49-58, 113-134, 168-185):
\* state 1 is the closure of the augmented rule; the gotos of the states are made in
\* order, and a new item set is appended.  No subparser has a start state of its own.
ItemSets(gr) ==
  LET AddGotos(Q, I) ==
        FoldLeft(LAMBDA P, X : LET J == GotoItems(gr, I, X) IN IF Contains(P, J) THEN P ELSE Append(P, J),
                 Q, SymbolsInOrder(gr, I))
      build[s \in Seq(SUBSET Items(gr)) \X Nat] ==
        IF s[2] > Len(s[1]) THEN s[1] ELSE build[<<AddGotos(s[1], s[1][s[2]]), s[2] + 1>>]
  IN  build[<<<<Closure(gr, {<<1, 0>>})>>, 1>>]

-----------------------------------------------------------------------------
(* The D_Reduction of a rule.  write_reductions (write_tables.c 1310-1330)  *)
(* gives one to all the rules of a production with as many elements and the *)
(* same code and priorities; act stands for the code.                      *)
Reduction(gr, r) ==
  LET rule == gr.rules[r]
  IN  [sym |-> rule.lhs, n |-> Len(rule.rhs), assoc |-> rule.assoc, prio |-> rule.prio,
       opAssoc |-> rule.opAssoc, opPrio |-> rule.opPrio, act |-> rule.act]

GotoIndex(Q, gr, s, X) ==
  IF X \in SymsAfterDot(gr, Q[s])
  THEN LET I == GotoItems(gr, Q[s], X) IN CHOOSE t \in DOMAIN Q : Q[t] = I
  ELSE 0

\* The state the tail of an item leads to.
TailState(Q, gr, s, it) ==
  FoldLeft(LAMBDA t, X : GotoIndex(Q, gr, t, X), s,
           SubSeq(Rhs(gr, it), it[2] + 1, Len(Rhs(gr, it))))

\* build_right_epsilon_hints (lr.c 298-325): the items whose remaining
\* elements are all nullable nonterminals, sorted by depth, then by rule.
Hints(Q, gr, null, s) ==
  LET Its == {it \in Q[s] : /\ ~AtEnd(gr, it)
                            /\ \A k \in (it[2]+1)..Len(Rhs(gr, it)) : Rhs(gr, it)[k] \in null}
      Depth(it) == Len(Rhs(gr, it)) - it[2] - 1
      Before(a, b) == \/ Depth(a) < Depth(b)
                      \/ Depth(a) = Depth(b) /\ a[1] < b[1]
      Sorted == Listed(Its, Before)
  IN  Eager([k \in DOMAIN Sorted |->
               [depth |-> Depth(Sorted[k]), state |-> TailState(Q, gr, s, Sorted[k]),
                red |-> Reduction(gr, Sorted[k][1])]])

\* build_actions (lr.c 247-271): reductions in rule order, terminals to shift,
\* and the accepting states, those that hold the end of the augmented rule.
DoneRules(Q, gr, s) == Listed({it[1] : it \in {x \in Q[s] : AtEnd(gr, x) /\ x[1] # 1}}, <)
Reductions(Q, gr, s) ==
  LET Done == DoneRules(Q, gr, s)
  IN  Eager([k \in DOMAIN Done |-> Reduction(gr, Done[k])])

-----------------------------------------------------------------------------
(* build_eq (gram.c 1069-1193): pairs of states that differ in one goto or  *)
(* one rule; reduces_to says which of the two stacks with an operator on    *)
(* top of the same stack cmp_stacks may compare.                           *)

\* The symbol's index in the tables: nonterminals by their first rule, then terminals by
\* their first occurrence (resolve_grammar).
SymbolOrder(gr) ==
  LET seen == FoldLeft(LAMBDA ss, rule : ss \o rule.rhs, <<>>, gr.rules)
      Once(ss) == FoldLeft(LAMBDA t, x : IF Contains(t, x) THEN t ELSE Append(t, x), <<>>, ss)
      all == Once([r \in DOMAIN gr.rules |-> gr.rules[r].lhs])
               \o SelectSeq(Once(seen), LAMBDA X : X \notin NonTerms(gr))
  IN  Eager([X \in ToSet(all) |-> CHOOSE i \in DOMAIN all : all[i] = X])

\* Of a state: its gotos <<symbol, state>> by state, and the first state that shifts the same terminals (build_scanners, lex.c 519-533).
GotosByState(Q, gr, s) ==
  Listed({<<X, GotoIndex(Q, gr, s, X)>> : X \in SymsAfterDot(gr, Q[s])}, LAMBDA a, b : a[2] < b[2])
Terms(Q, gr, s) == SymsAfterDot(gr, Q[s]) \cap Terminals(gr)
SameShifts(Q, gr, s) ==
  LET same == {t \in 1..(s - 1) : Terms(Q, gr, t) = Terms(Q, gr, s)}
  IN  IF same = {} THEN 0 ELSE CHOOSE t \in same : \A u \in same : t <= u

\* One pair s < t of the loop: a goto of each, then a reduction of each.  x.e holds the
\* EqState of every state; what a comparison that fails has recorded stays.
CompareGoto(x, s, t, a, b) ==
  LET Other(y, c) == x.e[y].state # 0 /\ x.e[y].state # x.e[c].eq
  IN  CASE ~x.ok \/ a = b -> x
        [] x.ok /\ a # b /\ (\/ a[1] # b[1]
                             \/ x.e[a[2]].eq # b[2] /\ x.e[b[2]].eq # a[2]
                             \/ Other(t, b[2]) \/ Other(s, a[2])) -> [x EXCEPT !.ok = FALSE]
        [] OTHER -> [x EXCEPT !.e[t].state = b[2], !.e[s].state = a[2]]

CompareRule(x, gr, s, t, a, b) ==
  LET Other(y, r) == x.e[y].rule \notin {0, r}
      sameProduction == gr.rules[a].lhs = gr.rules[b].lhs
      sameLength == Len(gr.rules[a].rhs) = Len(gr.rules[b].rhs)
  IN  CASE ~x.ok \/ a = b \/ (sameProduction /\ sameLength) -> x
        [] x.ok /\ a # b /\ (~sameProduction \/ (~sameLength /\ (Other(t, b) \/ Other(s, a)))) ->
             [x EXCEPT !.ok = FALSE]
        [] OTHER -> [x EXCEPT !.e[t].rule = b, !.e[s].rule = a]

\* The states have as many gotos (they are in one bucket), and must have as many reductions.
ComparePair(x, gr, s, t, gs, gt, rs, rt) ==
  LET Gotos(y) == FoldLeft(LAMBDA z, k : CompareGoto(z, s, t, gs[k], gt[k]), y, [k \in DOMAIN gs |-> k])
      Rules(y) == IF Len(rs) # Len(rt) THEN [y EXCEPT !.ok = FALSE]
                  ELSE FoldLeft(LAMBDA z, k : CompareRule(z, gr, s, t, rs[k], rt[k]), y, [k \in DOMAIN rs |-> k])
      Settle(y) == IF y.ok THEN [y.e EXCEPT ![t].eq = s] ELSE y.e
  IN  Settle(Rules(Gotos(x)))

EqStates(Q, gr) ==
  LET same == Eager([s \in DOMAIN Q |-> SameShifts(Q, gr, s)])
      gotos == Eager([s \in DOMAIN Q |-> GotosByState(Q, gr, s)])
      done == Eager([s \in DOMAIN Q |-> DoneRules(Q, gr, s)])
      Tried(e, s, t) == /\ e[s].eq = 0 /\ e[t].eq = 0 /\ Len(gotos[s]) = Len(gotos[t])
                        /\ same[s] = same[t] \/ same[t] = s
      Try(e, s, t) == IF Tried(e, s, t) 
                      THEN ComparePair([ok |-> TRUE, e |-> e], gr, s, t, gotos[s], gotos[t], done[s], done[t])
                      ELSE e
      Row(e, s) == FoldLeft(LAMBDA d, t : Try(d, s, t), e, [k \in 1..(Len(Q) - s) |-> s + k])
      Unequal(e) == {s \in DOMAIN Q : e[s].eq = 0}
      EqState == [eq : 0..Len(Q), state : 0..Len(Q), rule : 0..Len(gr.rules)]
      pass[e \in [DOMAIN Q -> EqState], s \in 1..(Len(Q) + 1)] == IF s > Len(Q) THEN e ELSE pass[Row(e, s), s + 1]
      passes[e \in [DOMAIN Q -> EqState]] ==
        LET d == pass[e, 1] IN IF Unequal(d) = Unequal(e) THEN d ELSE passes[d]
  IN  passes[[s \in DOMAIN Q |-> [eq |-> 0, state |-> 0, rule |-> 0]]]

\* The end of build_eq: of two equal states that differ in a goto, where the states it
\* leads to differ in a rule of two elements, one reduces to the other.
ReducesIn(gr, e) ==
  LET Two(r) == r # 0 /\ Len(gr.rules[r].rhs) = 2
      Step(f, s) ==
        LET other == e[s].eq
        IN  IF other = 0 \/ e[s].state = 0 THEN f
            ELSE IF Two(e[e[s].state].rule) THEN [f EXCEPT ![s] = other]
            ELSE IF Two(e[e[other].state].rule) THEN [f EXCEPT ![other] = s]
            ELSE f
  IN  FoldLeft(Step, [s \in DOMAIN e |-> 0], [s \in DOMAIN e |-> s])
ReducesTo(Q, gr) == ReducesIn(gr, EqStates(Q, gr))

-----------------------------------------------------------------------------
\* write_symbol_data (write_tables.c 1652-1665): the lists and options of EBNF are
\* written as D_SYMBOL_INTERNAL, the other internal productions as D_SYMBOL_EBNF.
SymbolKind(gr, A) ==
  IF A \notin DOMAIN gr.internal THEN "NTERM"
  ELSE IF gr.internal[A] = "hidden" THEN "EBNF" ELSE "INTERNAL"

TablesOf(gr, null, Q) ==
  LET PerState(F(_)) == Eager([s \in DOMAIN Q |-> F(s)])
      Symbols == NonTerms(gr) \cup Terminals(gr)
  IN  [items  |-> Q,
       goto   |-> PerState(LAMBDA s : Eager([X \in Symbols |-> GotoIndex(Q, gr, s, X)])),
       reds   |-> PerState(LAMBDA s : Reductions(Q, gr, s)),
       shifts |-> PerState(LAMBDA s : Terms(Q, gr, s)),
       hints  |-> PerState(LAMBDA s : Hints(Q, gr, null, s)),
       accept |-> {s \in DOMAIN Q : <<1, 1>> \in Q[s]},
       spell  |-> gr.spell,
       ops    |-> gr.ops,
       ranks  |-> gr.ranks,
       kind   |-> Eager([X \in Symbols |-> IF X \in NonTerms(gr) THEN SymbolKind(gr, X) ELSE "STRING"]),
       order  |-> SymbolOrder(gr),
       reducesTo |-> ReducesTo(Q, gr)]

TablesFor(gr, null) == TablesOf(gr, null, ItemSets(gr))

\* The tables the generator writes, with its own idea of nullable.
Tables(gr) == TablesFor(gr, CodedNullable(gr))
=============================================================================

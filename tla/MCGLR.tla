------------------------------- MODULE MCGLR -------------------------------
(***************************************************************************)
(* The GLR engine on the grammars of Suite, each with every input up to a  *)
(* bound, against the language the grammar defines.                        *)
(***************************************************************************)
EXTENDS GLRStack, Suite

\* The values of the constants.
Tabled == SuiteTable(Grammars)
Given == SuiteInputs(Grammars)
MCTable == Tabled
MCInputs == Given
Posed == SuiteProblem(Given)

-----------------------------------------------------------------------------
EndOf(x) == IF p.pn[x].term THEN White(p.pn[x].skip) ELSE p.pn[x].skip

\* The engine accepts exactly the language of the grammar (README.md 9-13).
RecognizesLanguage ==
  result # "running" =>
    ((result = "accept") <=>
       <<StartSymbol(p.t.grammar), SkipBlanks(input, Blank, 0), Len(input)>>
         \in Posed[g][input].derived)

\* What a PNode covers; the alternatives it has, by reduction and spans of children;
\* the alternatives its span has in the grammar; and the nodes of the final tree.
Span(x) == <<p.pn[x].sym, p.pn[x].start, EndOf(x)>>
Alternatives(x) ==
  {<<p.pn[y].red, [k \in DOMAIN p.pn[y].kids |-> Span(p.pn[y].kids[k])]>> :
     y \in {x} \cup ToSet(p.pn[x].amb)}
Splits(x) ==
  UNION {LET rhs == p.t.grammar.rules[r].rhs
             n == Len(rhs)
         IN  {<<Reduction(p.t.grammar, r), [k \in 1..n |-> <<rhs[k], at[k-1], at[k]>>]>> :
                at \in {f \in [0..n -> 0..Len(input)] :
                         /\ f[0] = p.pn[x].start /\ f[n] = EndOf(x)
                         /\ \A k \in 1..n : <<rhs[k], f[k-1], f[k]>> \in Posed[g][input].derived}} :
         r \in RulesOf(p.t.grammar, p.pn[x].sym)}
Below1(X) == X \cup UNION {UNION {{Latest(p, kid) : kid \in ToSet(p.pn[y].kids)} :
                                    y \in {x} \cup ToSet(p.pn[x].amb)} : x \in X}
Forest ==
  LeastFixpoint(Below1, DOMAIN p.pn, {Latest(p, p.zn[z].pn) : z \in ToSet(p.sn[p.accept].zns)})

\* With every way of ranking alternatives off, an accepted parse leaves a forest with
\* every derivation: each span of a nonterminal that is a child in it has one
\* alternative for every rule and every split of the span.
ForestComplete ==
  result = "accept" /\ p.t.ranks = {} =>
    \A x \in Forest : ~p.pn[x].term => Alternatives(x) = Splits(x)

\* The spans that some derivation of height d or less covers, and the PNodes whose
\* tree, as it is at last, is no higher than d.
Trees(d) ==
  LET gr == p.t.grammar
      Empty == {<<gr.rules[r].lhs, i, i>> : <<r, i>> \in {q \in DOMAIN gr.rules : gr.rules[q].rhs = <<>>}
                                                          \X (0..Len(input))}
      Higher(X) == X \cup UNION {{<<gr.rules[r].lhs, i, j>> : j \in EndsOf(X, gr.rules[r].rhs, i)} :
                                  <<r, i>> \in (DOMAIN gr.rules) \X (0..Len(input))}
      upTo[h \in 0..d] == IF h = 0 THEN Empty \cup Posed[g][input].tokens ELSE Higher(upTo[h - 1])
  IN  upTo[d]
NoHigher(d) ==
  FoldLeft(LAMBDA X, i : {x \in DOMAIN p.pn : {Latest(p, kid) : kid \in ToSet(p.pn[x].kids)} \subseteq X},
           {}, [i \in 1..(d + 1) |-> i])

\* With height ranking alone, every alternative left in the forest of an accepted parse
\* is as flat as any derivation of its span (docs/ambiguities.md 21-23), though
\* heights are computed once and children are replaced by lower ones afterwards.
FlatTree ==
  result = "accept" /\ p.t.ranks = {"height"} =>
    \A x \in Forest : ~p.pn[x].term =>
      \A h \in 0..p.pn[x].height :
        Span(x) \in Trees(h) => {x} \cup ToSet(p.pn[x].amb) \subseteq NoHigher(h)

\* Every parse ends.
Terminates == <>(result # "running")
=============================================================================

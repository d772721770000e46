------------------------------ MODULE MCCommit ------------------------------
(***************************************************************************)
(* Final actions against the derivations of the input: the commits during  *)
(* the parse and at its end, with every switch that changes the tree.      *)
(***************************************************************************)
EXTENDS Commit, LRTables

F == INSTANCE FrontEnd

Elem(X) == <<"elem", X>>
Code(n) == <<"code", n>>
Prod(name, rules) ==
  <<<<"production", name>>>> \o FlattenSeq([k \in DOMAIN rules |-> <<<<"rule">>>> \o rules[k] \o <<<<"end">>>>])
Group(elems) == <<<<"(">>, <<"rule">>>> \o elems \o <<<<"end">>, <<")">>>>
Elems(syms) == [k \in DOMAIN syms |-> Elem(syms[k])]
Spelled(S) == [t \in S |-> <<t>>]

\* The grammars as they are read, with the length of their inputs; the inputs are sentences.
Of(calls, letters, len) == [calls |-> calls, letters |-> letters, len |-> len]

Actions ==
  [ \* docs/manual.md, Actions: code between the elements and at the end
    midway |-> Of(Prod("S", << Elems(<<"a">>) \o <<<<"midway", 1>>>> \o Elems(<<"b">>) \o <<Code(2)>>,
                               Elems(<<"a", "S">>) \o <<Code(3)>> >>), {"a", "b"}, 4),
    \* lists of lists, and an option
    lists |-> Of(Prod("S", << Group(Elems(<<"A">>) \o << <<"+">> >> \o Elems(<<"b">>)) \o << <<"*">>, Elem("c"), <<"?">>, Code(1)>> >>)
                   \o Prod("A", << <<Elem("a"), Code(2)>> >>), {"a", "b", "c"}, 4),
    \* every empty A is a guess until the end
    guess |-> Of(Prod("S", << Elems(<<"A", "S", "b">>) \o <<Code(1)>>, <<Elem("x"), Code(2)>> >>)
                   \o Prod("A", << <<Code(3)>> >>), {"b", "x"}, 5),
    \* two alternatives for each split
    split |-> Of(Prod("S", << Elems(<<"S", "S">>) \o <<Code(1)>>, <<Elem("a"), Code(2)>> >>), {"a"}, 4),
    \* the same place twice: empty children with and without code of their own
    empty |-> Of(Prod("S", << Elems(<<"N", "N", "a">>) \o <<Code(1)>>, Elems(<<"M", "b">>) \o <<Code(2)>> >>)
                   \o Prod("N", << <<Code(3)>> >>) \o Prod("M", << Elems(<<"N", "N">>) \o <<Code(4)>> >>), {"a", "b"}, 3),
    \* a rule read to its end while another is still possible
    dies |-> Of(Prod("S", << Elems(<<"A", "D", "y">>) \o <<Code(1)>>, Elems(<<"B", "x", "z">>) \o <<Code(2)>> >>)
                  \o Prod("A", << <<Elem("a"), Code(3)>> >>) \o Prod("B", << <<Elem("a"), Code(4)>> >>)
                  \o Prod("D", << <<Elem("x"), Code(5)>> >>), {"a", "x", "y", "z"}, 3),
    \* empty children with code below children without
    shared |-> Of(Prod("S", << Elems(<<"N", "N", "a">>) \o <<Code(1)>> >>) \o Prod("N", << Elems(<<"P">>) >>)
                    \o Prod("P", << <<Code(2)>> >>), {"a"}, 1),
    \* empty children in a list
    fixup |-> Of(Prod("S", << Group(Elems(<<"P", "a">>)) \o << <<"+">>, Code(1)>> >>) \o Prod("P", << <<Code(2)>> >>), {"a"}, 3) ]

TableOf(gr) == Tables(gr) @@ [grammar |-> gr]
Tabled ==
  Eager([n \in Grammars |-> CHOOSE t \in {TableOf(F!Build(x.calls, Spelled(x.letters), FALSE)) : x \in {Actions[n]}} : TRUE])
MCTable == Tabled
Sentences(gr, len) == {w \in UNION {[1..k -> Terminals(gr)] : k \in 0..len} : InLanguage(gr, w, Blank)}
Given == Eager([n \in Grammars |-> Sentences(Tabled[n].grammar, Actions[n].len)])
MCInputs == Given

Switches == [interval : {0, 1, 2, 100}, fixup : BOOLEAN, ebnf : BOOLEAN, merge : BOOLEAN, save : BOOLEAN,
             pick : {"first", "last"}]
\* Each of the other switches with each interval.
MCConfigurations ==
  {c \in Switches : /\ c.ebnf => c.fixup /\ c.merge
                    /\ c.save = (c.pick = "first")
                    /\ ~c.fixup => c.merge}

-----------------------------------------------------------------------------
(* The derivations of the input.  A tree is given by its node, the calls   *)
(* its final actions receive, in order, its children as those calls see    *)
(* them, and the calls of each pass over it.                               *)
Spliceable(A) == o.fixup /\ p.t.kind[A] \in {"INTERNAL", "EBNF"}
Gone(A, kid) == Spliceable(A) /\ p.t.kind[kid] \in IF o.ebnf THEN {"INTERNAL", "EBNF"} ELSE {"INTERNAL"}

Concat(ss) == FlattenSeq(ss)

Tree(rule, i, j, kids) ==
  LET node == <<rule.lhs, i, j>>
      shown == Concat([k \in DOMAIN kids |-> IF Gone(rule.lhs, kids[k].node[1]) THEN kids[k].kids ELSE <<kids[k]>>])
      own == IF rule.act = 0 THEN <<>>
             ELSE <<[act |-> rule.act, node |-> node, kids |-> [k \in DOMAIN shown |-> shown[k].node]]>>
      Visit(pass) ==
        LET below == IF pass.over = "all" \/ (pass.over = "undefined" /\ own = <<>>)
                     THEN Concat([k \in DOMAIN shown |-> shown[k].visits[pass]]) ELSE <<>>
        IN  IF pass.order = "preorder" THEN own \o below ELSE below \o own
  IN  [node |-> node, calls |-> Concat([k \in DOMAIN kids |-> kids[k].calls]) \o own,
       kids |-> shown, visits |-> [pass \in Passes |-> Visit(pass)]]
Leaf(t, i, j) == [node |-> <<t, i, j>>, calls |-> <<>>, kids |-> <<>>, visits |-> [pass \in Passes |-> <<>>]]

\* The trees of the start symbol over the whole input; trees[r, k, i, j] are the sequences
\* of trees for the elements of rule r from k on, over the input from i to j.
Derivations ==
  LET gr == p.t.grammar
      derived == Derived(gr, input, Blank)
      At == 0..Len(input)
      trees[r \in DOMAIN gr.rules, k \in Nat, i \in At, j \in At] ==
        LET rhs == gr.rules[r].rhs
            Of1(A, m) == IF A \in Terminals(gr) THEN {Leaf(A, i, m)}
                         ELSE UNION {{Tree(gr.rules[s], i, m, kids) : kids \in trees[s, 1, i, m]} : s \in RulesOf(gr, A)}
            Ends == {m \in i..j : /\ <<rhs[k], i, m>> \in derived
                                  /\ j \in EndsOf(derived, SubSeq(rhs, k + 1, Len(rhs)), m)}
        IN  IF k > Len(rhs) THEN {kids \in {<<>>} : i = j}
            ELSE UNION {{<<first>> \o rest : <<first, rest>> \in Of1(rhs[k], m) \X trees[r, k + 1, m, j]} : m \in Ends}
  IN  {kids[1] : kids \in trees[1, 1, 0, Len(input)]}

\* The final actions of an accepted input are those of one derivation, each once, children
\* first and from left to right, with the node and the children the switches of the parser
\* make of it; whether they run at the end or, in part, during the parse, and with a tree
\* that is freed behind them (docs/manual.md 412-416).
FinalActions == result = "accept" => \E tree0 \in Derivations : log = tree0.calls

\* What is committed during the parse of a sentence stays part of its parse.
CommittedPrefix ==
  result = "running" /\ log # <<>> =>
    LET trees == Derivations IN trees # {} => \E tree0 \in trees : IsPrefix(log, tree0.calls)

\* A pass over the saved tree visits the nodes it should, before or after their children,
\* and the tree is the one the final actions have seen.
PassVisits ==
  visited # <<>> =>
    \E tree0 \in Derivations : visited[2] = tree0.visits[visited[1]] /\ log = tree0.calls
=============================================================================

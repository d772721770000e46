-------------------------------- MODULE Suite --------------------------------
(***************************************************************************)
(* The grammars the parser is checked on.  g1, g2, g3, g6, g12 and g14 are *)
(* the grammars of tests/g*.test.g (g3 with one letter for its regular     *)
(* expression); the others each exercise one more thing.                   *)
(***************************************************************************)
EXTENDS LRTables

\* A rule with no rank, no operator and no code; with a rank ($left 2), and with an
\* operator ($binary_op_left 2).
R(lhs, rhs) == [lhs |-> lhs, rhs |-> rhs, assoc |-> {}, prio |-> 0, opAssoc |-> {}, opPrio |-> 0, act |-> 0]
W(rule, assoc, prio) == [rule EXCEPT !.assoc = assoc, !.prio = prio]
Op(rule, assoc, prio) == [rule EXCEPT !.opAssoc = assoc, !.opPrio = prio]

Left == {"nary", "left"}
Right == {"nary", "right"}
BinaryLeft == {"binary", "left"}
UnaryRight == {"unary", "right"}

NoOps(spell) == [t \in DOMAIN spell |-> NoOp]
G(start, spell, len, rules) ==
  [rules |-> <<R("S'", <<start>>)>> \o rules, spell |-> spell, len |-> len, ops |-> NoOps(spell), ranks |-> {},
   internal |-> [A \in {"S'"} |-> "hidden"]]
\* ... with the rules' ranks converted; and with ${declare set_op_priority_from_rule}.
Ranked(gr) == [gr EXCEPT !.rules = ConvertPriorities(gr)]
OpsFromRules(gr) == Ranked([gr EXCEPT !.ops = OpPriorityFromRule(gr)])
\* ... with alternatives ranked by height; and in every way, as by default.
Flattest(gr) == [gr EXCEPT !.ranks = {"height"}]
Flat(n) == [of |-> n, ranks |-> {"height"}]
EveryRank == {"priority", "greedy", "height", "stacks"}
Usual(gr) == [gr EXCEPT !.ranks = EveryRank]
Letters(S) == [t \in S |-> <<t>>]
Space == " "

Plain ==
  [ \* hidden left recursion through an empty production
    g1  |-> G("S", Letters({"b", "x"}), 6,
              <<R("S", <<"A","S","b">>), R("S", <<"x">>), R("A", <<>>)>>),
    \* infinitely ambiguous: a cycle of unit productions
    g2  |-> G("A", Letters({"d"}), 4,
              <<R("A", <<"d">>), R("A", <<"B">>), R("B", <<"A">>)>>),
    \* ambiguous
    g3  |-> G("E", Letters({"+", "a"}), 7,
              <<R("E", <<"E","+","E">>), R("E", <<"a">>)>>),
    \* nullable tails: right-epsilon hints
    g6  |-> G("S", Letters({"a", "b"}), 6,
              <<R("S", <<"b","A">>), R("A", <<"a","A","B">>), R("A", <<>>), R("B", <<>>)>>),
    \* even palindromes: every empty P is a guess
    g12 |-> G("P", Letters({"a", "b"}), 6,
              <<R("P", <<>>), R("P", <<"a","P","a">>), R("P", <<"b","P","b">>)>>),
    \* dangling else
    g14 |-> G("S", Letters({"i", "e", "x"}), 5,
              <<R("S", <<"i","S">>), R("S", <<"i","S","e","S">>), R("S", <<"x">>)>>),
    \* a terminal that is a prefix of another, and white space between tokens
    prefix |-> G("S", [t1 |-> <<"p">>, t2 |-> <<"p","p","p">>, t3 |-> <<"q">>], 5,
                 <<R("S", <<"t1","S">>), R("S", <<"t2","S">>), R("S", <<"t3">>), R("S", <<>>)>>),
    \* right recursion under a nullable tail: the hint is needed from the third a on
    tail |-> G("S", Letters({"a", "b"}), 6,
               <<R("S", <<"a","S","N">>), R("S", <<"a">>), R("N", <<>>), R("N", <<"b">>)>>),
    \* the same nullable N, by its second rule
    second |-> G("S", Letters({"a", "b"}), 4,
               <<R("S", <<"a","S","N">>), R("S", <<"a">>), R("N", <<"b">>), R("N", <<"M">>),
                 R("M", <<>>)>>),
    \* a link that reaches a ZNode after its reductions have run
    late |-> G("S", Letters({"b", "c", "d", "e"}), 2,
               <<R("S", <<"E","Y","e">>), R("S", <<"Y","d">>), R("S", <<"E","b","c">>),
                 R("E", <<>>), R("Y", <<"X">>), R("X", <<"b">>)>>),
    \* ambiguous in a way that lowers a child after its parent was ranked
    flat |-> Flattest(G("S", Letters({"a", "b"}), 5,
               <<R("S", <<"a","B">>), R("S", <<"S","S">>), R("S", <<"b">>), R("A", <<"b","b","B">>),
                 R("A", <<"b">>), R("A", <<"b","S","a">>), R("B", <<"S">>), R("B", <<"b","b">>), R("B", <<"A","B">>)>>)),
    \* operators: the application of g21, of g22, and of g23
    g21 |-> Usual(G("S", Letters({"+", "x"}), 6,
              <<R("S", <<"S","bop","S">>), R("S", <<"uop","S">>), R("S", <<"x">>),
                Op(R("bop", <<"+">>), BinaryLeft, 2), Op(R("bop", <<>>), BinaryLeft, 1),
                Op(R("uop", <<"+">>), UnaryRight, 3)>>)),
    g22 |-> Usual(G("E", Letters({"+", "x"}), 6,
              <<R("E", <<"E","bop","F">>), R("E", <<"F">>),
                Op(R("bop", <<"+">>), BinaryLeft, 2), Op(R("bop", <<>>), BinaryLeft, 1),
                R("F", <<"uop","F">>), R("F", <<"x">>), Op(R("uop", <<"+">>), UnaryRight, 3)>>)),
    g23 |-> OpsFromRules(Usual(G("S", [plus |-> <<"+">>, sign |-> <<"+">>, x |-> <<"x">>], 6,
              <<W(R("S", <<"S","plus","S">>), Left, 2), W(R("S", <<"S","S">>), Left, 1),
                W(R("S", <<"sign","S">>), UnaryRight, 3), R("S", <<"x">>)>>))),
    \* a calculator: two left binary operators, a right one, and a sign
    calc |-> Ranked(Usual(G("E", Letters({"+", "*", "^", "-", "x"}), 5,
              <<W(R("E", <<"E","+","E">>), Left, 1), W(R("E", <<"E","*","E">>), Left, 2),
                W(R("E", <<"E","^","E">>), Right, 3), W(R("E", <<"-","E">>), Right, 2), R("E", <<"x">>)>>))),
    \* a sign that binds less than the operator around it
    low |-> Ranked(Usual(G("E", Letters({"+", "!", "x"}), 6,
              <<W(R("E", <<"E","+","E">>), Left, 2), W(R("E", <<"!","E">>), Right, 1), R("E", <<"x">>)>>))) ]

\* ... and some of them again, with their alternatives ranked.
Ranking == [flat2 |-> Flat("g2"), flat3 |-> Flat("g3"), flat6 |-> Flat("g6"), flat12 |-> Flat("g12"),
          flat14 |-> Flat("g14"), usual14 |-> [of |-> "g14", ranks |-> EveryRank]]
Suite == Plain @@ [n \in DOMAIN Ranking |-> [Plain[Ranking[n].of] EXCEPT !.ranks = Ranking[n].ranks]]

\* The grammars whose alternatives are all kept.
Unranked == {n \in DOMAIN Suite : Suite[n].ranks = {}}

SuiteTable(names) == Eager([n \in names |-> Tables(Suite[n]) @@ [grammar |-> Suite[n]]])

\* Every input up to the length named for the grammar.
Characters(n) ==
  UNION {ToSet(Suite[n].spell[t]) : t \in Terminals(Suite[n])}
    \cup (IF n = "prefix" THEN {Space} ELSE {})
SuiteInputs(names) ==
  Eager([n \in names |-> UNION {[1..k -> Characters(n)] : k \in 0..Suite[n].len}])

\* The problem of GSS for each of the grammars and its inputs.
SuiteProblem(inputs) ==
  LET tables == SuiteTable(DOMAIN inputs)
  IN  Eager([n \in DOMAIN inputs |-> Eager([i \in inputs[n] |->
        [rules |-> Suite[n].rules, items |-> tables[n].items, goto |-> tables[n].goto,
         tokens |-> TokenSpans(Suite[n], i, Space),
         start |-> SkipBlanks(i, Space, 0), end |-> Len(i),
         derived |-> Derived(Suite[n], i, Space)]])])
=============================================================================

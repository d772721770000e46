------------------------------- MODULE MCLex -------------------------------
(***************************************************************************)
(* Scanners of up to three terminals, on short texts, against the words    *)
(* the terminals denote.                                                   *)
(***************************************************************************)
EXTENDS Lex

CONSTANTS Menu,     \* which inputs: "steady", "alive", "order", "case" or "stacks"
          Longest   \* of the words compared

W == INSTANCE Words

-----------------------------------------------------------------------------
(* Terminals                                                               *)
C(c) == <<Class({c})>>
Op(op) == <<Operator(op)>>
Str(reg) == [kind |-> "string", text |-> reg, fold |-> FALSE, prio |-> 0, scan |-> "ALL"]
Reg(reg) == [Str(reg) EXCEPT !.kind = "regex"]
IgnoringCase(t) == [t EXCEPT !.fold = TRUE]
WithPriority(t, n) == [t EXCEPT !.prio = n]
AB == <<Class({"a", "b"})>>

\* Whatever follows one of its words, if it can still lead to another, is another: what
\* "alive" lacks.  The string that ignores case is after those that do not: see "case".
Steady == << Str(C("a")), Str(C("a") \o C("b")), WithPriority(Str(C("b")), 1), IgnoringCase(Str(C("a") \o C("b"))),
             Reg(C("a") \o Op("+")), Reg(AB \o C("c")), WithPriority(Reg(AB \o Op("+")), -1),
             Reg(C("a") \o Op("+") \o Op("/") \o C("b")) >>
Texts == {<<"a">>, <<"a", "b">>, <<"A", "b">>, <<"b", "c">>, <<"a", "a", "b">>, <<"a", "b", "a">>, <<"a", "b", "c">>,
          <<"b", "b", "a", "c">>, <<"a", "a", "a", "b">>, <<"a", "c", "b">>}

-----------------------------------------------------------------------------
(* Inputs                                                                  *)
Acts(ks) == [j \in DOMAIN ks |-> [term |-> ks[j], index |-> j]]
KindOf(ts, ks) ==
  LET kinds == {ts[ks[j]].scan : j \in DOMAIN ks} IN IF Cardinality(kinds) = 1 THEN CHOOSE x \in kinds : TRUE ELSE "MIXED"
Node(ts, ks) == [acts |-> Acts(ks), kind |-> KindOf(ts, ks)]
Input(ts, kss, text0) == [terms |-> ts, nodes |-> [j \in DOMAIN kss |-> Node(ts, kss[j])], text |-> text0]

\* A low priority does not go with a trailing context: see "trailing".
Sets == {S \in (SUBSET (DOMAIN Steady)) \ {{}} : Cardinality(S) <= 3 /\ ({3, 7} \cap S = {} \/ 8 \notin S)}
Ascending(S) == Listed(S, LAMBDA j, k : j < k)
Scans == {[string |-> x, regex |-> y] : <<x, y>> \in {"ALL", "LONGEST"} \X {"ALL", "LONGEST"}}
Declared(scans) == [j \in DOMAIN Steady |-> [Steady[j] EXCEPT !.scan = scans[Steady[j].kind]]]
Stacks == {<<S>> : S \in Sets} \cup {<< {2, 5}, {3, 6} >>, << {1, 6}, {7} >>, << {7}, {1, 2} >>, << {3}, {7} >>}
SteadyInputs ==
  {Input(Declared(scans), [j \in DOMAIN st |-> Ascending(st[j])], text0) : <<scans, st, text0>> \in Scans \X Stacks \X Texts}

Only(ts, text0) == {Input(ts, <<[j \in DOMAIN ts |-> j]>>, text0)}
InputsOf ==
  CASE Menu = "steady" -> SteadyInputs
    \* X: "a(bc)?", after which abd goes on with bd, beside 'ab'
    [] Menu = "alive" -> Only(<<Str(C("a") \o C("b")), Reg(C("a") \o Op("(") \o C("b") \o C("c") \o Op(")") \o Op("?"))>>,
                              <<"a", "b", "d">>)
    \* 'ab', 'abc' and 'abd' are terminals in this order, 'abd' is the first of the items
    [] Menu = "order" -> {[Input(<<Str(C("a") \o C("b") \o C("d")), Str(C("a") \o C("b")), Str(C("a") \o C("b") \o C("c"))>>,
                                 <<<<1, 2, 3>>>>, <<"a", "b", "c", "a">>) EXCEPT !.nodes[1].acts[1].index = 4]}
    \* X: "a+/b" beside Y: "[ab]+" $term -1, and no b
    [] Menu = "trailing" -> Only(<<Reg(C("a") \o Op("+") \o Op("/") \o C("b")), WithPriority(Reg(AB \o Op("+")), -1)>>, <<"a">>)
    \* 'ab'/i before 'a'
    [] Menu = "case" -> Only(<<IgnoringCase(Str(C("a") \o C("b"))), Str(C("a"))>>, <<"A", "c">>)
    \* X: "[a]" $term -1 on one stack, 'a' on another
    [] Menu = "stacks" -> {Input(<<Str(C("a")), WithPriority(Reg(C("a")), -1)>>, <<<<1>>, <<2>>>>, <<"a">>)}
AllInputs == [x \in {Menu} |-> InputsOf]
MCInputs == AllInputs[Menu]

-----------------------------------------------------------------------------
(* What the terminals denote                                               *)
Prefix(n) == SubSeq(text, 1, n)
Matches(t, reg) == LET ws == W!WordsOf(reg, LAMBDA S : IF t.fold THEN Fold(S) ELSE S)
                   IN  {n \in 1..Len(text) : Prefix(n) \in ws}

\* The longest match: it ends at end, which is before its trailing context.
SlashOf(reg) == {k \in DOMAIN reg : reg[k].op = "/"}
WholeOf(t) == Matches(t, SelectSeq(t.text, LAMBDA e : e.op # "/"))
EndOf(t, whole) ==
  IF SlashOf(t.text) = {} THEN MaxOf(whole) ELSE MaxOf(Matches(t, SubSeq(t.text, 1, MaxOf(SlashOf(t.text)) - 1)))
Candidates(k) ==
  UNION {{[node |-> k, term |-> x, len |-> MaxOf(whole), all |-> whole, end |-> EndOf(terms[x], whole)] :
            whole \in {WholeOf(terms[x])} \ {{}}} : x \in {a.term : a \in ToSet(nodes[k].acts)}}

\* What node k finds: of the terms that match, those that no term of the node with a
\* higher priority matches at the same end, and of these what its scan kind keeps.
Best(cs) == {c \in cs : \A d \in cs : c.len \in d.all => terms[d.term].prio <= terms[c.term].prio}
KeptOf(kind, best, atEnd) ==
  CASE kind = "ALL" -> best
    [] kind = "LONGEST" -> atEnd
    [] kind = "MIXED" -> IF \E c \in atEnd : terms[c.term].scan = "LONGEST" THEN atEnd
                         ELSE {c \in best : terms[c.term].scan = "ALL"}
Denoted(k) ==
  UNION {UNION {{[node |-> c.node, term |-> c.term, end |-> c.end] :
                   c \in KeptOf(nodes[k].kind, best, {c \in best : \A d \in best : d.len <= c.len})} :
                best \in {Best(cs)}} : cs \in {Candidates(k)}}
DenotedByAll == UNION {Denoted(k) : k \in DOMAIN nodes}

ChosenSet == {[node |-> chosen[j].node, term |-> chosen[j].act.term, end |-> chosen[j].end] : j \in DOMAIN chosen}

\* Each stack shifts the longest match of each terminal that its state expects, but for
\* those a higher priority or, where it is declared, a longer match excludes
\* (docs/manual.md, Terminals, Longest Match).
ShiftsMatches ==
  settled => \A all \in {DenotedByAll} :
    ChosenSet = {c \in all : \A d \in all : d.end = c.end => terms[d.term].prio <= terms[c.term].prio}

\* A terminal that a stack expects is not hidden by one that only another stack expects
\* (docs/manual.md, Tokenizers).
StacksApart == settled => ChosenSet = DenotedByAll
=============================================================================

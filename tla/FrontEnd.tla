------------------------------ MODULE FrontEnd ------------------------------
(***************************************************************************)
(* The calls by which the actions of grammar.g build a grammar (gram.c     *)
(* 13-21, 399-549), and what is done to it before its tables are built.    *)
(*                                                                         *)
(* The Grammar under construction is the record b:                         *)
(*   prods   the productions [name, internal, rules] in their order        *)
(*   p, r    the production and the rule being read                        *)
(*   outer   the <<p, r>> of the groups that are open, the inner one first *)
(*   right   right_recursive_BNF                                           *)
(* internal is "not", "hidden", "conditional", "star" or "plus".           *)
(***************************************************************************)
EXTENDS Grammar, TLC

NewRule(p) == [lhs |-> p, rhs |-> <<>>, assoc |-> {}, prio |-> 0, opAssoc |-> {}, opPrio |-> 0, act |-> 0]

\* initialize_productions: "0 Start" is S' here.
NoProductions(right) ==
  [prods |-> <<[name |-> "S'", internal |-> "hidden", rules |-> <<>>]>>,
   p |-> "", r |-> NewRule(""), outer |-> <<>>, right |-> right]

IndexOf(b, name) ==
  LET at == {k \in DOMAIN b.prods : b.prods[k].name = name} IN IF at = {} THEN 0 ELSE MinOf(at)

\* new_production: the one of this name, or a new one at the end.
NewProduction(b, name) ==
  [b EXCEPT !.p = name,
            !.prods = IF IndexOf(b, name) # 0 THEN @
                      ELSE Append(@, [name |-> name, internal |-> "not", rules |-> <<>>])]

-----------------------------------------------------------------------------
(* Internal productions.                                                   *)

\* new_internal_production: behind its parent, or at the end if it has none.
InternalName(b, parent) ==
  (IF parent = "" THEN " _synthetic" ELSE parent) \o "__" \o ToString(Len(b.prods))
NewInternal(b, parent, internal, rules) ==
  LET new == [name |-> InternalName(b, parent), internal |-> internal, rules |-> rules]
  IN  [b EXCEPT !.prods = InsertAt(@, IF parent = "" THEN Len(@) + 1 ELSE IndexOf(b, parent) + 1, new)]

\* A new internal production takes the place of the last element; the right-hand sides
\* are given by its name and that element.
Replace(b, internal, Rhss(_, _)) ==
  LET name == InternalName(b, b.p)
      rhss == Rhss(name, Last(b.r.rhs))
      rules == [k \in DOMAIN rhss |-> [NewRule(name) EXCEPT !.rhs = rhss[k]]]
  IN  [NewInternal(b, b.p, internal, rules) EXCEPT !.r.rhs = Append(Front(@), name)]

\* conditional_EBNF, star_EBNF, plus_EBNF and rep_EBNF.  (plus_EBNF also hands on the
\* rank of the rule, which grammar.g has not read when it reads the modifier.)
Recursive(b, name, elem) == IF b.right THEN <<elem, name>> ELSE <<name, elem>>
Conditional(b) == Replace(b, "conditional", LAMBDA name, elem : << <<elem>>, <<>> >>)
Star(b) == Replace(b, "star", LAMBDA name, elem : <<Recursive(b, name, elem), <<>> >>)
Plus(b) == Replace(b, "plus", LAMBDA name, elem : <<Recursive(b, name, elem), <<elem>> >>)
Mutant_Rep(b, min, max) ==     \* never the longest
  Replace(b, "hidden", LAMBDA name, elem : [k \in 1..(max - min + 1) |-> [j \in 1..min |-> elem]])
Rep(b, min, max) ==
  Replace(b, "hidden", LAMBDA name, elem :
    [k \in 1..((IF max < min THEN min ELSE max) - min + 1) |-> [j \in 1..(min + k - 1) |-> elem]])

-----------------------------------------------------------------------------
(* The actions of grammar.g.                                               *)
AddElem(b, X) == [b EXCEPT !.r.rhs = Append(@, X)]

OpenGroup(b) ==
  [NewInternal(b, b.p, "hidden", <<>>) EXCEPT !.outer = <<<<b.p, b.r>>>> \o @,
                                              !.p = InternalName(b, b.p)]
CloseGroup(b) ==
  AddElem([b EXCEPT !.p = Head(b.outer)[1], !.r = Head(b.outer)[2], !.outer = Tail(@)], b.p)

StartRule(b) == [b EXCEPT !.r = NewRule(b.p)]
EndRule(b) == [b EXCEPT !.prods[IndexOf(b, b.p)].rules = Append(@, b.r)]

\* An action among the elements is the final code of an empty production of its own.
Midway(b, act) ==
  LET name == InternalName(b, "")
  IN  AddElem(NewInternal(b, "", "hidden", <<[NewRule(name) EXCEPT !.act = act]>>), name)

FinalCode(b, act) == [b EXCEPT !.r.act = act]
RuleAssoc(b, assoc) == [b EXCEPT !.r.assoc = assoc]
OpAssoc(b, assoc) == [b EXCEPT !.r.opAssoc = assoc]
\* rule_priority: a priority belongs to the operator if the rule is one.
Priority(b, prio) ==
  IF b.r.opAssoc # {} THEN [b EXCEPT !.r.opPrio = prio]
  ELSE [b EXCEPT !.r.prio = prio, !.r.assoc = IF @ = {} THEN {"no"} ELSE @]

\* One call; c[1] names it.
Do(b, c) ==
  CASE c[1] = "production" -> NewProduction(b, c[2])
    [] c[1] = "rule" -> StartRule(b)
    [] c[1] = "end" -> EndRule(b)
    [] c[1] = "elem" -> AddElem(b, c[2])
    [] c[1] = "(" -> OpenGroup(b)
    [] c[1] = ")" -> CloseGroup(b)
    [] c[1] = "?" -> Conditional(b)
    [] c[1] = "*" -> Star(b)
    [] c[1] = "+" -> Plus(b)
    [] c[1] = "@" -> Rep(b, c[2], c[3])
    [] c[1] = "midway" -> Midway(b, c[2])
    [] c[1] = "code" -> FinalCode(b, c[2])
    [] c[1] = "assoc" -> RuleAssoc(b, c[2])
    [] c[1] = "op" -> OpAssoc(b, c[2])
    [] c[1] = "priority" -> Priority(b, c[2])

-----------------------------------------------------------------------------
\* finish_productions and resolve_grammar: the start is the first production read, and
\* the rules are numbered in the order of the productions.  An element is a production
\* or one of the terminals of spell.
Finish(b) == [b EXCEPT !.prods[1].rules = Append(@, [NewRule("S'") EXCEPT !.rhs = <<b.prods[2].name>>])]

Resolved(b, spell) ==
  LET prods == Finish(b).prods
      Internal == {prods[k].name : k \in {i \in DOMAIN prods : prods[i].internal # "not"}}
  IN  [rules |-> FlattenSeq([k \in DOMAIN prods |-> prods[k].rules]), spell |-> spell,
       ops |-> [t \in DOMAIN spell |-> NoOp], ranks |-> {},
       internal |-> [A \in Internal |-> prods[IndexOf(b, A)].internal]]

Build(calls, spell, right) == Resolved(FoldLeft(Do, NoProductions(right), calls), spell)
=============================================================================

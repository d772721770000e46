------------------------------- MODULE Regex -------------------------------
(***************************************************************************)
(* Regular expressions: the NFA lex.c builds for one, and the regular      *)
(* expression gram.c makes of a regex production.                          *)
(*                                                                         *)
(* A regular expression is a sequence of tokens [op, chars]: op is "(",    *)
(* ")", "|", "?", "*", "+", "/", or "set", a character or a class that     *)
(* stands for chars.  The NFA under construction is the record m:          *)
(*   n        its number of states, which are 1..n                         *)
(*   edges    the set of <<from, character, to>>                           *)
(*   eps      the set of <<from, to>> without a character                  *)
(*   accepts  the <<state, action>> in the order they were added           *)
(***************************************************************************)
EXTENDS Helpers

Ops == {"(", ")", "|", "?", "*", "+", "/"}
Operator(op) == [op |-> op, chars |-> {}]
Class(S) == [op |-> "set", chars |-> S]

\* Letters and their other case, for /i.
CaseOf == [a |-> "A", b |-> "B", A |-> "a", B |-> "b"]
Fold(S) == S \cup {CaseOf[c] : c \in S \cap DOMAIN CaseOf}

-----------------------------------------------------------------------------
(* build_regex_nfa.  The open calls are frames, the inner one first: the   *)
(* expression leads from state pp to state nn, and the element just read   *)
(* from p to s.                                                            *)

EmptyNFA == [n |-> 0, edges |-> {}, eps |-> {}, accepts |-> <<>>]
NewState(m) == [m EXCEPT !.n = @ + 1]
Edge(m, from, S, to) == [m EXCEPT !.edges = @ \cup ({from} \X S \X {to})]
Eps(m, from, to) == [m EXCEPT !.eps = @ \cup {<<from, to>>}]

\* A call, or an alternative, starts at a new state.
Branch(m, f) == [Eps(NewState(m), f.pp, m.n + 1) EXCEPT !.frames = <<[f EXCEPT !.p = m.n + 1, !.s = m.n + 1]>> \o @]
Top(m) == Head(m.frames)
Rest(m) == [m EXCEPT !.frames = Tail(@)]
Reach(m, x) == [m EXCEPT !.frames = <<[Top(m) EXCEPT !.p = Top(m).s, !.s = x]>> \o Tail(@)]

\* The closing parenthesis only ends the call: its frame gives way to the caller's.
Close(m) == Reach(Rest(Eps(m, Top(m).s, Top(m).nn)), Top(m).nn)

\* The repetitions go back from s to p and past them both; p and s belong to the
\* elements before and after this one, too.
Mutant_Repeat(m, f, op) ==    \* a star that is no more than an option
  IF op \in {"?", "*"} THEN Eps(m, f.p, f.s) ELSE Eps(m, f.s, f.p)
Repeat(m, f, op) ==
  CASE op = "?" -> Eps(m, f.p, f.s)
    [] op = "*" -> Eps(Eps(m, f.p, f.s), f.s, f.p)
    [] op = "+" -> Eps(m, f.s, f.p)

ReadToken(m, t, trailing, ignoreCase) ==
  LET f == Top(m)
  IN  CASE t.op = "(" -> Branch(NewState(m), [pp |-> f.s, nn |-> m.n + 1, p |-> 0, s |-> 0])
        [] t.op = ")" -> Close(m)
        [] t.op = "|" -> Branch(Rest(Eps(m, f.s, f.nn)), f)
        [] t.op = "/" -> [m EXCEPT !.accepts = Append(@, <<f.s, trailing>>)]
        [] t.op = "set" -> Reach(Edge(NewState(m), f.s, IF ignoreCase THEN Fold(t.chars) ELSE t.chars, m.n + 1), m.n + 1)
        [] OTHER -> Repeat(m, f, t.op)

\* The expression from state pp to state nn of m.
Frames(m) == m @@ [frames |-> <<>>]
Returned(m, nn) == Eps(m, Top(m).s, nn)
WithoutFrames(m) == [n |-> m.n, edges |-> m.edges, eps |-> m.eps, accepts |-> m.accepts]
BuildRegex(m, reg, pp, nn, trailing, ignoreCase) ==
  LET start == Branch(Frames(m), [pp |-> pp, nn |-> nn, p |-> 0, s |-> 0])
  IN  WithoutFrames(Returned(FoldSteps(LAMBDA u, t : ReadToken(u, t, trailing, ignoreCase), start, reg), nn))

-----------------------------------------------------------------------------
(* The NFA as a machine: nfa_closure and the moves of nfa_to_scanner.      *)
ClosureOf(m, X) ==
  LeastFixpoint(LAMBDA Y : {e[2] : e \in {d \in m.eps : d[1] \in Y}}, 1..m.n, X)
Move(m, X, c) == ClosureOf(m, {e[3] : e \in {d \in m.edges : d[1] \in X /\ d[2] = c}})

Accepting(m, X) == \E k \in DOMAIN m.accepts : m.accepts[k][1] \in X
Accepts(m, from, word) == Accepting(m, FoldSteps(LAMBDA X, c : Move(m, X, c), ClosureOf(m, {from}), word))

-----------------------------------------------------------------------------
(* convert_regex_production_one (gram.c 880-984).  A regex production is   *)
(* the sequence of its rules; an element is [nterm] or [term, string],     *)
(* where a string has nothing to escape here.                              *)
Parens(reg) == <<Operator("(")>> \o reg \o <<Operator(")")>>
ParensIf(condition, reg) == IF condition THEN Parens(reg) ELSE reg

\* A circular production is a list: one rule of two elements, the first of which is the
\* production, and one that is empty or has the second as its element.
IsCircular(name, rules) == \E j \in DOMAIN rules : \E k \in DOMAIN rules[j] : rules[j][k].nterm = name
ListRule(rules) == IF Len(rules[1]) = 2 THEN 1 ELSE 2
IsList(name, rules) ==
  /\ Len(rules) = 2
  /\ LET r == rules[ListRule(rules)]
         rr == rules[3 - ListRule(rules)]
     IN  Len(r) = 2 /\ r[1].nterm = name /\ Len(rr) <= 1 /\ (rr # <<>> => rr[1] = r[2])

\* The tokens of production name; prods gives the rules of each.
Alternatives(rules, TextOf(_)) ==
  LET Rule(elems) == ParensIf(Len(elems) > 1, FlattenSeq([k \in DOMAIN elems |-> TextOf(elems[k])]))
      parts == [j \in DOMAIN rules |-> IF j = Len(rules) THEN Rule(rules[j]) ELSE Rule(rules[j]) \o <<Operator("|")>>]
  IN  ParensIf(Len(rules) > 1, FlattenSeq(parts))

RegexOf(prods, name0) ==
  LET text[name \in DOMAIN prods] ==
        LET rules == prods[name]
            TextOf(e) == IF e.nterm = "" THEN e.term ELSE text[e.nterm]
            r == rules[ListRule(rules)]
        IN  IF IsCircular(name, rules)
            THEN Parens(TextOf(r[2])) \o <<Operator(IF Len(rules[1]) + Len(rules[2]) = 2 THEN "*" ELSE "+")>>
            ELSE Alternatives(rules, TextOf)
  IN  text[name0]
=============================================================================

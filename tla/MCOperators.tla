----------------------------- MODULE MCOperators -----------------------------
(***************************************************************************)
(* The GLR engine on expression grammars with priorities and               *)
(* associativities, against the textbook way to parse them: one operator   *)
(* at a time, each operand as long as the operators after it bind tighter. *)
(***************************************************************************)
EXTENDS MCGLR

\* The operators of the grammars as a user means them.  An infix operator is written
\* before its right operand, or is understood before an operand that starts with c; left
\* and prefix operators as strong as the one before an operand do not belong to it, right
\* ones do.
Infix(c, prio, left) == [c |-> c, size |-> 1, strength |-> 2 * prio,
                         demand |-> IF left THEN 2 * prio + 1 ELSE 2 * prio]
Understood(c, prio) == [Infix(c, prio, TRUE) EXCEPT !.size = 0]
Prefix(c, prio) == [c |-> c, demand |-> 2 * prio + 1]

\* In g22 and g23 the sign, the strongest, takes every + (tests/g22.test.g.1.check).
Signed == [infix |-> {Understood("+", 1), Understood("x", 1)}, prefix |-> {Prefix("+", 3)}]
Operators ==
  [calc |-> [infix |-> {Infix("+", 1, TRUE), Infix("*", 2, TRUE), Infix("^", 3, FALSE)}, prefix |-> {Prefix("-", 2)}],
   low  |-> [infix |-> {Infix("+", 2, TRUE)}, prefix |-> {Prefix("!", 1)}],
   g21  |-> [infix |-> {Infix("+", 2, TRUE), Understood("x", 1)}, prefix |-> {Prefix("+", 3)}],
   g22  |-> Signed,
   g23  |-> Signed]
Strongest == 20

\* The expression from i on whose operators outside prefix operands are at least m strong,
\* when the part up to j is known (j = i: nothing): its end, and the spans of its parts;
\* no expression ends at -1.
Climb ==
  LET n == Len(input)
      Next1(S, i) == {op \in S : i < n /\ op.c = input[i + 1]}
      None == [end |-> -1, parts |-> {}]
      Found(rest, part) == IF rest.end = -1 THEN None ELSE [rest EXCEPT !.parts = @ \cup part]
      expr[i \in 0..n, j \in 0..n, m \in 0..Strongest] ==
        LET Operand(k, demand) == IF k < n THEN expr[k, k, demand] ELSE None
            Then(sub) == IF sub.end = -1 THEN None
                         ELSE Found(expr[i, sub.end, m], sub.parts \cup {<<i, sub.end>>})
            infix == {op \in Next1(Operators[g].infix, j) : op.strength >= m}
        IN  CASE j = i /\ input[i + 1] = "x" -> Then([end |-> i + 1, parts |-> {}])
              [] j = i /\ input[i + 1] # "x" ->
                   IF Next1(Operators[g].prefix, i) = {} THEN None
                   ELSE Then(Operand(i + 1, (CHOOSE op \in Next1(Operators[g].prefix, i) : TRUE).demand))
              [] j # i -> IF infix = {} THEN [end |-> j, parts |-> {}]
                          ELSE LET op == CHOOSE op \in infix : TRUE IN Then(Operand(j + op.size, op.demand))
  IN  expr[0, 0, 0]

\* The spans of the statements of usual14, each e with the nearest i.
Nearest ==
  LET n == Len(input)
      Is(c, i) == i < n /\ input[i + 1] = c
      stmt[i \in 0..n] ==
        IF ~Is("i", i) THEN [end |-> i + 1, parts |-> {<<i, i + 1>>}]
        ELSE LET body == stmt[i + 1]
                 else == IF Is("e", body.end) THEN stmt[body.end + 1] ELSE [body EXCEPT !.parts = {}]
             IN  [end |-> else.end, parts |-> body.parts \cup else.parts \cup {<<i, else.end>>}]
  IN  stmt[0]

Parts == {<<p.pn[x].start, p.pn[x].end>> : x \in {y \in Forest : p.pn[y].sym \in {"S", "E", "F"}}}

\* With every way of ranking on (the default), an accepted input has one tree left, the
\* one its priorities and associativities or the longest match give it (docs/manual.md
\* 371-379): whether operators are compared on the stack, below a new node, between
\* whole trees or between whole stacks.
IntendedTree ==
  result = "accept" /\ "priority" \in p.t.ranks =>
    /\ \A x \in Forest : p.pn[x].amb = <<>>
    /\ Parts = (IF g = "usual14" THEN Nearest ELSE Climb).parts
=============================================================================

------------------------------- MODULE Grammar -------------------------------
(***************************************************************************)
(* Context-free grammars as make_dparser sees them after its front end has *)
(* expanded EBNF and tokens (gram.c), and the language they define.        *)
(*                                                                         *)
(* A grammar is a record                                                   *)
(*   rules : a sequence of [lhs, rhs]; the index is Rule.index (gram.c     *)
(*           611-660).  rules[1] is the augmented rule S' -> start of      *)
(*           production 0, and a nonterminal is any left-hand side.  A     *)
(*           rule also has a rank (assoc, prio), an operator (opAssoc,     *)
(*           opPrio), and act, the number of its final code or 0           *)
(*   spell : for every terminal, the characters of its string              *)
(*   ops   : for every terminal, the operator it is                        *)
(*   ranks : how alternatives are ranked, see Priorities                   *)
(*   internal : for the productions that were not written by the user, what *)
(*           they are made for, see FrontEnd                                *)
(* Derived is the reference a parser is compared with: the definition of   *)
(* derivation, on positions of one text, computed as a least fixpoint.    *)
(***************************************************************************)
EXTENDS Helpers

NonTerms(gr) == {gr.rules[r].lhs : r \in DOMAIN gr.rules}
Terminals(gr) == DOMAIN gr.spell
StartSymbol(gr) == gr.rules[1].rhs[1]

RulesOf(gr, A) == {r \in DOMAIN gr.rules : gr.rules[r].lhs = A}

-----------------------------------------------------------------------------
(* Ranks and operators.                                                    *)
NoOp == [assoc |-> {}, prio |-> 0]

\* set_op_priority_from_rule: the last terminal of a rule with an associativity becomes
\* an operator with the rule's rank, as it is before the conversion below.
OpPriorityFromRule(gr) ==
  LET SetOp(ops, rule) ==
        LET terms == SelectSeq(rule.rhs, LAMBDA X : X \in Terminals(gr))
        IN  IF terms = <<>> \/ rule.assoc = {} THEN ops
            ELSE [ops EXCEPT ![Last(terms)] = [assoc |-> rule.assoc, prio |-> rule.prio]]
  IN  FoldLeft(SetOp, gr.ops, gr.rules)

\* convert_priorities (gram.c 1010-1052): $left and $right of a rule that begins or ends
\* with its own production say binary, or unary with the operand on that side; a
\* rank the rule cannot have (d_fail) is not considered.
ConvertPriorities(gr) ==
  LET Converted(rule) ==
        LET n == Len(rule.rhs)
            left == rule.rhs[1] = rule.lhs
            right == rule.rhs[n] = rule.lhs
        IN  IF n < 2 \/ "nary" \notin rule.assoc \/ {"left", "right"} \cap rule.assoc = {} THEN rule
            ELSE CASE left /\ right  -> [rule EXCEPT !.assoc = (@ \ {"nary"}) \cup {"binary"}]
                   [] left /\ ~right -> [rule EXCEPT !.assoc = {"unary", "left"}]
                   [] right /\ ~left -> [rule EXCEPT !.assoc = {"unary", "right"}]
                   [] OTHER -> rule
  IN  [r \in DOMAIN gr.rules |-> Converted(gr.rules[r])]

-----------------------------------------------------------------------------
(* Nullable nonterminals: the definition, and what compute_nullable finds. *)

\* The nonterminals that derive the empty string.
Nullable(gr) ==
  LeastFixpoint(LAMBDA N : {gr.rules[r].lhs : r \in {q \in DOMAIN gr.rules :
                                                      ToSet(gr.rules[q].rhs) \subseteq N}},
                NonTerms(gr), {})

\* compute_nullable (gram.c 574-603): a production with an empty rule is
\* nullable; after that the first rule whose elements are not all nullable
\* ends the visit of its production (goto Lnot_nullable), so only the FIRST
\* rule of a production can make it nullable.
FirstRule(gr, A) == CHOOSE r \in RulesOf(gr, A) : \A q \in RulesOf(gr, A) : r <= q

CodedNullable(gr) ==
  LeastFixpoint(LAMBDA N : {A \in NonTerms(gr) : ToSet(gr.rules[FirstRule(gr, A)].rhs) \subseteq N},
                NonTerms(gr),
                {gr.rules[r].lhs : r \in {q \in DOMAIN gr.rules : gr.rules[q].rhs = <<>>}})

-----------------------------------------------------------------------------
(* Derivation over one text.  Positions are 0..Len(text); a token that   *)
(* ends at j covers the blanks that follow it, as in the parser.           *)

SkipBlanks(text, blank, i) ==
  CHOOSE j \in i..Len(text) :
    /\ \A k \in (i+1)..j : text[k] = blank
    /\ j < Len(text) => text[j+1] # blank

MatchesAt(gr, text, t, i) ==
  /\ i + Len(gr.spell[t]) <= Len(text)
  /\ \A k \in DOMAIN gr.spell[t] : text[i + k] = gr.spell[t][k]

TokenSpans(gr, text, blank) ==
  UNION {{<<t, i, SkipBlanks(text, blank, i + Len(gr.spell[t]))>> : i \in {k \in 0..Len(text) : MatchesAt(gr, text, t, k)}} :
           t \in Terminals(gr)}

\* Where a sequence of symbols that starts at i can end, given the spans X.
EndsOf(X, rhs, i) ==
  FoldSteps(LAMBDA P, s : {x[3] : x \in {y \in X : y[1] = s /\ y[2] \in P}}, {i}, rhs)

\* The spans that a rule makes of the spans X.
Derive(gr, text, X) ==
  UNION {UNION {{<<gr.rules[r].lhs, i, j>> : j \in EndsOf(X, gr.rules[r].rhs, i)} : i \in 0..Len(text)} :
           r \in DOMAIN gr.rules}

\* Every span there could be.
Triples(gr, text) == (NonTerms(gr) \cup Terminals(gr)) \X (0..Len(text)) \X (0..Len(text))

\* All <<symbol, from, to>> such that the symbol derives text[from+1..to].
Derived(gr, text, blank) ==
  LeastFixpoint(LAMBDA X : Derive(gr, text, X), Triples(gr, text), TokenSpans(gr, text, blank))

\* The height of the lowest derivation of each of them.
DerivedHeights(gr, text, blank) ==
  LET from[X \in SUBSET Triples(gr, text), h \in Nat] ==
        LET new == Derive(gr, text, X) \ X
        IN  IF new = {} THEN <<>> ELSE [d \in new |-> h] @@ from[X \cup new, h + 1]
      tokens == TokenSpans(gr, text, blank)
  IN  [d \in tokens |-> 0] @@ from[tokens, 1]

InLanguage(gr, text, blank) ==
  <<StartSymbol(gr), SkipBlanks(text, blank, 0), Len(text)>> \in Derived(gr, text, blank)
=============================================================================

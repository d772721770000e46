------------------------------- MODULE Words -------------------------------
(***************************************************************************)
(* Sets of words no longer than a bound, and what a sequence of alternatives*)
(* with groups and repetitions denotes, read from left to right: the       *)
(* reference for EBNF and for regular expressions.                         *)
(***************************************************************************)
EXTENDS Integers, Sequences, SequencesExt

CONSTANT Longest   \* of the words compared

Short(W) == {w \in W : Len(w) <= Longest}
Then(V, W) == Short({v \o w : <<v, w>> \in V \X W})
Power(W, n) == FoldLeft(LAMBDA V, i : Then(V, W), {<<>>}, [i \in 1..n |-> i])
Powers(W, m, n) == FoldLeft(LAMBDA V, i : Then(V, W \cup {<<>>}), Power(W, m), [i \in 1..(n - m) |-> i])

\* Of each open group, the inner one first: the words of its alternatives so far, of the
\* elements before the last one, and of the last one.
Fresh == [alts |-> {}, before |-> {<<>>}, last |-> {<<>>}]
Nothing == <<Fresh>>
Element(s, W) ==
  <<[Head(s) EXCEPT !.before = Then(Head(s).before, Head(s).last), !.last = W]>> \o Tail(s)
Repeated(s, m, n) == <<[Head(s) EXCEPT !.last = Powers(@, m, n)]>> \o Tail(s)
EndAlternative(s) ==
  <<[Fresh EXCEPT !.alts = Head(s).alts \cup Then(Head(s).before, Head(s).last)]>> \o Tail(s)
Open(s) == <<Fresh>> \o s
CloseGroup(s) == Element(Tail(s), Head(s).alts)

\* The words of a regular expression, a sequence of tokens [op, chars]; Of gives the
\* characters a token stands for.
WordsOf(tokens, Of(_)) ==
  LET Denote(s, t) ==
        CASE t.op = "set" -> Element(s, {<<c>> : c \in Of(t.chars)})
          [] t.op = "(" -> Open(s)
          [] t.op = ")" -> CloseGroup(EndAlternative(s))
          [] t.op = "|" -> EndAlternative(s)
          [] t.op = "?" -> Repeated(s, 0, 1)
          [] t.op = "*" -> Repeated(s, 0, Longest)
          [] t.op = "+" -> Repeated(s, 1, Longest + 1)
  IN  EndAlternative(FoldLeft(Denote, Nothing, tokens))[1].alts
=============================================================================

------------------------------ MODULE MCRegex ------------------------------
(***************************************************************************)
(* The NFA of regular expressions and of regex productions, built token by *)
(* token, against the words they denote.                                   *)
(***************************************************************************)
EXTENDS Regex

CONSTANTS Longest,    \* of the words compared
          Shape       \* "apart": no repeated element follows another; "any"

VARIABLES source, denoted, reg, fold, read, m
vars == <<source, denoted, reg, fold, read, m>>

W == INSTANCE Words

Alphabet == {"a", "b"}
Letters == IF fold THEN {"A", "b"} ELSE Alphabet    \* of the words
C(c) == <<Class({c})>>
Op(op) == <<Operator(op)>>
Or(x, y) == x \o Op("|") \o y

-----------------------------------------------------------------------------
(* Regular expressions of up to three elements.                            *)
Bases == {C("a"), <<Class(Alphabet)>>, Parens(C("a") \o C("b")), Parens(Or(C("a"), C("b") \o C("b"))),
          Parens(C("a") \o Op("*") \o C("b")), Parens(Parens(Or(C("b") \o Op("+"), <<>>)) \o C("a"))}
Modifiers == {<<>>, Op("?"), Op("*"), Op("+"), Op("+") \o Op("?")}
Elements == {base \o mods : <<base, mods>> \in Bases \X Modifiers}
Seconds == {C("b") \o mods : mods \in Modifiers}
Loops(elem) == elem # <<>> /\ \E k \in {Len(elem) - 1, Len(elem)} \cap DOMAIN elem : elem[k].op \in {"*", "+"}

\* x y, x | y, x y z and (x y)*, apart if it is required.
Follows(x, y) == Shape = "any" \/ ~(Loops(x) /\ Loops(y))
Expressions ==
  UNION {{x \o y : y \in {z \in Seconds \cup {<<>>} : Follows(x, z)}} \cup {Or(x, y) : y \in Seconds}
           \cup {x \o y \o C("a") \o Op("*") : y \in {z \in Seconds : Follows(x, z) /\ Follows(z, C("a") \o Op("*"))}}
           \cup {Parens(x \o y) \o Op("*") : y \in {z \in Seconds : Follows(x, z)}} : x \in Elements}

WordsOf(tokens) == W!WordsOf(tokens, LAMBDA S : Letters \cap (IF fold THEN Fold(S) ELSE S))

-----------------------------------------------------------------------------
(* Regex productions A and B, where A may refer to B and to itself.        *)
Text(tokens) == [nterm |-> "", term |-> tokens]
Name(A) == [nterm |-> A, term |-> <<>>]
Plain == {Text(C("a")), Text(C("b")), Text(C("a") \o C("b")), Text(C("b") \o Op("*"))}
Given == IF Shape = "any" THEN Plain \cup {Text(Or(C("a"), C("b")))} ELSE Plain
Rules(S) == {<<>>} \cup {<<x>> : x \in S} \cup {<<x, y>> : <<x, y>> \in S \X {Text(C("a")), Name("B")} \cap S \X S}
Productions(S) == {<<r>> : r \in Rules(S)} \cup {<<q, r>> : <<q, r>> \in Rules(S) \X Rules(S)}
ListsOf(A, x) == {<< <<Name(A), x>>, <<>> >>, << <<>>, <<Name(A), x>> >>, << <<Name(A), x>>, <<x>> >>,
                  << <<x>>, <<Name(A), x>> >>}
Sets == {[A |-> as, B |-> bs] :
           <<as, bs>> \in (Productions({Text(C("a")), Text(C("a") \o C("b")), Name("B")}) \cup ListsOf("A", Name("B"))
                              \cup ListsOf("A", Text(C("a"))))
                          \X ({<< <<x>> >> : x \in Given} \cup {<< <<x>>, <<Text(C("b"))>> >> : x \in Given}
                              \cup ListsOf("B", Text(C("b"))))}

WordsOfProduction(prods, name0) ==
  LET words[name \in DOMAIN prods] ==
        LET rules == prods[name]
            Of(e) == IF e.nterm = "" THEN WordsOf(e.term) ELSE words[e.nterm]
            r == rules[ListRule(rules)]
        IN  IF IsCircular(name, rules)
            THEN W!Powers(Of(r[2]), IF rules[3 - ListRule(rules)] = <<>> THEN 0 ELSE 1, Longest + 1)
            ELSE UNION {FoldLeft(LAMBDA V, e : W!Then(V, Of(e)), {<<>>}, rules[j]) : j \in DOMAIN rules}
  IN  words[name0]

-----------------------------------------------------------------------------
\* The NFA leads from state 1 to state 2, which accepts.
Start == [Frames(EmptyNFA) EXCEPT !.n = 2, !.accepts = << <<2, "match">> >>]
Begin == read = 0 /\ m = Branch(Start, [pp |-> 1, nn |-> 2, p |-> 0, s |-> 0])

InitExpressions == /\ reg \in Expressions /\ source = reg
                   /\ fold \in BOOLEAN
                   /\ denoted = WordsOf(reg) /\ Begin
InitProductions == /\ source \in Sets /\ fold = FALSE
                   /\ reg = RegexOf(source, "A") /\ denoted = WordsOfProduction(source, "A") /\ Begin
Read == /\ read < Len(reg)
        /\ read' = read + 1
        /\ m' = ReadToken(m, reg[read + 1], "trailing", fold)
        /\ UNCHANGED <<source, denoted, reg, fold>>
End == /\ read = Len(reg)
       /\ read' = read + 1
       /\ m' = Eps(m, Top(m).s, 2)
       /\ UNCHANGED <<source, denoted, reg, fold>>
Next == Read \/ End
Init == InitExpressions \/ InitProductions
Spec == Init /\ [][Next]_vars

Words == UNION {[1..n -> Letters] : n \in 0..Longest}

\* The NFA has exactly the words of the expression, however groups, alternatives and
\* repetitions nest; and the expression that is written for a regex production has the
\* words of its rules (docs/manual.md, Regular Expressions).
SameWords == read > Len(reg) => {w \in Words : Accepts(m, 1, w)} = denoted \cap Words
=============================================================================

----------------------------- MODULE MCFrontEnd -----------------------------
(***************************************************************************)
(* The expansion of EBNF: every production S of up to two elements with    *)
(* groups and modifiers, read call by call.                                *)
(***************************************************************************)
EXTENDS FrontEnd

CONSTANT Longest   \* of the words compared

VARIABLES source, read, b
vars == <<source, read, b>>

Terms == [a |-> <<"a">>, b |-> <<"b">>]

\* Elements: a terminal; a sequence, a choice and an empty choice in parentheses, and
\* one with a modifier inside.
E(X) == <<"elem", X>>
Rule(elems) == <<<<"rule">>>> \o elems \o <<<<"end">>>>
Group(rules) == <<<<"(">>>> \o FlattenSeq([k \in DOMAIN rules |-> Rule(rules[k])]) \o <<<<")">>>>
Bases == {<<E("a")>>, Group(<< <<E("a"), E("b")>> >>), Group(<< <<E("a")>>, <<E("b")>> >>),
          Group(<< <<E("b"), E("a")>>, <<>> >>), Group(<< <<E("a"), E("b"), <<"*">>>> >>),
          Group(<< Group(<< <<E("a"), <<"+">>>>, <<E("b"), E("b")>> >>) \o <<<<"?">>>> >>)}
Modifiers == {<<>>, << <<"?">> >>, << <<"*">> >>, << <<"+">> >>, << <<"@", 2, -1>> >>,
              << <<"@", 1, 2>> >>, << <<"@", 0, 1>>, <<"+">> >>}
Elements == {base \o mods : <<base, mods>> \in Bases \X Modifiers}

Sources == {<<<<"production", "S">>>> \o Rule(x \o y) :
              <<x, y>> \in Elements \X ({<<>>} \cup {<<E("b")>> \o mods : mods \in Modifiers})}

Init == /\ source \in Sources
        /\ read = 0
        /\ b \in {NoProductions(right) : right \in BOOLEAN}
Read == /\ read < Len(source)
        /\ read' = read + 1
        /\ b' = Do(b, source[read + 1])
        /\ UNCHANGED source
Spec == Init /\ [][Read]_vars

-----------------------------------------------------------------------------
W == INSTANCE Words

\* The words the calls denote.
Denote(s, c) ==
  CASE c[1] = "elem" -> W!Element(s, {<<c[2]>>})
    [] c[1] = "(" -> W!Open(s)
    [] c[1] = ")" -> W!CloseGroup(s)
    [] c[1] = "end" -> W!EndAlternative(s)
    [] c[1] = "?" -> W!Repeated(s, 0, 1)
    [] c[1] = "*" -> W!Repeated(s, 0, Longest)
    [] c[1] = "+" -> W!Repeated(s, 1, Longest + 1)
    [] c[1] = "@" -> W!Repeated(s, c[2], IF c[3] = -1 THEN c[2] ELSE c[3])
    [] OTHER -> s
Denoted(calls) == FoldLeft(Denote, W!Nothing, calls)[1].alts

Words == UNION {[1..n -> {"a", "b"}] : n \in 0..Longest}

\* The grammar built for a production has the words that its EBNF denotes, with
\* left-recursive and with right-recursive lists, however modifiers and groups nest: an
\* element is replaced while its rule is read, and internal productions are put between
\* others (docs/manual.md, EBNF Constructs).
SameLanguage ==
  read = Len(source) =>
    LET gr == Resolved(b, Terms)
    IN  {w \in Words : InLanguage(gr, w, " ")} = Denoted(source)
=============================================================================

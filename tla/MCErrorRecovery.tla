--------------------------- MODULE MCErrorRecovery ---------------------------
(***************************************************************************)
(* Error recovery on statement lists, every text up to a bound, against    *)
(* the derivations in which a rule may be broken off and the text up to    *)
(* its last string be skipped.                                             *)
(***************************************************************************)
EXTENDS ErrorRecovery, Suite

Newline == "n"
List == <<R("P", <<"L">>), R("L", <<"L", "S">>), R("L", <<>>)>>
Broken ==
  [ \* statements, two to a rule
    list |-> G("P", Letters({"a", "b", ";"}), 5, List \o <<R("S", <<"A", ";">>), R("A", <<"a", "b">>)>>),
    \* blocks: the marks are nested
    block |-> G("P", Letters({"x", ";", "{", "}"}), 5,
                List \o <<R("S", <<"x", ";">>), R("S", <<"{", "L", "}">>)>>),
    \* the list is what is parsed, and each of its ends accepts
    open |-> G("L", Letters({"a", "b", ";"}), 5,
               <<R("L", <<"L", "S">>), R("L", <<>>), R("S", <<"a", "b", ";">>)>>),
    \* one statement
    one |-> G("S", Letters({"a", "b", ";"}), 4, <<R("S", <<"A", ";">>), R("A", <<"a", "b">>)>>),
    \* two rules with the same mark in one state
    shared |-> G("P", Letters({"x", "y", "w", ";"}), 4,
                 List \o <<R("S", <<"x", "B", ";">>), R("B", <<"w", ";">>)>>),
    \* stacks at two locations
    lengths |-> G("P", [t1 |-> <<"p">>, t2 |-> <<"p", "p", "p">>, q |-> <<"q">>], 5,
                  List \o <<R("S", <<"t1", "q">>), R("S", <<"t2", "q">>)>>) ]

TableOf(gr) ==
  LET t == Tables(gr)
  IN  t @@ [grammar |-> gr, errorHints |-> Eager([s \in DOMAIN t.items |-> HintsOf(gr, t.items[s])])]
Tabled == Eager([n \in Grammars |-> TableOf(Broken[n])])
MCTable == Tabled
CharactersOf(n) ==
  UNION {ToSet(Broken[n].spell[t]) : t \in Terminals(Broken[n])} \cup (IF n = "block" THEN {} ELSE {Newline})
Texts == Eager([n \in Grammars |-> UNION {[1..k -> CharactersOf(n)] : k \in 0..Broken[n].len}])
MCInputs == Texts
Sentence == Eager([n \in Grammars |-> {i \in Texts[n] : InLanguage(Broken[n], i, Blank)}])

-----------------------------------------------------------------------------
\* A sentence is accepted without a syntax error, and the parse of another text, where all
\* tokens have one length, leaves syntax_errors above 0: "how many syntax errors ... this
\* final value should be checked to see if the parse was successful" (docs/manual.md
\* 711-712).
SameLengths == \A t, u \in DOMAIN p.t.spell : Len(p.t.spell[t]) = Len(p.t.spell[u])
ErrorsReported ==
  IF input \in Sentence[g] THEN result # "error" /\ errors = 0
  ELSE SameLengths /\ parses > 0 => errors > 0

\* So does each parse with the same parser, and with tokens of different lengths.
EachReported == input \notin Sentence[g] => errors >= parses

\* Every repair takes the parse farther than the one before, past what it could read:
\* no parse is repaired forever.
Advances ==
  \A k \in DOMAIN repairs : /\ repairs[k].at < repairs[k].to
                            /\ k > 1 => repairs[k - 1].to <= repairs[k].at

\* Where a word that is in the text from i on ends.
MarkEnds(i, word) == {j \in (i + Len(word))..Len(input) : Agrees(word, j - Len(word), Len(word))}

\* Where a rule is broken off after some of its elements, which end no later than the
\* error, and goes on after its last string.
Skips(X, gr) ==
  {<<gr.rules[r].lhs, i, rep.to>> : <<r, i, rep>> \in
     {s \in (DOMAIN gr.rules) \X (0..Len(input)) \X ToSet(repairs) :
        LET rhs == gr.rules[s[1]].rhs
        IN  /\ Terminated(gr, s[1])
            /\ \E j \in MarkEnds(s[3].at, gr.spell[Last(rhs)]) : White(j) = s[3].to
            /\ \E d \in 0..Len(rhs) : \E m \in EndsOf(X, SubSeq(rhs, 1, d), s[2]) : m <= s[3].at}}

DerivedBroken(gr) ==
  LET At == 0..Len(input)
      Apply(X) == UNION {{<<gr.rules[r].lhs, i, j>> : j \in EndsOf(X, gr.rules[r].rhs, i)} :
                           <<r, i>> \in (DOMAIN gr.rules) \X At} \cup Skips(X, gr)
  IN  LeastFixpoint(Apply, (NonTerms(gr) \cup Terminals(gr)) \X At \X At, TokenSpans(gr, input, Blank))

\* What is accepted with errors is a sentence of the grammar with a rule broken off at each.
Repaired ==
  result = "accept" /\ repairs # <<>> =>
    <<StartSymbol(Broken[g]), White(0), Len(input)>> \in DerivedBroken(Broken[g])

\* The tree that is returned is one of the start symbol, and ends with the text: the
\* error reduction must "intercept standard parsing" (RECOVERY_AND_EPSILON_HINTS.md 37).
WholeTree ==
  result = "accept" =>
    \A z \in ToSet(p.sn[p.accept].zns) : /\ p.pn[p.zn[z].pn].sym = StartSymbol(Broken[g])
                                         /\ p.pn[p.zn[z].pn].skip = Len(input)

\* Some stack has begun a rule whose last string is in the rest of the text: "it queries
\* any existing node" and "forcefully splices the token root over"
\* (RECOVERY_AND_EPSILON_HINTS.md 34-37).
CanSkip ==
  LET Under(X) == UNION {ToSet(p.zn[z].sns) : z \in UNION {ToSet(p.sn[s].zns) : s \in X}}
  IN  \E s \in LeastFixpoint(Under, DOMAIN p.sn, p.lastS) : \E it \in p.t.items[StateOf(p, s)] :
        /\ Terminated(Broken[g], it[1])
        /\ MarkEnds(ErrorLoc(p), Broken[g].spell[Terminator(Broken[g], it[1])]) # {}

\* An error is not the end of a parse that a rule's last string could be skipped to.
Recovers == [][Stuck /\ ~Accepting(p) /\ p.lastS # {} /\ CanSkip => result' # "error"]_allVars
=============================================================================

---------------------------- MODULE MCActionCode ----------------------------
(***************************************************************************)
(* Every short text over the characters that matter, and the escapes in    *)
(* each of their forms.                                                    *)
(***************************************************************************)
EXTENDS ActionCode

MCProductions == <<"S", "E">>
MCTerminals == <<[string |-> "first", isString |-> TRUE], [string |-> "second", isString |-> TRUE],
                 [string |-> "third", isString |-> FALSE]>>
MCPasses == <<"sort", "emit">>

C(text, n) == [text |-> text, global |-> FALSE, n |-> n]
G(text) == [text |-> text, global |-> TRUE, n |-> 0]
Chars == {Quote, Backslash, "$", "/", "*", "nl", "g"}
ShortTexts == {C(t, 2) : t \in UNION {[1..k -> Chars] : k \in 0..5}}

\* An escape in each of its forms, in the middle of some code.
Brace(w) == <<"$", "{", w, "}">>
BraceArgs(w, args) == <<"$", "{", w, " ">> \o args \o <<"}">>
Forms ==
  {<<"$", "n">>, <<"$", "#">>, <<"$", "c">>, <<"$", "g">>, <<"$", "$">>,
   Brace("reject"), Brace("free_below"), Brace("scope"), Brace("parser"), Brace("other"), Brace("child"),
   BraceArgs("nterm", <<"E">>), BraceArgs("nterm", <<"F">>), BraceArgs("string", <<"second">>),
   BraceArgs("string", <<"third">>), BraceArgs("pass", <<"emit">>), BraceArgs("pass", <<"none">>)}
    \cup {<<"$", "n", d>> : d \in DOMAIN Digits} \cup {<<"$", "#", d>> : d \in DOMAIN Digits}
    \cup {BraceArgs("child", <<d>>) : d \in {"0", "1"}} \cup {BraceArgs("child", <<d, ",", "2">>) : d \in {"0", "1"}}
Formed == {C(<<"g">> \o a \o <<";">> \o b \o <<"g">>, n) : a, b \in Forms, n \in 0..3}
            \cup {G(<<"g">> \o a \o <<Quote>> \o b \o <<"g">>) : a, b \in Forms}
Children == {C(<<"$", d>>, n) : d \in DOMAIN Digits, n \in 0..3}
FirstString == {C(BraceArgs("string", <<"first">>), 1)}
Messages == {C(<<Quote, "g", "$", Quote>>, 2), C(<<"g", Quote, "g", "$", Quote, ";", "$", "g">>, 2)}
Remarks == {C(<<"/", "*", "g", "g", "g", Apostrophe, "g", "*", "/", "$", "n", "0">>, 1)}

MCCodes == ShortTexts \cup Formed
MCMessages == Messages
MCRemarks == Remarks
MCChildren == Children
MCFirstString == FirstString

-----------------------------------------------------------------------------
(* The same text as C reads it.                                            *)

\* What is open after the first k characters: no literal, a string or a character, one
\* whose next character is escaped, a comment.
Opened ==
  LET text == code.text
      from(st, k) ==
        CASE st = "code" /\ text[k] \in {Quote, Apostrophe} -> text[k]
          [] st = "code" /\ text[k] = "/" /\ At(k + 1) = "/" -> "line"
          [] st = "code" /\ text[k] = "/" /\ At(k + 1) = "*" -> "begin"
          [] st = "begin" -> "block"
          [] st = "block" /\ text[k] = "*" /\ At(k + 1) = "/" -> "close"
          [] st = "close" -> "code"
          [] st = "line" /\ text[k] = "nl" -> "code"
          [] st \in {Quote, Apostrophe} /\ text[k] = st -> "code"
          [] st = Quote /\ text[k] = Backslash -> "in string"
          [] st = "in string" -> Quote
          [] st = Apostrophe /\ text[k] = Backslash -> "in character"
          [] st = "in character" -> Apostrophe
          [] OTHER -> st
      after[k \in 0..Len(text)] == IF k = 0 THEN "code" ELSE from(after[k - 1], k)
  IN  after

InCode(k) == Opened[k - 1] = "code" /\ Opened[k] = "code"
WellFormed == Opened[Len(code.text)] = "code"

\* Quotes and escapes where the writer sees them: no string ends in $ or in a backslash
\* and none begins the text or follows an escape or a comment, and comments of the kind
\* that ends in a mark have neither $ nor quotes.
Seen ==
  \A k \in DOMAIN code.text :
    /\ code.text[k] = Quote /\ Opened[k] = "code" => code.text[k - 1] \notin {"$", Backslash}
    /\ code.text[k] = Quote /\ Opened[k - 1] = "code" =>
         /\ k > 1 /\ code.text[k - 1] # "$" /\ (k > 2 => code.text[k - 2] # "$")
         /\ ~(k > 2 /\ Opened[k - 2] = "line")
    /\ InCode(k) => code.text[k] # Backslash
    /\ Opened[k] \in {"block", "begin"} => code.text[k] \notin {Quote, "$"}

\* What is replaced are the $ of the code, each with an escape, and those of strings and
\* comments are written as they are; the rest is written once, in order; and only code
\* with a $ that starts no escape is refused.
ReadsLikeC ==
  WellFormed /\ ~code.global =>
    /\ \A x \in ToSet(out) :
         IF x.put = "copy" THEN \A k \in x.from..x.to : At(k) = "$" => ~InCode(k)
         ELSE At(x.from) = "$" /\ InCode(x.from)
    /\ \A k \in DOMAIN out : out[k].from = (IF k = 1 THEN 1 ELSE out[k - 1].to + 1)
    /\ status = "done" => Len(code.text) = (IF out = <<>> THEN 0 ELSE Last(out).to)
    /\ status = "fail" => At(c) = "$" /\ InCode(c)

\* A node that is taken by number is that of an element of the rule: the code does not
\* read past the children.
NodesInside == \A x \in ToSet(out) : x.put = "node" /\ x.arg # <<>> => x.arg[1] < code.n

\* So is everything else that is taken by number.
ElementsInside ==
  \A x \in ToSet(out) : x.put \in {"node", "children", "user"} /\ x.arg # <<>> => x.arg[1] < code.n

\* ${string s} is the number of the terminal s among the symbols, "It is now possible to
\* use $0.symbol == ${string parameter_comma}" (docs/manual.md 171), and -1 only where
\* there is no such string.
Numbered ==
  \A x \in ToSet(out) : x.put = "symbol" /\ code.text[x.from + 2] = "string" =>
    LET named == {k \in DOMAIN Terminals : Terminals[k] = [string |-> code.text[x.from + 4], isString |-> TRUE]}
    IN  IF named = {} THEN x.arg = <<NoSymbol>>
        ELSE \E k \in named : x.arg = <<Len(Productions) + k - 1>>

\* Where quotes and escapes are where the writer sees them, the code that is written is the
\* code that C reads; and always the symbols and the nodes are those it names (write_code,
\* docs/manual.md 128-171).
Faithful == (Seen => ReadsLikeC) /\ NodesInside /\ Numbered
=============================================================================

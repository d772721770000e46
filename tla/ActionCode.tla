----------------------------- MODULE ActionCode -----------------------------
(***************************************************************************)
(* The C code of actions, as the table writer copies it (write_code and    *)
(* write_global_code of write_tables.c): the $ escapes of a rule's code    *)
(* are replaced, and its strings and comments are passed through.          *)
(*                                                                         *)
(*   code       [text, global, n]: the characters, whether the code belongs *)
(*              to the grammar as a whole, and the elements of its rule    *)
(*   c          the next character                                         *)
(*   inString   the quote of the string that is open, Plain if none is     *)
(*   out        what is written: copied runs and replaced escapes, each    *)
(*              with its place in the text                                 *)
(*   status     "run", "done", or "fail" (d_fail)                          *)
(*                                                                         *)
(* A character is a string; a number or a word of an escape is one too.    *)
(***************************************************************************)
EXTENDS Helpers, FiniteSets

CONSTANTS Codes,       \* the code to write
          Productions, \* the productions' names, in order
          Terminals,   \* the terminals, in order: [string, isString]
          Passes       \* the passes' names, in order

VARIABLES code, c, inString, out, status
vars == <<code, c, inString, out, status>>

Plain == "none"
Quote == "\""
Apostrophe == "'"
Backslash == "\\"
Digits == [d \in {"0", "1", "2", "3"} |-> CHOOSE k \in 0..3 : ToString(k) = d]
Isdigit(ch) == ch \in DOMAIN Digits

At(k) == IF k <= Len(code.text) THEN code.text[k] ELSE "end"

-----------------------------------------------------------------------------
(* find_symbol: the number of a production, or of a string.                *)

NoSymbol == -1
Nterm(name) == IF Contains(Productions, name) THEN (CHOOSE k \in DOMAIN Productions : Productions[k] = name) - 1
               ELSE NoSymbol

\* The terminals, counted from 0, that are this string.
Strings(name) == {k \in 0..(Len(Terminals) - 1) : Terminals[k + 1].isString /\ Terminals[k + 1].string = name}

\* A second one is an error, but the one with number 0 is no find.
Ambiguous(name) == Cardinality(Strings(name) \ {0}) > 1
StringSymbol(name) ==
  IF Strings(name) \ {0} = {} THEN NoSymbol ELSE Len(Productions) + MaxOf(Strings(name) \ {0})

FindSymbol(kind, name) == IF kind = "nterm" THEN Nterm(name) ELSE StringSymbol(name)

-----------------------------------------------------------------------------
(* The escapes.                                                            *)

\* An escape that starts at k: what is put in its place, and where it ends.
Esc(put, arg, to) == [put |-> put, arg |-> arg, to |-> to]

\* $n, $c and $# take a number of an element of the rule, and go without.
Counted(k) ==
  LET put == [n |-> "node", c |-> "node", h |-> "children"]
      ch  == IF At(k + 1) = "#" THEN "h" ELSE At(k + 1)
      \* $#X compares without a sign
      outside(i) == i > code.n - 1 /\ (ch = "h" => code.n > 0)
  IN  IF ch \notin DOMAIN put THEN {}
      ELSE IF ~Isdigit(At(k + 2)) THEN {Esc(put[ch], <<>>, k + 2)}
      ELSE IF outside(Digits[At(k + 2)]) THEN {}
      ELSE {Esc(put[ch], <<Digits[At(k + 2)]>>, k + 3)}

Simple(k) ==
  CASE At(k + 1) = "g" -> {Esc("globals", <<>>, k + 2)}
    [] At(k + 1) = "$" -> {Esc("user", <<>>, k + 2)}
    [] Isdigit(At(k + 1)) -> {Esc("user", <<Digits[At(k + 1)]>>, k + 2)}
    [] OTHER -> {}

\* ${word arguments}
Close(k) == LET ends == {j \in k..Len(code.text) : At(j) = "}"} IN IF ends = {} THEN 0 ELSE MinOf(ends)

\* ${child i, j, ...}: the child j of the child i of the rule.
Path(from, to) == [k \in 1..((to - from + 1) \div 2) |-> Digits[At(from + 2 * k - 2)]]

Braced(k) ==
  LET e == Close(k + 2)
      word == At(k + 2)
      name == IF e > k + 4 THEN At(k + 4) ELSE ""
  IN  IF At(k + 1) # "{" \/ e = 0 THEN {}
      ELSE CASE word = "child" -> IF e < k + 5 THEN {} ELSE {Esc("child", Path(k + 4, e - 1), e + 1)}
             [] word \in {"reject", "free_below", "scope", "parser"} -> {Esc(word, <<>>, e + 1)}
             [] word \in {"nterm", "string"} ->
                  IF word = "string" /\ Ambiguous(name) THEN {}
                  ELSE {Esc("symbol", <<FindSymbol(word, name)>>, e + 1)}
             [] word = "pass" /\ Contains(Passes, name) ->
                  {Esc("pass", <<(CHOOSE j \in DOMAIN Passes : Passes[j] = name) - 1>>, e + 1)}
             [] OTHER -> {}

Escapes(k) == Counted(k) \cup Simple(k) \cup Braced(k)

\* The code of the grammar has no rule: only names of symbols and passes.
GlobalEscapes(k) == {x \in Braced(k) : x.put \in {"symbol", "pass"}}

-----------------------------------------------------------------------------
(* write_code                                                              *)

\* The code's own quotes are not looked for.
Mutant_Toggled == inString

\* A quote that comes next opens or closes a string, unless this is a backslash.
Toggled ==
  IF At(c) # Backslash /\ At(c + 1) \in {Quote, Apostrophe}
  THEN IF inString = At(c + 1) THEN Plain
       ELSE IF inString = Plain THEN At(c + 1) ELSE inString
  ELSE inString

\* What follows the comment that starts here: a line comment ends before its newline, and
\* of the other kind the first three characters are passed over.
AfterComment(k) ==
  IF At(k) # "/" THEN k
  ELSE IF At(k + 1) = "/" THEN MinOf({j \in k..(Len(code.text) + 1) : At(j) \in {"nl", "end"}})
  ELSE IF At(k + 1) = "*" THEN k + 3
  ELSE k

Copied(from, to) == [put |-> "copy", arg |-> <<>>, from |-> from, to |-> to]
Replaced(k, x) == [put |-> x.put, arg |-> x.arg, from |-> k, to |-> x.to - 1]
Copy(from, to) == IF to < from THEN <<>> ELSE <<Copied(from, to)>>

Init ==
  /\ code \in Codes
  /\ c = 1 /\ inString = Plain /\ out = <<>> /\ status = "run"

Running == status = "run" /\ At(c) # "end"

\* One turn of the loop: the comment if one starts, then a character or an escape.
WriteCharacter ==
  /\ Running /\ ~code.global
  /\ \E k \in {IF Toggled = Plain THEN AfterComment(c) ELSE c} :
       /\ Toggled = Plain => At(k) # "$"
       /\ out' = out \o Copy(c, k) /\ c' = k + 1
  /\ inString' = Toggled
  /\ UNCHANGED <<code, status>>

WriteEscape ==
  /\ Running /\ ~code.global /\ Toggled = Plain
  /\ \E k \in {AfterComment(c)} :
       /\ At(k) = "$"
       /\ \E x \in Escapes(k) :
            /\ out' = out \o Append(Copy(c, k - 1), Replaced(k, x)) /\ c' = x.to
  /\ inString' = Toggled
  /\ UNCHANGED <<code, status>>

FailEscape ==
  /\ Running /\ ~code.global /\ Toggled = Plain
  /\ At(AfterComment(c)) = "$" /\ Escapes(AfterComment(c)) = {}
  /\ c' = AfterComment(c) /\ status' = "fail"
  /\ UNCHANGED <<code, inString, out>>

\* write_global_code knows no strings and no comments.
WriteGlobal ==
  /\ Running /\ code.global
  /\ IF At(c) # "$" THEN /\ out' = out \o Copy(c, c) /\ c' = c + 1
                         /\ UNCHANGED status
     ELSE IF GlobalEscapes(c) = {} THEN status' = "fail" /\ UNCHANGED <<out, c>>
     ELSE \E x \in GlobalEscapes(c) : /\ out' = Append(out, Replaced(c, x)) /\ c' = x.to
                                      /\ UNCHANGED status
  /\ UNCHANGED <<code, inString>>

Finish ==
  /\ status = "run" /\ At(c) = "end"
  /\ status' = "done"
  /\ UNCHANGED <<code, c, inString, out>>

Next == WriteCharacter \/ WriteEscape \/ FailEscape \/ WriteGlobal \/ Finish
Spec == Init /\ [][Next]_vars
=============================================================================

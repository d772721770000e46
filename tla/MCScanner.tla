----------------------------- MODULE MCScanner -----------------------------
(***************************************************************************)
(* The scanner's parts, each by itself: the NFA of regular expressions and *)
(* regex productions, and the scanners of terminals on texts.              *)
(***************************************************************************)
EXTENDS Naturals

CONSTANTS Longest, Shape,
          Chars, Menu

VARIABLES part,    \* the part a behaviour is about; the variables of the other are 0
          source, denoted, reg, fold, read, m,
          terms, nodes, text, scan, results, chosen, settled

R == INSTANCE MCRegex

\* The inputs, and the scanners that have them.
Values == INSTANCE MCLex WITH Inputs <- {}
L == INSTANCE MCLex WITH Inputs <- Values!MCInputs

expressions == <<source, denoted, reg, fold, read, m>>
scanners == <<terms, nodes, text, scan, results, chosen, settled>>

NoExpression == source = 0 /\ denoted = 0 /\ reg = 0 /\ fold = 0 /\ read = 0 /\ m = 0
NoScanner == terms = 0 /\ nodes = 0 /\ text = 0 /\ scan = 0 /\ results = 0 /\ chosen = 0 /\ settled = 0

Init == \/ part = "expressions" /\ R!Init /\ NoScanner
        \/ part = "scanners" /\ L!Init /\ NoExpression
Next == \/ part = "expressions" /\ R!Next /\ UNCHANGED <<part, scanners>>
        \/ part = "scanners" /\ L!Next /\ UNCHANGED <<part, expressions>>
Spec == Init /\ [][Next]_<<part, expressions, scanners>>

-----------------------------------------------------------------------------
\* The NFA of a regular expression, and of a regex production, has its words (lex.c
\* build_regex_nfa, gram.c convert_regex_production_one).
SameWords == part = "expressions" => R!SameWords

\* What is shifted at a location are the matches the terminals denote (lex.c
\* nfa_to_scanner, build_transitions; scan.c scan_buffer; parse.c shift_all).
ShiftsMatches == part = "scanners" => L!ShiftsMatches
=============================================================================

---------------------------- MODULE ErrorRecovery ----------------------------
(***************************************************************************)
(* Error recovery: the parser of GLR with error_recovery (parse.c) at the  *)
(* places where it has no stack left, and the hints build_error_recovery   *)
(* (lr.c) gives to its states.  White space is a run of newlines, and a    *)
(* parser may be used again for the same text.                             *)
(*                                                                         *)
(*   line0           the line of the first character: user.loc.line when   *)
(*                   the parse started                                     *)
(*   lastErrorLine   last_syntax_error_line                                *)
(*   errors          user.syntax_errors                                    *)
(*   repairs         of this parse, what was skipped: the symbol put in    *)
(*                   its place, and from where to where                    *)
(*   parses          the parses that have ended                            *)
(*                                                                         *)
(* The queue of the search holds every SNode of the stacks (it is limited  *)
(* to ERROR_RECOVERY_QUEUE_SIZE).                                          *)
(***************************************************************************)
EXTENDS GLR, Grammar, FiniteSets

CONSTANT MaxParses    \* how often the parser is used

VARIABLES line0, lastErrorLine, errors, repairs, parses
errorVars == <<line0, lastErrorLine, errors, repairs, parses>>
allVars == <<vars, errorVars>>

-----------------------------------------------------------------------------
(* build_error_recovery (lr.c): what a state can skip to.                  *)

\* A rule that ends with a string; the terminal it is.
Terminated(gr, r) == LET rhs == gr.rules[r].rhs IN Len(rhs) > 1 /\ Last(rhs) \in Terminals(gr)
Terminator(gr, r) == Last(gr.rules[r].rhs)

\* The items of a state, by rule, then by dot; one hint for each string, that of the first
\* rule that ends with it, at the least depth of any.
HintsOf(gr, items) ==
  LET its == Listed({it \in items : Terminated(gr, it[1])},
                    LAMBDA a, b : a[1] < b[1] \/ (a[1] = b[1] /\ a[2] < b[2]))
      Spelling(r) == gr.spell[Terminator(gr, r)]
      Add(hs, it) ==
        LET known == {k \in DOMAIN hs : Spelling(hs[k].rule) = Spelling(it[1])}
        IN  IF known = {} THEN Append(hs, [depth |-> it[2], rule |-> it[1]])
            ELSE [k \in DOMAIN hs |-> IF k \in known /\ hs[k].depth > it[2] THEN [hs[k] EXCEPT !.depth = it[2]]
                                      ELSE hs[k]]
  IN  Listed(ToSet(FoldLeft(Add, <<>>, its)),
             LAMBDA h, i : h.depth < i.depth \/ (h.depth = i.depth /\ h.rule < i.rule))

-----------------------------------------------------------------------------
(* error_recovery                                                          *)

\* Lines are counted from 0.
Mutant_Line(i) == Cardinality({k \in 1..i : input[k] = Blank})

Line(i) == line0 + Cardinality({k \in 1..i : input[k] = Blank})

\* The mark is left in the text.
Mutant_FindSubstr(i, word) ==
  LET at == {j \in i..(Len(input) - Len(word)) : Agrees(word, j, Len(word))}
  IN  IF at = {} THEN -1 ELSE MinOf(at)

\* Without the mark, all of the rest.
Mutant2_FindSubstr(i, word) ==
  LET at == {j \in i..(Len(input) - Len(word)) : Agrees(word, j, Len(word))}
  IN  IF at = {} THEN Len(input) ELSE MinOf(at) + Len(word)

\* find_substr: where the first occurrence of a word from i on ends, -1 if there is none.
FindSubstr(i, word) ==
  LET at == {j \in i..(Len(input) - Len(word)) : Agrees(word, j, Len(word))}
  IN  IF at = {} THEN -1 ELSE MinOf(at) + Len(word)

\* Only the nodes of the last generation.
Mutant_StackNodes(q) == Listed(q.lastS, >)

\* The SNodes of the last generation, the latest first, and all below them.
StackNodes(q) ==
  LET Next1(s) == FlattenSeq([k \in DOMAIN q.sn[s].zns |-> q.zn[q.sn[s].zns[k]].sns])
      Enqueue(nodes, s) == IF Contains(nodes, s) THEN nodes ELSE Append(nodes, s)
      walk[nodes \in Seq(Nat), k \in Nat] ==
        IF k > Len(nodes) THEN nodes
        ELSE walk[FoldLeft(Enqueue, nodes, Next1(nodes[k])), k + 1]
  IN  walk[Listed(q.lastS, >), 1]

ErrorLoc(q) == Loc(q, MaxOf(q.lastS))

\* The hints of the stacks whose mark is in the rest of the text: those of the nodes in
\* order, and for each what it skips to.
Candidates(q) ==
  LET nodes == StackNodes(q)
      At(s) == LET hs == q.t.errorHints[StateOf(q, s)]
               IN  [k \in DOMAIN hs |-> [sn |-> s, hint |-> hs[k],
                                         to |-> FindSubstr(ErrorLoc(q), q.t.spell[Terminator(q.t.grammar, hs[k].rule)])]]
  IN  SelectSeq(FlattenSeq([k \in DOMAIN nodes |-> At(nodes[k])]), LAMBDA c : c.to # -1)

\* The nearest mark; of those the deepest stack, then the deepest hint, then the first.
Better(q, c, d) ==
  \/ c.to < d.to
  \/ c.to = d.to /\ \/ q.sn[c.sn].depth > q.sn[d.sn].depth
                    \/ q.sn[c.sn].depth = q.sn[d.sn].depth /\ c.hint.depth > d.hint.depth
Best(q) == FoldLeft(LAMBDA d, c : IF Better(q, c, d) THEN c ELSE d, Head(Candidates(q)), Tail(Candidates(q)))

\* The reduction of what the stack has of the rule, and of the text skipped.
ErrorReduction(q, hint) ==
  [NoReduction EXCEPT !.sym = q.t.grammar.rules[hint.rule].lhs, !.n = hint.depth + 1]

\* The text up to the mark becomes a PNode on a copy of the best node, at the location
\* after it; the hashes are emptied, and the copy is to be reduced.
Restarted(q, base, to) ==
  LET new == MakePNode(q, "S'", ErrorLoc(q), to, to, FALSE, NoReduction, <<>>)
      s == Len(q.sn) + 1
      z == Len(q.zn) + 1
      x == Len(q.pn) + 1
  IN  [NewSNode(InsertPNode(q, new), StateOf(q, base), to) EXCEPT
         !.zn = Append(@, [pn |-> x, sns |-> <<base>>]), !.sn[s].zns = <<z>>, !.sn[s].lastPn = x]

ToReduce(q, hint) ==
  [z |-> Len(q.zn), sn |-> Len(q.sn), red |-> ErrorReduction(q, hint), newSn |-> 0, newDepth |-> 0]

Report(i) ==
  /\ lastErrorLine' = IF Line(i) > lastErrorLine THEN Line(i) ELSE lastErrorLine
  /\ errors' = IF Line(i) > lastErrorLine THEN errors + 1 ELSE errors

InitErrors == line0 = 1 /\ lastErrorLine = 0 /\ errors = 0 /\ repairs = <<>> /\ parses = 0
InitAll == Init /\ InitErrors

ReduceStep == Reduce /\ UNCHANGED errorVars
ShiftStep == Shift /\ UNCHANGED errorVars

Stuck == Running /\ p.todo = <<>> /\ p.shifts = <<>>
Mutant_Accepting(q) == q.accept # 0    \* wherever it is

Accepting(q) == q.accept # 0 /\ Loc(q, q.accept) = Len(input)

Accept ==
  /\ Stuck /\ Accepting(p)
  /\ result' = "accept" /\ parses' = parses + 1
  /\ UNCHANGED <<g, input, p, line0, lastErrorLine, errors, repairs>>

\* No node to look from: the parse fails before anything is reported.
GiveUp ==
  /\ Stuck /\ ~Accepting(p) /\ p.lastS = {}
  /\ result' = "error" /\ parses' = parses + 1
  /\ UNCHANGED <<g, input, p, line0, lastErrorLine, errors, repairs>>

\* The error is reported and no hint applies.
Fail ==
  /\ Stuck /\ ~Accepting(p) /\ p.lastS # {} /\ Candidates(p) = <<>>
  /\ Report(ErrorLoc(p))
  /\ result' = "error" /\ parses' = parses + 1
  /\ UNCHANGED <<g, input, p, line0, repairs>>

\* The error is reported, and the parse goes on if the reduction left it anything to do.
Recover ==
  /\ Stuck /\ ~Accepting(p) /\ p.lastS # {} /\ Candidates(p) # <<>>
  /\ Report(ErrorLoc(p))
  /\ \E c \in {Best(p)} : \E to \in {White(c.to)} :
     \E u \in {Restarted(p, c.sn, to)} : \E v \in {FreeOldNodes(u)} :
     \E q \in {ReduceOne(FreeOldNodes(v), ToReduce(v, c.hint))} :
       /\ p' = q
       /\ result' = IF q.todo = <<>> /\ q.shifts = <<>> THEN "error" ELSE "running"
       /\ parses' = IF result' = "error" THEN parses + 1 ELSE parses
       /\ repairs' = Append(repairs, [at |-> ErrorLoc(p), to |-> to])
  /\ UNCHANGED <<g, input, line0>>

\* dparse on the same parser again: user.loc.line is where the last error left it.
Again ==
  /\ ~Running /\ parses < MaxParses
  /\ p' = StartParser /\ result' = "running" /\ repairs' = <<>>
  /\ line0' = IF lastErrorLine = 0 THEN line0 ELSE lastErrorLine
  /\ UNCHANGED <<g, input, lastErrorLine, errors, parses>>

NextAll == ReduceStep \/ ShiftStep \/ Accept \/ GiveUp \/ Fail \/ Recover \/ Again
SpecAll == InitAll /\ [][NextAll]_allVars
=============================================================================

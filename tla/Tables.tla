------------------------------- MODULE Tables -------------------------------
(***************************************************************************)
(* How make_dparser writes the parser tables (write_tables.c): the arrays  *)
(* and structures out, in the order of their definitions, which refer to   *)
(* each other by name.  As C text they are compiled; BinaryTables says     *)
(* what becomes of them as a binary.                                       *)
(*                                                                         *)
(* A machine m is what the generator built: productions with rules,        *)
(* terminals, and states with gotos, reductions, hints and a scanner.      *)
(* Indexes count from 0, as in the tables; a rule is <<production, rule>>; *)
(* an action [term, trailing] of a state is one Action of the code.  spec  *)
(* and final, 0 for none, stand for the text of an action, action is its   *)
(* ${action} or -1, and prio the priorities and associativities.  regex is *)
(* the production a terminal was made from, or -1.                         *)
(***************************************************************************)
EXTENDS Helpers, FiniteSets

CONSTANTS Machines,
          NChars,                 \* 256
          ScannerBlocks,          \* make_dparser -b, 4
          SCANNER_BLOCKS,         \* dparse_tables.h, 4
          ByteLimit, ShortLimit   \* of scanner_size, 255 and 32384
SCANNER_BLOCK_SIZE == NChars \div SCANNER_BLOCKS
BlockSize == NChars \div ScannerBlocks

VARIABLES m,           \* the machine
          at,          \* [phase, i]: what is written next
          out,         \* the definitions [name, small, elements]
          vgoto,       \* the goto table
          offset,      \* goto_table_offset of each state
          blocks, transBlocks, \* the distinct blocks [size, cells, name]
          single,      \* shift_hash: the distinct actions that a scanner state alone accepts
          er           \* er_hash: the states with distinct error recovery hints
vars == <<m, at, out, vgoto, offset, blocks, transBlocks, single, er>>

St(i) == m.states[i + 1]
Term(t) == m.terms[t + 1]
Rule(r) == m.prods[r[1] + 1].rules[r[2] + 1]
NStates == Len(m.states)
NProds == Len(m.prods)
Upto(n) == [k \in 1..n |-> k - 1]

-----------------------------------------------------------------------------
(* Cells.                                                                  *)
Num(v) == [kind |-> "data", v |-> v]
Ptr(name) == [kind |-> "ptr", v |-> name]
Fun(name) == [kind |-> "code", v |-> name]
Str(s) == [kind |-> "str", v |-> s]
Null == [kind |-> "null"]
Bool(b) == Num(IF b THEN 1 ELSE 0)
PtrIf(b, name) == IF b THEN Ptr(name) ELSE Null

\* An array or a structure of pointer-sized fields, and an array of small numbers; a
\* declared length fills the array up or cuts it off.
Def(name, elements) == [name |-> name, small |-> FALSE, elements |-> elements]
Column(cells) == [k \in DOMAIN cells |-> <<cells[k]>>]
Array(name, cells) == Def(name, Column(cells))
Small(name, cells) == [Def(name, Column(cells)) EXCEPT !.small = TRUE]
Sized(cells, n) == [k \in 1..n |-> IF k \in DOMAIN cells THEN cells[k] ELSE Num(0)]

\* escape_string: special strings change each time; the C compiler undoes one.
Escaped(s) == IF s.special THEN [s EXCEPT !.escaped = @ + 1] ELSE s
Written(s) == IF m.binary \/ ~s.special THEN Str(s) ELSE Str([s EXCEPT !.escaped = @ - 1])

-----------------------------------------------------------------------------
(* write_reductions                                                        *)

\* The first rule of the production with as many elements and the same code and priorities.
Alike(a, b) ==
  /\ a.n = b.n /\ a.spec = b.spec /\ a.final = b.final /\ a.prio = b.prio /\ a.action = b.action
  /\ a.pass = b.pass
Mutant_SameReduction(r) == <<r[1], MinOf({k \in 0..r[2] : Rule(<<r[1], k>>).n = Rule(r).n})>>
SameReduction(r) == <<r[1], MinOf({k \in 0..r[2] : Alike(Rule(<<r[1], k>>), Rule(r))})>>
ReductionName(r) == <<"reduction", SameReduction(r)[1], SameReduction(r)[2]>>

\* The rule of the production _, whose code stands in for what a rule has not.
Default == IF m.default = -1 THEN {} ELSE {<<m.default, 0>>}
DefaultPass == IF Default = {} THEN <<>> ELSE Rule(<<m.default, 0>>).pass
PassOf(r, k) == IF k \in DOMAIN Rule(r).pass THEN Rule(r).pass[k] ELSE 0
CodeOf(kind, has, r) ==
  IF has[r] THEN Fun(<<kind, r[1], r[2]>>)
  ELSE IF \E d \in Default : has[d] THEN Fun(<<kind, m.default, 0>>) ELSE Null
Has(kind, r) == [x \in {r} \cup Default |-> IF kind = "spec" THEN Rule(x).spec # 0 ELSE Rule(x).final # 0]
PassCell(r, k) ==
  IF PassOf(r, k) # 0 THEN Fun(<<"pass", k, r[1], r[2]>>)
  ELSE IF \E d \in Default : PassOf(d, k) # 0 THEN Fun(<<"pass", k, m.default, 0>>) ELSE Null
\* The text declares the default's functions and pass code at its beginning.
Declared == IF m.binary THEN {} ELSE {<<"pass_code", d[1], d[2]>> : d \in Default}
PassMax(r) == MaxOf({Len(Rule(r).pass), Len(DefaultPass)})

\* The text has the functions and the array of the pass code; a binary has neither, and the
\* speculative and final code it is read with for the rules that have an action.
VisibleAction(r) == ~m.prods[r[1] + 1].internal /\ Rule(r).action >= 0
SpecCell(r) == IF ~m.binary THEN CodeOf("spec", Has("spec", r), r)
               ELSE IF VisibleAction(r) THEN Fun(<<"#spec_code">>) ELSE Null
FinalCell(r) == IF ~m.binary THEN CodeOf("final", Has("final", r), r)
                ELSE IF VisibleAction(r) THEN Fun(<<"#final_code">>) ELSE Null
PassName(r) == IF Rule(r).pass = <<>> THEN <<"pass_code", m.default, 0>> ELSE <<"pass_code", r[1], r[2]>>
PassArray(r) ==
  IF m.binary \/ Rule(r).pass = <<>> THEN <<>>
  ELSE <<Array(PassName(r), [k \in 1..PassMax(r) |-> PassCell(r, k)])>>

\* The number of a rule is its ${action}, or one made of its production and its place
\* among the rules of all productions (r->index).
RuleIndex(r) == Len(FlattenSeq([p \in 1..r[1] |-> m.prods[p].rules])) + r[2]
ActionIndex(r) ==
  IF Rule(r).action >= 0 THEN Rule(r).action
  ELSE IF m.prods[r[1] + 1].internal THEN -1 ELSE r[1] * 10000 + RuleIndex(r) + 1000000
ReductionDef(r) ==
  Def(ReductionName(r),
      << <<Num(Rule(r).n), Num(r[1]), SpecCell(r), FinalCell(r), Num(Rule(r).prio), Num(ActionIndex(r)),
           Num(PassMax(r)), PtrIf(PassMax(r) > 0 /\ ~m.binary, PassName(r))>> >>)

\* write_code: the functions the text defines for the rule.
Function(name) == Def(name, <<>>)
CodeDefs(r) ==
  IF m.binary THEN <<>>
  ELSE (IF Rule(r).spec # 0 THEN <<Function(<<"spec", r[1], r[2]>>)>> ELSE <<>>)
         \o (IF Rule(r).final # 0 THEN <<Function(<<"final", r[1], r[2]>>)>> ELSE <<>>)
         \o FoldLeft(LAMBDA defs, k : IF PassOf(r, k) = 0 THEN defs ELSE Append(defs, Function(<<"pass", k, r[1], r[2]>>)),
                     <<>>, [k \in DOMAIN Rule(r).pass |-> k])
ReductionDefs(p) ==
  FoldLeft(LAMBDA defs, k : IF SameReduction(<<p, k>>) # <<p, k>> THEN defs
                            ELSE defs \o CodeDefs(<<p, k>>) \o PassArray(<<p, k>>) \o <<ReductionDef(<<p, k>>)>>,
           <<>>, Upto(Len(m.prods[p + 1].rules)))

-----------------------------------------------------------------------------
(* write_scanner_data: the shifts, and for each scanner of its own the     *)
(* differences, the blocks of the transitions, and the shifts of its       *)
(* states; then the states.                                                *)
FromRegex(t) == Term(t).regex # -1
RegexRule(t) == <<Term(t).regex, 0>>
ShiftAction(t) ==
  IF ~FromRegex(t) THEN -1
  ELSE IF Rule(RegexRule(t)).action >= 0 THEN Rule(RegexRule(t)).action ELSE Term(t).regex * 10000 + 1000000
ShiftDef(name, t, kind) ==
  Def(name, << <<Num(NProds + t), Num(kind), Num(Term(t).prio), Num(IF m.binary THEN ShiftAction(t) ELSE 0),
                 IF m.binary THEN Fun(<<"#spec_code">>)
                 ELSE IF FromRegex(t) /\ Rule(RegexRule(t)).spec # 0 THEN Fun(<<"spec", Term(t).regex, 0>>) ELSE Null>> >>)
ShiftDefs(t) ==
  <<ShiftDef(<<"shift", t>>, t, Term(t).scan)>>
    \o (IF Term(t).trailing THEN <<ShiftDef(<<"tshift", t>>, t, "TRAILING")>> ELSE <<>>)
ShiftName(a) == IF a.trailing THEN <<"tshift", a.term>> ELSE <<"shift", a.term>>
ShiftPtrs(acts) == [k \in DOMAIN acts |-> Ptr(ShiftName(acts[k]))]

ScannerSize(s) ==
  CASE Len(s.chars) < ByteLimit /\ Len(s.diffs) < ByteLimit -> 1
    [] Len(s.chars) < ShortLimit /\ Len(s.diffs) < ShortLimit /\ (Len(s.chars) >= ByteLimit \/ Len(s.diffs) >= ByteLimit) -> 2
    [] OTHER -> 4
\* What an array of elements of this size keeps of a number.
Kept(v, size) == CASE size = 1 -> v % (ByteLimit + 1) [] size = 2 -> v % (ShortLimit + 1) [] size = 4 -> v

\* Whether the scan also reports shorter matches.
HasTransitions(s) == s.scan # "LONGEST" \/ s.trailing

\* Block k of scanner state j of state i: of the states, and of the differences.
CharBlock(i, j, k) == [x \in 1..BlockSize |-> Num(Kept(St(i).chars[j + 1][k * BlockSize + x - 1] + 1, ScannerSize(St(i))))]
TransBlock(i, j, k) == [x \in 1..BlockSize |-> Num(Kept(St(i).trans[j + 1][k * BlockSize + x - 1], ScannerSize(St(i))))]

\* set_add_fn: the block that is already there, of a scanner of the same size.
Mutant_SameBlock(b, size, cells) == b.size = size /\ Tail(b.cells) = Tail(cells)
SameBlock(b, size, cells) == b.size = size /\ b.cells = cells
AddBlock(bs, size, cells, name) ==
  IF \E n \in DOMAIN bs : SameBlock(bs[n], size, cells) THEN bs
  ELSE Append(bs, [size |-> size, cells |-> cells, name |-> name])
BlockName(bs, size, cells) == bs[MinOf({n \in DOMAIN bs : SameBlock(bs[n], size, cells)})].name
NewBlocks(old, new) ==
  [n \in 1..(Len(new) - Len(old)) |->
     Small(new[Len(old) + n].name, Sized(new[Len(old) + n].cells, SCANNER_BLOCK_SIZE))]

\* The scanner states and blocks of state i, in order.
Places(i) == [n \in 1..(Len(St(i).chars) * ScannerBlocks) |-> <<(n - 1) \div ScannerBlocks, (n - 1) % ScannerBlocks>>]
AllBlocks(i) ==
  FoldSteps(LAMBDA bs, jk : AddBlock(bs, ScannerSize(St(i)), CharBlock(i, jk[1], jk[2]), <<"scanner", i, jk[1], jk[2]>>),
            blocks, Places(i))
AllTransBlocks(i) ==
  IF ~HasTransitions(St(i)) THEN transBlocks
  ELSE FoldSteps(LAMBDA bs, jk : AddBlock(bs, ScannerSize(St(i)), TransBlock(i, jk[1], jk[2]), <<"accepts_diff", i, jk[1], jk[2]>>),
                 transBlocks, Places(i))

DiffDefs(i) ==
  LET diffs == St(i).diffs
      each == [j \in DOMAIN diffs |-> Array(<<"accepts_diff", i, j - 1>>, Append(ShiftPtrs(diffs[j]), Num(0)))]
  IN  IF diffs = <<>> THEN <<>>
      ELSE Append(each, Array(<<"accepts_diff", i>>, [j \in DOMAIN diffs |-> Ptr(<<"accepts_diff", i, j - 1>>)]))

\* A scanner state that accepts one action shares the array of the first that did: an
\* Action keeps the name in temp_string, and shift_hash the first of a terminal and kind.
SameShift(a, b) == a.act = b.act
Shared(hash, i, j, acts) ==
  LET new == [act |-> acts[1], name |-> <<"shift", i, j>>]
  IN  IF Len(acts) # 1 \/ \E n \in DOMAIN hash : SameShift(hash[n], new) THEN hash ELSE Append(hash, new)
AllSingle(i) == FoldSteps(LAMBDA h, j : Shared(h, i, j, St(i).accepts[j + 1]), single, Upto(Len(St(i).chars)))
NameOfShifts(hash, i, j) ==
  LET acts == St(i).accepts[j + 1]
  IN  IF Len(acts) # 1 THEN <<"shift", i, j>>
      ELSE hash[MinOf({n \in DOMAIN hash : SameShift(hash[n], [act |-> acts[1]])})].name
AcceptDefs(i) ==
  LET own == {j \in 0..(Len(St(i).chars) - 1) : /\ St(i).accepts[j + 1] # <<>>
                                                /\ NameOfShifts(AllSingle(i), i, j) = <<"shift", i, j>>}
      order == Listed(own, <)
  IN  [n \in DOMAIN order |-> Array(<<"shift", i, order[n]>>, Append(ShiftPtrs(St(i).accepts[order[n] + 1]), Null))]

\* The states of a scanner, as SB_ and SB_trans_ structures of SCANNER_BLOCKS blocks.
BlockCells(bs, i, Block(_)) ==
  [k \in 1..SCANNER_BLOCKS |-> IF k > ScannerBlocks THEN Null ELSE Ptr(BlockName(bs, ScannerSize(St(i)), Block(k - 1)))]
ScannerDefs(i) ==
  LET Shift(j) == IF St(i).accepts[j] = <<>> THEN Null ELSE Ptr(NameOfShifts(single, i, j - 1))
      table == Def(<<"scanner", i>>,
                   [j \in DOMAIN St(i).chars |-> <<Shift(j)>> \o BlockCells(blocks, i, LAMBDA k : CharBlock(i, j - 1, k))])
      transitions == Def(<<"transition", i>>,
                         [j \in DOMAIN St(i).chars |-> BlockCells(transBlocks, i, LAMBDA k : TransBlock(i, j - 1, k))])
  IN  IF HasTransitions(St(i)) THEN <<table, transitions>> ELSE <<table>>

-----------------------------------------------------------------------------
(* write_goto_data                                                         *)

\* The gotos of a state lie over those of the others where they are free, as far up as its
\* lowest symbol can be 0: 0 is a free place, a goto is the index of its state + 1.
FreeAt(table, i, o) ==
  \A n \in DOMAIN St(i).gotos : LET x == St(i).gotos[n][1] - o IN x \in DOMAIN table => table[x] = 0
Lowest(i) == MinOf({St(i).gotos[n][1] : n \in DOMAIN St(i).gotos})
Mutant_GotoOffset(table, i) == Lowest(i)
GotoOffset(table, i) == MaxOf({o \in (Lowest(i) - Cardinality(DOMAIN table))..Lowest(i) : FreeAt(table, i, o)})
NoGotos == -2147483647    \* -INT_MAX
Overlaid(table, i, o) ==
  LET mine == [x \in {St(i).gotos[n][1] - o : n \in DOMAIN St(i).gotos} |->
                 1 + (CHOOSE t \in 0..(NStates - 1) : \E n \in DOMAIN St(i).gotos : St(i).gotos[n] = <<x + o, t>>)]
      last == MaxOf({-1} \cup DOMAIN table \cup DOMAIN mine)
  IN  [x \in 0..last |-> IF x \in DOMAIN mine THEN mine[x] ELSE IF x \in DOMAIN table THEN table[x] ELSE 0]

NSymbols == NProds + Len(m.terms)
ValidBytes(i) ==
  [b \in 1..((NSymbols + 7) \div 8) |->
     Num({X % 8 : X \in {Y \in {St(i).gotos[n][1] : n \in DOMAIN St(i).gotos} : Y \div 8 = b - 1}})]
HintCells(h) == <<Num(h.depth), Num(h.state), Ptr(ReductionName(h.rule))>>
StateDefs(i) ==
  LET s == St(i)
      DefIf(b, def) == IF b THEN <<def>> ELSE <<>>
  IN  DefIf(s.gotos # <<>>, Small(<<"goto_valid", i>>, ValidBytes(i)))
        \o DefIf(s.reds # <<>>, Array(<<"reductions", i>>, [k \in DOMAIN s.reds |-> Ptr(ReductionName(s.reds[k]))]))
        \o DefIf(s.hints # <<>>, Def(<<"hints", i>>, [k \in DOMAIN s.hints |-> HintCells(s.hints[k])]))

-----------------------------------------------------------------------------
(* write_error_data, write_state_data, write_symbol_data, write_passes     *)

\* The hint keeps its rule; the tables name its production and its last string.
SameErrors(i, h) == St(i).errors = St(h).errors
SharedErrors(hash, i) == hash[MinOf({n \in DOMAIN hash : SameErrors(i, hash[n])})]
HasShared(hash, i) == \E n \in DOMAIN hash : SameErrors(i, hash[n])
ErrorDef(i) ==
  Def(<<"errors", i>>, [k \in DOMAIN St(i).errors |->
                          LET e == St(i).errors[k] IN <<Num(e.depth), Num(e.prod), Written(Escaped(Term(e.term).string))>>])

Mutant_Owner(i) == i
Owner(i) == IF St(i).same = -1 THEN i ELSE St(i).same
StateCells(i) ==
  LET s == St(i)
      shifts == St(Owner(i))
      diffs == HasTransitions(shifts) /\ shifts.chars # <<>>
  IN  <<PtrIf(s.gotos # <<>>, <<"goto_valid", i>>), Num(offset[i + 1]),
        Num(Len(s.reds)), PtrIf(s.reds # <<>>, <<"reductions", i>>),
        Num(Len(s.hints)), PtrIf(s.hints # <<>>, <<"hints", i>>),
        Num(Len(s.errors)), IF s.errors = <<>> THEN Null ELSE Ptr(<<"errors", SharedErrors(er, i)>>),
        Bool(s.shifts), IF s.codes = <<>> \/ m.binary THEN Null ELSE Fun(<<"scan_code", i>>),
        PtrIf(s.chars # <<>>, <<"scanner", Owner(i)>>), Num(ScannerSize(s)), Bool(s.accept), Num(s.scan),
        PtrIf(diffs, <<"transition", Owner(i)>>), PtrIf(diffs, <<"accepts_diff", Owner(i)>>), Num(s.reducesTo)>>

ProdCells(p) == <<Num(p.kind), Str(p.name), Num(p.start)>>
\* A terminal's string is shown escaped.
TermCells(t) ==
  <<Num(t.kind), IF m.binary THEN Written(Escaped(t.string)) ELSE Written(Escaped(Escaped(t.string))), Num(-1)>>

-----------------------------------------------------------------------------
(* write_parser_tables                                                     *)
Phases == <<"reductions", "shifts", "blocks", "scanners", "code", "gotos", "goto table", "errors", "states", "symbols",
            "passes", "tables">>
Count(phase) ==
  CASE phase = "reductions" -> NProds
    [] phase = "shifts" -> Len(m.terms)
    [] phase \in {"blocks", "scanners", "code", "gotos", "errors"} -> NStates
    [] phase = "passes" -> IF m.passes = <<>> THEN 0 ELSE 1
    [] OTHER -> 1
Done == at.phase > Len(Phases)
At(phase) == ~Done /\ Phases[at.phase] = phase
Advance ==
  at' = IF at.i + 1 < Count(Phases[at.phase]) THEN [at EXCEPT !.i = @ + 1]
        ELSE [phase |-> MinOf({n \in (at.phase + 1)..(Len(Phases) + 1) : n > Len(Phases) \/ Count(Phases[n]) > 0}), i |-> 0]
Write(defs) == out' = out \o defs /\ Advance /\ UNCHANGED m
gotoVars == <<vgoto, offset>>
scanVars == <<blocks, transBlocks, single>>

WriteReductions == At("reductions") /\ Write(ReductionDefs(at.i)) /\ UNCHANGED <<gotoVars, scanVars, er>>
WriteShifts == At("shifts") /\ Write(ShiftDefs(at.i)) /\ UNCHANGED <<gotoVars, scanVars, er>>

WriteBlocks ==
  /\ At("blocks")
  /\ IF St(at.i).same # -1 THEN Write(<<>>) /\ UNCHANGED scanVars
     ELSE /\ blocks' = AllBlocks(at.i) /\ transBlocks' = AllTransBlocks(at.i) /\ single' = AllSingle(at.i)
          /\ Write(DiffDefs(at.i) \o NewBlocks(blocks, blocks') \o NewBlocks(transBlocks, transBlocks') \o AcceptDefs(at.i))
  /\ UNCHANGED <<gotoVars, er>>

WriteScanners ==
  /\ At("scanners")
  /\ Write(IF St(at.i).chars = <<>> \/ St(at.i).same # -1 THEN <<>> ELSE ScannerDefs(at.i))
  /\ UNCHANGED <<gotoVars, scanVars, er>>

\* The scanner of a state whose terminals are code.
WriteScannerCode ==
  /\ At("code")
  /\ Write(IF m.binary \/ St(at.i).codes = <<>> THEN <<>> ELSE <<Function(<<"scan_code", at.i>>)>>)
  /\ UNCHANGED <<gotoVars, scanVars, er>>

WriteGotos ==
  /\ At("gotos")
  /\ IF St(at.i).gotos = <<>> THEN offset' = Append(offset, NoGotos) /\ UNCHANGED vgoto
     ELSE LET o == GotoOffset(vgoto, at.i) IN offset' = Append(offset, o) /\ vgoto' = Overlaid(vgoto, at.i, o)
  /\ Write(StateDefs(at.i)) /\ UNCHANGED <<scanVars, er>>

WriteGotoTable ==
  /\ At("goto table")
  /\ Write(<<Small(<<"gotos">>, IF vgoto = <<>> THEN <<Num(0)>> ELSE [x \in 1..Cardinality(DOMAIN vgoto) |-> Num(vgoto[x - 1])])>>)
  /\ UNCHANGED <<gotoVars, scanVars, er>>

WriteErrors ==
  /\ At("errors")
  /\ IF St(at.i).errors = <<>> \/ HasShared(er, at.i) THEN Write(<<>>) /\ UNCHANGED er
     ELSE Write(<<ErrorDef(at.i)>>) /\ er' = Append(er, at.i)
  /\ UNCHANGED <<gotoVars, scanVars>>

WriteStates ==
  At("states") /\ Write(<<Def(<<"states">>, [i \in 1..NStates |-> StateCells(i - 1)])>>) /\ UNCHANGED <<gotoVars, scanVars, er>>
WriteSymbols ==
  /\ At("symbols")
  /\ Write(<<Def(<<"symbols">>, [p \in 1..NProds |-> ProdCells(m.prods[p])] \o [t \in DOMAIN m.terms |-> TermCells(m.terms[t])])>>)
  /\ UNCHANGED <<gotoVars, scanVars, er>>
WritePasses ==
  /\ At("passes")
  /\ Write(<<Def(<<"passes">>, [k \in DOMAIN m.passes |-> <<Str(m.passes[k]), Num(k - 1), Num(0)>>])>>)
  /\ UNCHANGED <<gotoVars, scanVars, er>>
WriteTables ==
  /\ At("tables")
  /\ Write(<<Def(<<"parser_tables">>,
                 << <<Num(NStates), Ptr(<<"states">>), Ptr(<<"gotos">>), Num(m.whitespace), Num(NSymbols), Ptr(<<"symbols">>),
                      Num(Len(m.passes)), PtrIf(m.passes # <<>>, <<"passes">>)>> >>)>>)
  /\ UNCHANGED <<gotoVars, scanVars, er>>

Init ==
  /\ m \in Machines /\ at = [phase |-> 1, i |-> 0] /\ out = <<>> /\ vgoto = <<>> /\ offset = <<>>
  /\ blocks = <<>> /\ transBlocks = <<>> /\ single = <<>> /\ er = <<>>
WriteNext ==
  \/ WriteReductions \/ WriteShifts \/ WriteBlocks \/ WriteScanners \/ WriteScannerCode \/ WriteGotos \/ WriteGotoTable
  \/ WriteErrors \/ WriteStates \/ WriteSymbols \/ WritePasses \/ WriteTables
=============================================================================

----------------------------- MODULE TableReader -----------------------------
(***************************************************************************)
(* What the parser and the scanner read from the parser tables, whatever   *)
(* form these have: Load(p, n, i, f) is field f of element i of the array  *)
(* at p, whose elements have n fields, 0 if they are small numbers; Root   *)
(* is where the D_ParserTables are.  A field is a cell: a number, a        *)
(* pointer, a function, a string, or NULL.  Elements count from 0, and     *)
(* fields from 1 in the order of the structures of dparse_tables.h; the    *)
(* priorities and associativities of a rule or a terminal are one field.   *)
(***************************************************************************)
EXTENDS Helpers

CONSTANTS Load(_, _, _, _), Root,
          SCANNER_BLOCKS,
          SCANNER_BLOCK_SIZE    \* 256 / SCANNER_BLOCKS

D_ParserTables == [fields |-> 8, nstates |-> 1, state |-> 2, goto_table |-> 3, whitespace_state |-> 4, nsymbols |-> 5,
                   symbols |-> 6, npasses |-> 7, passes |-> 8]
D_State == [fields |-> 17, goto_valid |-> 1, goto_table_offset |-> 2, nreductions |-> 3, reductions |-> 4, nhints |-> 5,
            hints |-> 6, nerrors |-> 7, errors |-> 8, shifts |-> 9, scanner_code |-> 10, scanner_table |-> 11,
            scanner_size |-> 12, accept |-> 13, scan_kind |-> 14, transition_table |-> 15, accepts_diff |-> 16,
            reduces_to |-> 17]
D_Reduction == [fields |-> 8, nelements |-> 1, symbol |-> 2, speculative_code |-> 3, final_code |-> 4, priorities |-> 5,
                action_index |-> 6, npass_code |-> 7, pass_code |-> 8]
D_RightEpsilonHint == [fields |-> 3, depth |-> 1, preceeding_state |-> 2, reduction |-> 3]
D_ErrorRecoveryHint == [fields |-> 3, depth |-> 1, symbol |-> 2, string |-> 3]
D_Shift == [fields |-> 5, symbol |-> 1, shift_kind |-> 2, priorities |-> 3, action_index |-> 4, speculative_code |-> 5]
D_Symbol == [fields |-> 3, kind |-> 1, name |-> 2, start_symbol |-> 3]
SB == [fields |-> 1 + SCANNER_BLOCKS, shift |-> 1, scanner_block |-> 2]
SB_trans == [fields |-> SCANNER_BLOCKS, scanner_block |-> 1]    \* the first of the blocks

Field(p, struct, i, name) == Load(p, struct.fields, i, struct[name])
Value(p, struct, i, name) == Field(p, struct, i, name).v
Pointer(p, i) == Load(p, 1, i, 1)
Number(p, i) == Load(p, 0, i, 1).v
IsNull(cell) == cell.kind = "null"
Ended(cell) == IsNull(cell) \/ (cell.kind = "data" /\ cell.v = 0)

Tables(name) == Field(Root, D_ParserTables, 0, name)
State(s, name) == Field(Tables("state").v, D_State, s, name)

\* GOTO_STATE, where IS_BIT_SET; {} where the symbol has none.
GotoOf(s, X) ==
  LET valid == State(s, "goto_valid")
  IN  IF IsNull(valid) \/ X % 8 \notin Number(valid.v, X \div 8) THEN {}
      ELSE {Number(Tables("goto_table").v, X - State(s, "goto_table_offset").v) - 1}

\* PASS_CODE_FOUND; a pass that is counted has code or NULL.
PassCode(red, k) ==
  IF Value(red, D_Reduction, 0, "npass_code") <= k THEN [kind |-> "null"]
  ELSE IF IsNull(Field(red, D_Reduction, 0, "pass_code")) THEN [kind |-> "unmapped"]
  ELSE Pointer(Value(red, D_Reduction, 0, "pass_code"), k)
ReductionAt(red, passes) ==
  LET value(name) == Value(red, D_Reduction, 0, name)
      code(name) == Field(red, D_Reduction, 0, name)
  IN  [n |-> value("nelements"), symbol |-> value("symbol"), spec |-> code("speculative_code"), final |-> code("final_code"),
       prio |-> value("priorities"), action |-> value("action_index"),
       pass |-> [k \in 1..passes |-> PassCode(red, k - 1)]]

\* The elements of a counted array of state s.
Counted(s, n, v, Element(_, _)) == [k \in 1..State(s, n).v |-> Element(State(s, v).v, k - 1)]
ReductionsAt(s, passes) == Counted(s, "nreductions", "reductions", LAMBDA p, k : ReductionAt(Pointer(p, k).v, passes))
HintsAt(s, passes) ==
  LET hint(p, k, name) == Value(p, D_RightEpsilonHint, k, name)
  IN  Counted(s, "nhints", "hints",
              LAMBDA p, k : [depth |-> hint(p, k, "depth"), state |-> hint(p, k, "preceeding_state"),
                             red |-> ReductionAt(hint(p, k, "reduction"), passes)])
ErrorsAt(s) ==
  LET hint(p, k, name) == Value(p, D_ErrorRecoveryHint, k, name)
  IN  Counted(s, "nerrors", "errors",
              LAMBDA p, k : [depth |-> hint(p, k, "depth"), prod |-> hint(p, k, "symbol"), string |-> hint(p, k, "string")])
NameOf(X) == Value(Tables("symbols").v, D_Symbol, X, "name")

-----------------------------------------------------------------------------
(* scan_buffer, in scanner state j of state s at character c               *)

\* What a block has for a character.
InBlock(p, struct, j, c) ==
  Number(Load(p, struct.fields, j, struct.scanner_block + c \div SCANNER_BLOCK_SIZE).v, c % SCANNER_BLOCK_SIZE)
NextScan(s, j, c) == InBlock(State(s, "scanner_table").v, SB, j, c)

\* The shifts of an array, up to its end.
ShiftAt(p) ==
  LET value(name) == Value(p, D_Shift, 0, name)
  IN  [symbol |-> value("symbol"), kind |-> value("shift_kind"), prio |-> value("priorities"),
       action |-> value("action_index"), spec |-> Field(p, D_Shift, 0, "speculative_code")]
ShiftsAt(p) ==
  LET from[k \in Nat] == IF Ended(Pointer(p, k)) THEN <<>> ELSE <<ShiftAt(Pointer(p, k).v)>> \o from[k + 1]
  IN  from[0]
ShiftsIn(s, j) ==
  LET shift == Field(State(s, "scanner_table").v, SB, j, "shift") IN IF IsNull(shift) THEN <<>> ELSE ShiftsAt(shift.v)
DiffIn(s, j, c) ==
  IF IsNull(State(s, "accepts_diff")) THEN <<>>
  ELSE ShiftsAt(Pointer(State(s, "accepts_diff").v, InBlock(State(s, "transition_table").v, SB_trans, j, c)).v)
=============================================================================

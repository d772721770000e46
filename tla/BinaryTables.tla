---------------------------- MODULE BinaryTables ----------------------------
(***************************************************************************)
(* The tables as a binary: the definitions are laid out one after the      *)
(* other, a pointer as the offset of what it points to, with a list of the *)
(* places to relocate (write_tables.c); the reader adds where it has read  *)
(* them to (read_binary.c).                                                *)
(*                                                                         *)
(*   image     the units of the buffer: a small number is one, a field is  *)
(*             two, its cell and a Pad                                     *)
(*   strings   the string buffer; a string is one unit                     *)
(*   entries   the offsets of the names                                    *)
(*   relocs, strRelocs   the offsets of the pointers, of those to strings  *)
(*   laid      how many definitions are laid out                           *)
(*   loc       d_parser_tables_loc                                         *)
(*   memory    what the reader has: the image and the strings at Base      *)
(***************************************************************************)
EXTENDS Tables

CONSTANT Base    \* where the reader's buffer is

VARIABLES image, strings, entries, relocs, strRelocs, laid, loc, memory
binaryVars == <<image, strings, entries, relocs, strRelocs, laid, loc, memory>>

Pad == [kind |-> "pad"]
NoOffset == [null |-> -1, spec |-> -2, final |-> -3]

\* new_offset: fields are on even units.
Aligned(im) == IF Len(im) % 2 = 0 THEN im ELSE Append(im, Pad)

Flat(rows) == FoldLeft(LAMBDA cells, row : cells \o row, <<>>, rows)
Positions(cells, S) == SelectSeq([k \in DOMAIN cells |-> k], LAMBDA k : cells[k].kind \in S)

\* A pointer is the offset of a name, which is known.
Offset(cell) ==
  CASE cell.kind = "null" -> NoOffset.null
    [] cell.kind = "code" -> IF cell.v = <<"#spec_code">> THEN NoOffset.spec ELSE NoOffset.final
    [] cell.kind = "ptr" -> entries[cell.v]
\* Of the cells of a definition, of which strs, in order, are strings.
Stored(cells, strs, k) ==
  CASE cells[k].kind = "data" -> cells[k]
    [] cells[k].kind = "str" -> Num(Len(strings) + (CHOOSE n \in DOMAIN strs : strs[n] = k) - 1)
    [] OTHER -> Num(Offset(cells[k]))
Units(def, stored) == IF def.small THEN stored ELSE [u \in 1..(2 * Len(stored)) |-> IF u % 2 = 1 THEN stored[(u + 1) \div 2] ELSE Pad]

LayOut ==
  /\ Done /\ m.binary /\ laid < Len(out)
  /\ LET def == out[laid + 1]
         cells == Flat(def.elements)
         strs == Positions(cells, {"str"})
         ptrs == Positions(cells, {"ptr", "code", "null"})
         start == Len(Aligned(image))
         Place(k) == start + 2 * (k - 1)
     IN  /\ image' = Aligned(image) \o Units(def, [k \in DOMAIN cells |-> Stored(cells, strs, k)])
         /\ entries' = (def.name :> start) @@ entries
         /\ strings' = strings \o [n \in DOMAIN strs |-> cells[strs[n]]]
         /\ relocs' = relocs \o [n \in DOMAIN ptrs |-> Place(ptrs[n])]
         /\ strRelocs' = strRelocs \o [n \in DOMAIN strs |-> Place(strs[n])]
         /\ loc' = IF def.name = <<"parser_tables">> THEN Len(image) ELSE loc
  /\ laid' = laid + 1
  /\ UNCHANGED <<vars, memory>>

-----------------------------------------------------------------------------
(* read_binary_tables_internal                                             *)
Relocated(v) ==
  CASE v = NoOffset.null -> [kind |-> "null"]
    [] v = NoOffset.spec -> Fun(<<"#spec_code">>)
    [] v = NoOffset.final -> Fun(<<"#final_code">>)
    [] OTHER -> Ptr(Base + v)

\* The strings follow the image.
ReadTables ==
  /\ Done /\ m.binary /\ laid = Len(out) /\ memory = <<>>
  /\ LET tables == FoldSteps(LAMBDA mem, r : [mem EXCEPT ![r + 1] = Relocated(@.v)], image, relocs)
         linked == FoldSteps(LAMBDA mem, r : [mem EXCEPT ![r + 1] = Ptr(Base + Len(image) + @.v)], tables, strRelocs)
     IN  memory' = linked \o strings
  /\ UNCHANGED <<vars, image, strings, entries, relocs, strRelocs, laid, loc>>

At0(address) == memory[address - Base + 1]

-----------------------------------------------------------------------------
(* The tables a parser reads: the memory, or the compiled text.            *)
Ready == Done /\ (m.binary => memory # <<>>)
Defined(name) == out[CHOOSE n \in DOMAIN out : out[n].name = name]
\* A string is read where its pointer points.
Loaded(cell) == IF cell.kind = "ptr" /\ At0(cell.v).kind = "str" THEN At0(cell.v) ELSE cell
LoadCell(p, n, i, f) ==
  IF ~m.binary THEN Defined(p).elements[i + 1][f]
  ELSE IF n = 0 THEN At0(p + i)
  ELSE Loaded(At0(p + 2 * (n * i + f - 1)))
RootOf == IF m.binary THEN Base + loc ELSE <<"parser_tables">>

InitAll ==
  /\ Init /\ image = <<>> /\ strings = <<>> /\ entries = <<>> /\ relocs = <<>> /\ strRelocs = <<>>
  /\ laid = 0 /\ loc = 0 /\ memory = <<>>
NextAll == (WriteNext /\ UNCHANGED binaryVars) \/ LayOut \/ ReadTables
SpecAll == InitAll /\ [][NextAll]_<<vars, binaryVars>>
=============================================================================

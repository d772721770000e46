----------------------------- MODULE MCGenerator -----------------------------
(***************************************************************************)
(* The generator's parts around the LR tables, each by itself: the         *)
(* expansion of EBNF, the writing of action code, and the tables as they   *)
(* are written and read.                                                   *)
(***************************************************************************)
EXTENDS Naturals

CONSTANTS Longest,
          Menu, NChars, ScannerBlocks, SCANNER_BLOCKS, ByteLimit, ShortLimit, Base

VARIABLES part,    \* the part a behaviour is about; the variables of the others are 0
          source, read, b,
          code, c, inString, written, status,
          m, at, out, vgoto, offset, blocks, transBlocks, single, er,
          image, strings, entries, relocs, strRelocs, laid, loc, memory

F == INSTANCE MCFrontEnd

\* The values of the constants, and the parts that have them.
Values == INSTANCE MCActionCode WITH Codes <- {}, Productions <- <<>>, Terminals <- <<>>, Passes <- <<>>, out <- written
A == INSTANCE MCActionCode
       WITH Codes <- Values!MCCodes, Productions <- Values!MCProductions, Terminals <- Values!MCTerminals,
            Passes <- Values!MCPasses, out <- written
Built == INSTANCE MCTables WITH Machines <- {}
T == INSTANCE MCTables WITH Machines <- Built!MCMachines

front == <<source, read, b>>
action == <<code, c, inString, written, status>>
tables == <<m, at, out, vgoto, offset, blocks, transBlocks, single, er>>
binary == <<image, strings, entries, relocs, strRelocs, laid, loc, memory>>

NoSource == source = 0 /\ read = 0 /\ b = 0
NoCode == code = 0 /\ c = 0 /\ inString = 0 /\ written = 0 /\ status = 0
NoTables == /\ m = 0 /\ at = 0 /\ out = 0 /\ vgoto = 0 /\ offset = 0 /\ blocks = 0 /\ transBlocks = 0
            /\ single = 0 /\ er = 0 /\ image = 0 /\ strings = 0 /\ entries = 0 /\ relocs = 0
            /\ strRelocs = 0 /\ laid = 0 /\ loc = 0 /\ memory = 0

Init == \/ part = "front" /\ F!Init /\ NoCode /\ NoTables
        \/ part = "code" /\ A!Init /\ NoSource /\ NoTables
        \/ part = "tables" /\ T!InitAll /\ NoSource /\ NoCode
Next == \/ part = "front" /\ F!Read /\ UNCHANGED <<part, action, tables, binary>>
        \/ part = "code" /\ A!Next /\ UNCHANGED <<part, front, tables, binary>>
        \/ part = "tables" /\ T!NextAll /\ UNCHANGED <<part, front, action>>
Spec == Init /\ [][Next]_<<part, front, action, tables, binary>>

-----------------------------------------------------------------------------
\* The grammar built for a production has the words its EBNF denotes (gram.c rep_EBNF,
\* new_EBNF_production, finish_productions).
SameLanguage == part = "front" => F!SameLanguage

\* The action code that is written is the code that C reads, with the escapes replaced
\* (write_tables.c write_code).
Faithful == part = "code" => A!Faithful

\* Every goto is read as the machine has it (write_tables.c buildGotoTable).
GotosRead == part = "tables" => T!GotosRead

\* The reductions and hints are read as the machine has them (write_tables.c
\* write_reductions, write_error_data).
ActionsRead == part = "tables" => T!ActionsRead

\* The scanners are read as the machine has them (write_tables.c write_scanner_data).
ScansRead == part = "tables" => T!ScansRead

\* The definitions are in an order in which C can compile them (write_tables.c).
NamesDefined == part = "tables" => T!NamesDefined
=============================================================================

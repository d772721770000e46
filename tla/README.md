# A verification of DParser

DParser is a scannerless GLR parser generator in C: `make_dparser` turns a grammar
into tables (`gram.c`, `lex.c`, `lr.c`, `write_tables.c`), and the runtime (`parse.c`,
`scan.c`, `dsymtab.c`) parses with them, following all the parses of an ambiguous or
not yet decided input at once. These modules model the generator from EBNF to the
written tables, the runtime with its engine, its ranking of parses, its commits, its
error recovery and its symbol table, and the containers below both. TLC checks them on
small instances; TLAPS proves what holds for every instance.

## Inventory

| Component | State | Operations | Correct if | Here |
|---|---|---|---|---|
| GLR engine, `parse.c` 142-521, 897-1360, 1807-1873 | SNodes, ZNodes, PNodes; `snode_hash`, `pnode_hash` of one generation; `reductions_todo`, `shifts_todo`; `accept` | `exhaustive_parse`: reduce all at a location, shift all, answer | accepts exactly the language, ends, keeps every parse | `GLR`, `GSS` |
| Ranking of alternatives, `parse.c` 522-895, 1361-1465 | priorities, associativities, heights on PNodes | `check_child`, `check_path_priorities`, `cmp_pnodes`, `cmp_stacks` | keeps the preferred tree, loses no sentence | `Priorities` |
| Commit, `parse.c` 1461-1614, 1853-1872, 2038-2128 | `evaluated`, children | `commit_tree`, `resolve_ambiguities`, `commit_stack`, final actions, passes | each action once, in order, on the chosen tree | `Commit` |
| Error recovery, `parse.c` 1616-1767, `lr.c` 320-360 | the last SNodes, hints, `last_syntax_error_line` | restart from an older node with text skipped | moves on, reports, leaves a sentence with rules broken off | `ErrorRecovery` |
| Runtime scanner, `scan.c` | results | `scan_buffer`, and the choice `shift_all` makes | reports the matches the terminals denote | `Lex`, for literals `GLR!Scan` |
| White space, `parse.c` 1159-1173, 1883-1960 | location | skip between tokens | skips the longest run | `GLR!White`, one character |
| Symbol table, `dsymtab.c` | scopes linked by `search`, `up`, `up_updates`; symbols linked by `update_of`; one hash table; pools | `new`, `enter`, `global`, `commit`, `equiv`, `free` of scopes; `new`, `find`, `update`, `next` of symbols | every path reads its own declarations and updates; nothing is lost when the table grows; nothing freed is used | `DSymtab`, `View`, `SymHash`, `ScopePool` |
| Grammar front end, `gram.c` 399-549, 880-1000 | productions under construction | the calls of `grammar.g`'s actions, EBNF, regex productions | same language | `FrontEnd`, `Regex` |
| Grammar analysis, `gram.c` 574-661, 760-860 | `nullable`, priorities of rules | `compute_nullable`, numbering, propagation of operators | nullable exactly if it derives the empty string | `Grammar`, `Suite` |
| LR tables, `lr.c` | states, gotos, actions, hints | `build_LR_sets`, `build_actions`, the two kinds of hints | tables of the grammar | `LRTables`, `ErrorRecovery` |
| Lexer generator, `lex.c` | NFA, DFA, live and accepted actions | `build_regex_nfa`, `nfa_to_scanner`, `build_transitions` | the words of the terminals, and what a scan must report on the way | `Regex`, `Lex` |
| Table writer and reader, `write_tables.c`, `read_binary.c` | the definitions written; a goto table all states lie in; buffer and relocations | write as C or as a binary, read | what is read is the machine | `Tables`, `TableReader`, `BinaryTables` |
| Action code, `write_tables.c` 1050-1260 | the quote that is open | `write_code` | the code C reads, with the escapes replaced | `ActionCode` |
| Containers, `util.c`, ZNode sets of `parse.c` | vectors, sets with a limited probe sequence | add, find, grow | nothing lost, nothing outside | `Containers` |
| Node memory, `parse.c` 24-140, 222-344, 388-456 | reference counts, free lists | `ref`, `unref`, `free` | nothing in use is freed, all is freed | not modelled |
| Rust runtime, Python binding, command line, interface, examples | | | | not modelled |

How they meet: the generator's tables are the engine's only knowledge of the grammar.
The engine calls the scanner for every node waiting at a location, and the white-space
function after every token. Each PNode carries a pointer to a scope; the actions of the
grammar call the symbol table, and the engine hands the pointer on along every path.
At the end (or, with `commit_actions_interval`, on the way) final actions run and may
commit a scope. When no stack is left, error recovery puts one back.

What is hard here: the program has one thread, but the parse is a nest of interleaved
paths. A node found in a hash, a link shared by two paths, a reduction queued before the
last link arrived, a height computed before a child was replaced, a scope pointer held by
two paths: each is state read long after it was written, in an order that the input
decides. `PROJECT.json` lists these hazards with the lines where they bite.

## Modules

| Module | Models | Correspondence |
|---|---|---|
| `Helpers`, `Words` | | Operators on sets and sequences; sets of short words, the reference for EBNF and regular expressions. |
| `Grammar` | `gram.c` | A grammar is a sequence of rules and the spelling of the terminals. `CodedNullable` is what `compute_nullable` computes, `Nullable` the definition, `Derived` the reference language. |
| `LRTables` | `lr.c`, `write_tables.c` 1311-1330 | `ItemSets` is the least set of states closed under `build_new_states`; `Reductions`, `Hints`, `TablesFor` are the fields of `D_State`. The state numbers differ from the program's, which nothing depends on. |
| `GLR` | `parse.c`, `scan.c` | The record `p` is the `Parser`; pointers are indices. `Reduce` is one turn of the inner loop of "reduce all", `Shift` one call of `shift_all`, `Finish` the answer. Each is the whole handler: `ReduceOne` builds all the paths, PNodes and links, and queues what they cause. |
| `Priorities` | `parse.c` | What `GLR` asks: whether an operand may be a child, which of two PNodes is kept, which stacks are dropped. `ranks` of a grammar says which of the four ways of ranking are on. |
| `Commit` | `parse.c` | `GLR` with the commits during the parse and at its end; `log` is what the final actions are given. |
| `ErrorRecovery` | `parse.c`, `lr.c` | `GLR` with `error_recovery` where no stack is left, and with parsers that are used again. |
| `GSS` | what the engine promises | A stack of `<<state, location>>` nodes that grows by justified links, in any order. |
| `GLRStack` | | The links behind the nodes of `GLR`, the problem of `GSS` they belong to, and what is assumed of tables. |
| `Suite` | | Grammars, their tables, inputs and languages. |
| `DSymtab` | `dsymtab.c` | `sc` and `sy` are the scopes and symbols ever made; `at[p]` is what path `p` holds. One action per operation of the interface, `Fork` and `Drop` for the engine's splitting and dropping of paths. The walks over the links of scopes (`Current`, `Find`, `FindInScope`, `Equiv`, `Table` of a commit) are recursive functions of the scope a loop or a call of the code has reached. |
| `View` | what the symbol table promises | For every path a tree of frames with a value for every name. |
| `SymHash` | `dsymtab.c` | The hash table of the top scope with its growth, the lists of the copies, `commit`, and the walk over a scope. |
| `ScopePool` | `dsymtab.c`, `parse.c` | The pools scopes are registered with, and the two that free them, the user and the parser. |
| `Containers` | `util.c`, `parse.c` | `vec`, `set` and `zset`: a vector, a set, the ZNodes of an SNode. |
| `FrontEnd` | `gram.c` | The builder that the actions of `grammar.g` call, one operator per call. |
| `Regex` | `lex.c`, `gram.c` | The NFA built token by token; the expression of a regex production. |
| `Lex` | `lex.c`, `scan.c`, `parse.c` | The scanners of states, one scan, and what `shift_all` makes of its results. |
| `ActionCode` | `write_tables.c` | `write_code`, one action per thing copied or replaced. |
| `Tables`, `TableReader`, `BinaryTables` | `write_tables.c`, `read_binary.c`, `parse.c`, `scan.c` | The definitions in the order they are written; what the parser reads from them; the same laid out, written, relocated and read. |
| `HelperProofs`, `Folding` | | Lemmas: numbers, sequences, the operators of `Helpers`; folds. |
| `GSSProofs`, `GLRNodes`, `GLRProofs`, `LanguageProofs` | | Theorems about `GSS`; the invariant of `GLR` and what its operators do to it; theorems about `GLR`; `Derived`, and what `GLR` accepts. |
| `StructureProofs`, `SymtabProofs` | | Theorems about `ScopePool`, `Containers` and `SymHash`; about `DSymtab` and its view. |
| `MC*` | | Constants and properties for TLC. `MCStructures`, `MCGenerator` and `MCScanner` put parts that do not interact into one specification each: the variable `part` says which one a behaviour is about, and the variables of the others do not change. |

`Mutant_` operators stand before some definitions: the same definition with a plausible
fault. For every property of a passing run there is one that, put in place of the
definition, breaks the property; `PROJECT.json` lists the pairs.

Besides the runs below, the model of the engine was compared with the compiled program:
the sentences accepted and the numbers of nodes agreed on thousands of
grammar and input pairs, on the grammars of `Suite` and on random ones. The programs
behind the disagreements listed below were run, too.

### Configuration of the engine's model

Literal terminals without term priorities, scanned as `D_SCAN_ALL`; no actions during the
parse, speculative or other, so all scopes are the top scope; no partial parses. `Commit`
adds final actions, `ErrorRecovery` adds `error_recovery`, and the priorities of
terminals, regular expressions and `D_SCAN_LONGEST` are in `Lex`. A set of ZNodes is a
sequence in `GLR`; the program turns it into a hash when it has more than
`INTEGRAL_VEC_SIZE` members, which is what `zset` of `Containers` is about.

### Rules of use of the symbol table

`dsymtab.c` leaves much to the grammar's actions. The passing run assumes three rules,
and the members of `Usage` lift them:

* a declaration goes into a scope that no other live path can reach (`"shared"` lifts it);
* a path re-enters only the frames around its current one (`"anywhere"`);
* the parse is committed once, at its end (`"each"`: every block's final action commits;
  `"interim"`: the parse goes on after a commit).

Declarations are guarded by `find_D_Sym_in_Scope`, as the documentation asks. Symbols are
values: the sequence of the paths that declared and updated them, which is enough to see
whose writes a read includes. Of `ScopePool`, `Usage` lifts: what a free without force
has left is not used (`"retry"`), and `initial_scope` is set before the first parse and
kept (`"initial"`). In `SymHash`, `Repeats` lifts: a scope declares a name once.

## Runs

| Run | Question | Result |
|---|---|---|
| `GLR_suite` | Does the engine accept the language, end, implement `GSS`, keep its hashes and lists in order, keep every derivation where all are kept, the flattest where height ranks, the intended one where operators do? | holds on thirteen grammars, six of them again with ranking |
| `GSS_suite` | Is a saturated stack sound and complete, and do the tables meet the proofs' assumptions? | holds on all grammars of `Suite` without ranking |
| `Commit_actions` | Are the final actions those of one derivation, once each and in order, and those run early its first ones? Do passes visit that tree? | holds on five grammars, for every interval and switch |
| `Recovery` | Is every error reported, does every repair move on, is what is accepted a sentence with rules broken off, and is no error the end that a rule's last string follows? | holds on three grammars, two parses each |
| `Scanner` | Does the NFA have the words of the expression? Are the terminals shifted the matches they denote? | holds |
| `Generator` | Does EBNF keep its words, action code its meaning; are the tables that are read the machine's? | holds |
| `Structures` | Do vectors, sets and the symbols' hash table lose nothing; are scopes freed once and not used afterwards? | holds |
| `DSymtab_paths` | Does each path read as if it had a table of its own? | holds under the rules |
| `GLR_late` | Acceptance, where a link reaches a ZNode late. | `bd` is rejected |
| `Commit_interim` | Early actions, where shifts wait. | an action of a dead path runs |
| `DSymtab_interim` | Updates, after a commit. | one is lost |
| `Lex_order` | The matches, where actions and terminals are numbered in different orders. | one is lost |

`GLR_late` and `GSS_suite` together locate the first violation: the stack of the same
grammar, grown until nothing can be added, accepts `bd`, so the tables are right and the
engine stopped short of a link.

### Disagreements

The violations, and those below, are disagreements between the documentation and the
program, quoted under "findings" in `PROJECT.json`. The ones without a run are
reproduced by the settings named here.

| Source | What | Reproduced by |
|---|---|---|
| `gram.c` 594 | a production nullable by a later rule is missed | `MCGLR`, `RecognizesLanguage`, `Grammars = {"second"}` |
| `parse.c` 891 | trees are ranked by stale heights | `MCGLR`, `FlatTree`, `Grammars = {"flat"}` |
| `dsymtab.c` 577 | updates are lost when every block commits | `MCDSymtab`, `NoUpdateLost`, `EachSpec`, `Usage = {"each"}` |
| `dsymtab.c` 643 | a declaration is seen by other paths | `MCDSymtab`, `PathsIndependent`, `Usage = {"shared"}` |
| `dsymtab.c` 264 | equivalent scopes that read differently | `MCDSymtab`, `EquivKeepsView`, `Usage = {"anywhere"}` |
| `dsymtab.c` 157 | growth reverses the buckets | `MCSymHash`, `KeepsOrder`, `InitialSizes = {1}` |
| `dsymtab.c` 848 | the walk over a scope stops at an empty bucket | `MCSymHash`, `VisitsAll`, `InitialSizes = {2}` |
| `dsymtab.c` 506 | a free without force leaves freed scopes in the pool | `ScopePool`, `UsesLive`, `Usage = {"retry"}` |
| `parse.c` 2082 | the user's scope is freed as the parser's | `ScopePool`, `UsesLive`, `Usage = {"initial"}` |
| `parse.c` 1563 | an empty production's action runs once for two occurrences | `MCCommit`, `FinalActions`, `Grammars = {"shared"}` |
| `parse.c` 1576 | actions of EBNF lists run again after every splice | `MCCommit`, `FinalActions`, `Grammars = {"fixup"}` |
| `parse.c` 1743 | the skipped text is taken for the whole tree | `MCErrorRecovery`, `WholeTree`, `Grammars = {"open"}` |
| `parse.c` 1763 | a repair at the end of the input fails | `MCErrorRecovery`, `Recovers`, `Grammars = {"one"}` |
| `lr.c` 344 | one hint for two rules has the depth of one and the rule of the other | `MCErrorRecovery`, `Recovers`, `Grammars = {"shared"}` |
| `parse.c` 1673 | stacks that die at different locations are no error | `MCErrorRecovery`, `EachReported`, `Grammars = {"lengths"}`, `MaxParses = 1` |
| `parse.c` 1677 | the line of the last error outlives the parse | `MCErrorRecovery`, `EachReported`, `Grammars = {"list"}` |
| `lex.c` 257 | `a+b+` accepts `abab` | `MCRegex`, `SameWords`, `Shape = "any"` |
| `gram.c` 971 | a string with `\|` in a regex production has no parentheses | `MCRegex`, `SameWords`, `Shape = "any"` |
| `lex.c` 412 | a match that may go on is not reported when the scan ends elsewhere | `MCLex`, `ShiftsMatches`, `Menu = "alive"` |
| `lex.c` 124 | a trailing context outranks a match before it has been seen | `MCLex`, `ShiftsMatches`, `Menu = "trailing"` |
| `lex.c` 461 | a string shares the transitions of one that ignores case | `MCLex`, `ShiftsMatches`, `Menu = "case"` |
| `parse.c` 1236 | term priorities compare what different stacks expect | `MCLex`, `StacksApart`, `Menu = "stacks"` |
| `write_tables.c` 1093 | a string in an action ends one character early | `MCActionCode`, `ReadsLikeC`, `Codes <- MCMessages` |
| `write_tables.c` 1108 | an apostrophe in a comment opens a string | `MCActionCode`, `ReadsLikeC`, `Codes <- MCRemarks` |
| `write_tables.c` 1156 | `$5` in a rule of two elements is written | `MCActionCode`, `ElementsInside`, `Codes <- MCChildren` |
| `write_tables.c` 1055 | the first terminal counts as not found | `MCActionCode`, `Numbered`, `Codes <- MCFirstString` |
| `write_tables.c` 1719 | the number of scanner blocks is an option, but compiled in | `MCTables`, `ScansRead`, `Menu = "blocks"`, `ScannerBlocks = 4` |
| `write_tables.c` 1472 | strings of hints are escaped in a binary | `MCTables`, `ActionsRead`, `Menu = "hints"` |
| `write_tables.c` 1412 | passes are counted but NULL in a binary | `MCTables`, `ActionsRead`, `Menu = "passes"` |

### Properties

Of the engine: `RecognizesLanguage` compares the answer with `Derived`. `ImplementsGSS`
says that every step adds only links that a goto, a token or a reduction justifies on
the stack as it was. `HashesUnique` is what the hash lookups take for
granted and the code asserts. `WorkInOrder` is what reading only the heads
of the work lists takes for granted. `NothingTwice` is why cyclic grammars end;
`Terminates` is that they do. `ForestComplete`: with ranking off, the forest has every
derivation. `FlatTree`: with height ranking on, every alternative left is as flat as any
derivation of its span. `IntendedTree`: with priorities on, the tree is the one a
precedence climber builds.

Of commits: `FinalActions` compares the log with the derivations of the input,
`CommittedPrefix` what has run so far with the beginnings of them, `PassVisits` the order
of a pass with the tree. Of recovery: `ErrorsReported`, `Advances` (no repair leaves the
parse where it was), `Repaired` (what was skipped ends with the last string of a rule,
and the rest is a sentence), `WholeTree`, `Recovers`.

Of the symbol table: `ImplementsView` (every operation does to the acting path's view
what its name says, and nothing to another's), `ReadsInnermost`, `EquivKeepsView`,
`NoUpdateLost`; `InPlace` and `FindsLast` of its hash table; `UsesLive` and `FreedWithTop`
of its pools. Of the containers: `VecFits`, `SetHolds`, `ZNodesHold`.

Of the generator: `SameLanguage` and `SameWords` compare sets of words up to a length,
`ShiftsMatches` what is shifted with the matches of the terminals, `Faithful` an action's
text with how C reads it. `GotosRead`, `ActionsRead`, `ScansRead` compare what is read
from the tables, compiled or binary, with the machine they were written from; the number
of a reduction's action, which the writer makes of the production and the rule, must lead
back to a rule that is not to be told apart from the reduced one. `NamesDefined`
is that nothing is used before it is defined.

### Bounds

* `Suite`: the tests' grammars g1 (hidden left recursion), g2 (cycle), g3 (ambiguous), g6
  (nullable tails), g12 (palindromes), g14 (dangling else), g21 to g23 (operators, also
  empty ones), a calculator, a sign that binds less than an operator, and `prefix`,
  `tail`, for terminals that are prefixes of each other with white space, and for right
  recursion under a nullable tail; `second`, `late`, `flat` for the disagreements. Every
  input up to length 6 (g2 4, g3 7, g14 5, `prefix` 5, `calc` 5, `second` 4, `late` 2,
  `flat` 5) over the characters of the terminals. Length 6 gives every grammar several
  locations at which stacks split, merge and die; g3 reaches `a+a+a+a`, the first with
  alternatives inside alternatives. The engine is deterministic, so a longer input costs
  one more behaviour, not an interleaving.
* `MCGSS!MaxLength` = 3, since the assumptions are evaluated over all positions.
* `Commit`: intervals 0, 1, 2 and 100, each with every combination of the switches, and
  the sentences up to a length of its own for each grammar: the first commit is before,
  between and after the forks.
* `ErrorRecovery`: texts up to length 5, and `MaxParses` = 2, since what outlives a parse
  is one line number; the block grammar has no newlines.
* `DSymtab!MaxSteps`: 6 operations and up to two paths and two names,
  both interchangeable: a declaration in two frames, a fork, an update on each side and
  a return to the outer frame, then the commit.
* `SymHash`: tables of 1 and 2 buckets, three names that collide in the one and part in
  the other, 5 symbols, and two copies. The table of 1 bucket grows once, in the middle of
  a commit among others; that of 2 does not. (`SymbolsInPlace` is proved for any number of
  symbols.)
* `ScopePool`: 4 scopes and 2 parses: two top scopes with a scope below each.
* `Containers`: 7 elements with one hash in every table of the sizes they lead to, more
  than a probe sequence has places; vectors up to 70, past the third growth.
* `FrontEnd`: productions of up to two elements, nested groups among them, on words up to
  length 4. `Regex`: up to three elements, the words up to 4. Elements that would share a
  state with a neighbouring repetition are left out by `Shape = "apart"`.
* `Lex`: up to three terminals of eight and ten texts; `"steady"` leaves out what the
  disagreements are about: terminals of which one may still go on when another is left,
  actions in another order than their terminals, strings after one that ignores case, a
  terminal of low priority beside one with a trailing context.
* `ActionCode`: every text of up to five of the characters quote, backslash, `$`, `/`, `*`,
  newline and a letter, and every escape by itself and in pairs. It stands in no string or
  comment that `write_code` reads otherwise than C does (see the disagreements).
* `Tables`: ten grammars of `Suite` and their variations with code, `${action}` numbers,
  terminals made from productions, hints, quotes, passes and longest matches; 8 characters in 2 blocks, and limits of 3 and 5 where the program
  has 254 and 32384, so that every size of a scanner table occurs.

`CHECK_DEADLOCK FALSE` everywhere: a parse ends, a problem is answered, a text has been
read, and the bounds on operations stop the others.

### Fairness

`Terminates` assumes `Fairness`, weak fairness of `Next`: the loop of `exhaustive_parse`
runs until it returns and nothing else runs in between. `[]<>(~Running) \/
[]<><<Next>>_vars` is that formula with its `ENABLED`, which is `Running`, written out:
TLC would otherwise build the successors of every state again to decide it. Nothing else
is assumed fair.

## Proofs

Every theorem is proved for all values of the constants that satisfy the named
assumptions. TLC evaluates those assumptions for the grammars of `Suite`, so they are
met by the tables `LRTables` builds: `ProblemAssumption` and `CompletenessAssumption` of
`GSS` in `GSS_suite`, `TableAssumption`, `GrammarAssumption` and `InputAssumption` of
`GLRStack` in `GLR_suite`, `BoundsAssumption` of `ScopePool`,
`ContainersAssumption` and `TableAssumption` of `SymHash` in `Structures`,
`StepsAssumption` of `DSymtab` (a number of operations, any one) in `DSymtab_paths`. The
theorems about `ScopePool` and `DSymtab` suppose that the user of the table keeps the
rules, `Usage = {}`, as the runs `Structures` and `DSymtab_paths` do; `LastIsFound` that
no scope declares a name twice, `Repeats = FALSE`. Of `Hash`, the hash of a name, nothing is
assumed but that it is a number, and of `InitialSizes` that no size is above twice another,
which one size, as in the code, always satisfies. An element of a set is its own hash.

| Module | Theorem | Says |
|---|---|---|
| `GSSProofs` | `TypeAlwaysOK` | links join nodes of the stack, within the input |
| | `LinksAlwaysDerive` | every link `<<u, X, v>>` covers a span that `X` derives |
| | `AcceptsOnlyTheLanguage` | a stack that accepts does so for an input of the language |
| | `MissesNothing` | a stack that has grown until nothing can be added accepts all of the language |
| `GLRProofs` | `TypeCorrect` | every index in the nodes, hashes and lists is in range, every span inside the input |
| | `OneOfEach` | one live SNode per state, one latest PNode per symbol and span |
| | `ListsInOrder` | the work lists are sorted, with nothing behind the location the engine is at |
| | `NothingBuiltTwice` | no link, no predecessor of a link and no alternative is there twice |
| | `EngineIsGSS` | the engine implements `GSS` |
| `LanguageProofs` | `AcceptsOnlySentences` | the engine accepts only inputs that the grammar derives |
| `StructureProofs` | `FreedIsNotUsed` | no scope is read or freed once it is freed |
| | `NothingLeaks` | a top scope takes the scopes below it along |
| | `VectorsFit` | a vector is never longer than the room it has |
| | `SetsHold` | a set finds what was added and nothing else, through every growth |
| | `ZNodesFound` | so does the set of the ZNodes of a node, as a vector and as a table |
| | `SymbolsInPlace` | each symbol is in one place, where it is looked for |
| | `LastIsFound` | the symbol that is found is the last one of its name, until the table grows |
| `SymtabProofs` | `TableInvariant` | what `search` finds is what the history of the path made |
| | `TableImplementsView` | each path reads as if it had a table of its own: `DSymtab` implements `View` |
| | `InnermostIsRead` | a name means its innermost declaration, in its last version on the path |
| | `EquivalentScopesRead` | the scope of `equiv_D_Scope` reads as the scope itself |

### The stack: `GSSProofs`

The danger is in the pops: `reduce_one` counts links and does not look at their symbols.
`LinksDerive` is not inductive by itself, because nothing in it says that a popped path
spells the reduced rule. The invariant `IInv` adds that every link follows the goto of its
symbol (`LinkOK`). A state that holds an item after its k-th element is entered only by
that element, from a state that holds the item before it (`GotoMovesDot`); so, by
induction down the path (`PathHoldsItems`, with `SetInduction`), the links spell the
rule, and the span is derived (`PathDerives`, by `DerivedIsClosed`). Acceptance needs
`StartIsInitial`: the end of the augmented rule is reached from the root alone.

`MissesNothing` is the converse. A derived span has a rank, the number of rounds its
derivation needs (`DerivedIsGrounded`). By induction on the rank, a saturated stack holds
a link for every derived span that starts at a node whose state expects its symbol: for a
token by a shift, otherwise the spans of the rule's elements, all of lower rank, form a path,
and the reduction of the rule is justified at its end (`GotoComplete`). With it, a
sentence that the engine rejects is one whose links its work lists missed, which is what
happens in `GLR_late`.

### The engine: `GLRNodes`, `GLRProofs`

The invariant is `Whole`, the conjunction `ParserOK /\ HashPOK /\ ForestOK`, each part about the fields
it depends on, so that an operator disturbs only the parts whose fields it changes. What
the runs check is not inductive; it is strengthened by

* `Owned` and `Joined`: a ZNode is a link of one SNode, and joins the location its PNode
  starts at with one at or behind its end. Without them the span of a reduction, which is
  taken from the two ends of a popped path, need not be inside the input (`ReducedSpan`).
* `HashOK`: `find_SNode` compares states only, never locations. One node per state in the
  hash is kept because all nodes a goto of the same symbol enters while the engine is at
  one location end at the same place: a terminal's only match, or the blanks behind the
  location (`Enters`, `Lands`).
* `TodoOK`, `ShiftsOK`: besides the order, every queued reduction is one of the tables for
  the state of its node, and its ZNode is a link of that node. `ForgetOldNodes` depends on
  it, since it drops from the hash whatever is behind the next location.
* `HashPOK`: PNodes of one symbol and span that are in the hash lead to one latest version.
  The hash holds old versions too, so it does not follow from what is in the hash, and
  `AddPNode` must be shown to link a new version behind the one it replaces.
* `ForestOK`: the alternatives of a PNode have its symbol and differ in their rule or in the
  latest version of a child; terminals are told from other nodes by their symbols, which
  is why `SpellingOK` asks that `S'`, the symbol of the root, is no terminal.
  `PNode_equal` compares the latest versions of children, and those change after it. But when
  `AddPNode` makes a new version, it replaces the old one for every PNode that led to
  the old one, so two PNodes lead to one version only if they did before (`LatestsApart`),
  and two alternatives are built alike only if they were (`BuiltBefore`).
* `Distinct` in `ZNodeOK` and `Single`: a link leads to a node once, and the links of a
  node have different PNodes. `GotoPNode` looks for a link before it makes one.
* `AcceptOK`: `accept` is the farthest node in an accepting state, which makes the answer
  that of `GSS`.

A step of the engine is a fold over paths or tokens, and what an earlier path adds is there
for a later one to read. `ImplementsGSS` speaks of the stack as it was before the step. So
the folds are shown to add links out of one set, those justified before the fold began,
and the paths are those of the parser before it. `Folding` proves once that what every step
of a fold keeps is true of its result; each fold of `GLR` is an instance of it.

### From the engine to the language: `LanguageProofs`

`AcceptsOnlySentences` puts the two together. `Sound` is `GSSProofs` for the links of the
engine, with `Derived` of the grammar as what is derived. That this problem satisfies the
assumptions of `GSSProofs` is proved here, not assumed (`JudgedConsistent`): `Derived` is
computed as a fixpoint, and the computation ends at a set that holds the tokens and is
closed under the rules (`DerivedCloses`), by induction on the number of spans that are
missing. Every step of the engine is a step of `GSS`, so its links keep the invariant of
`GSSProofs` (`GrowKeeps`), and an accepting node means that the start symbol derives the
whole input (`AcceptingDerives`). This is one half of `RecognizesLanguage`.

### The pools: `StructureProofs`

A scope is registered with the pool that `get_scope_pool` finds by a walk over `up` and
then `search`, and is used through other walks; what is freed is a pool. So the invariant
is about the top scope of a scope, which `search` leads to (`TopIn`): the pool of a live
top scope is the set of scopes with that top scope, and a scope is freed exactly if its
top scope is. All the scopes that a walk reads have one top scope (`ReadKeepsTop`), the
pool that is found is that top scope's (`PoolIsTop`), and neither changes when more scopes
are made (`TopStays`). The walks are recursive functions over scopes, in which every step
leads to an earlier scope; the lemmas unfold them and go by induction over the scopes
(`WalkExists`, `ScopeInduction`). The parser's part is `ParserOwns`: the top scope it
would free is one that it made and has not freed, and the user owns nothing below it.

### The containers: `StructureProofs`

A vector is empty, in its structure, or on the heap with room for eight times a power of
two (`VecOK`); `Grown` recognizes when the room is used up from the length alone.

A lookup in a set stops at the first gap and after five slots. The invariant of a set says
what makes that sound (`SetOK`): every element is in one of its five slots, no slot before
its own is empty, and no element is in two. An addition fills a gap, which opens none, and
nothing is ever taken out. When a table grows, the members of the old one are added to the
new one first, and any of them may find no gap either; so the model, and the lemmas
(`AddToHolds`, `RebuiltHolds`), speak of a table and what still waits to be added, of which no
element is lost. An addition that is still waiting when there is no larger size is not in
the model: its guards, `a.rest = <<>>`, end there, at 536870909 slots, and the C would read
past the end of `d_prime2`.

### The hash table: `StructureProofs`

`TableOK(t, h, names, D)` says that the table `t` holds the symbols `D`, each once and in
the bucket of its hash, `ListsOK(D)` that the lists of the copies hold the others, each
list of later symbols than the lists behind it and than `D`. Adding a symbol
(`SymhashAddOK`), with the growth that may follow (`RefilledOK`), a list (`AddedAllOK`) and
all lists, the oldest first (`CommitKeeps`), are folds over sequences; `Folding!FoldAdvances`
proves once that what each step takes from one set of symbols to the next holds at the end.

Inside a bucket, of two symbols with one name the later one comes first (`Ordered`), as long
as no list holds a name twice and the table has not grown: these are the two ways in which
`commit_ll` and `symhash_add` reverse the order, which "Disagreements" lists.

### The symbol table: `SymtabProofs`

Two orders of scopes meet in the table. A name is looked up along `search`, from a scope
to an older one; the versions of a symbol along `up_updates`, the history of the path.
`ImplementsView` says that the two together give every path a table of its own. It is not
inductive: nothing in it says where the scopes that are looked up come from. The invariant
`Inv` adds

* `Tree`: a scope is a frame one deeper than the scope it was opened in, or a copy, with the
  depth and `up` of the scope it searches; and the scope it searches is the last one of at
  most its depth in the history before it (`LevelIn`). So the chain of `search` is a subset
  of the history, and two paths that share a scope share all that is behind it.
* `PathOK`: the scope that a path saved of a frame around its own is the last scope of that
  depth in its history, and the one the next frame inside was opened in. With `Tree`, a
  scope that is entered again may search the saved scope, and the frames of a path
  are named alike by `up`, by `search` and by what the path saved (`FindByFrame`).
* `Declared` and `Distinct`: an update belongs to a declared symbol of the same scope,
  followed once; a frame, however many scopes it is spread over, declares a name once.
  They hold until the commit, which sets `update_of` of declared symbols too.
* The number of scopes is at most the number of operations, so every frame is one of `View`.

`SameLinks` and `SameContent` say what a step leaves alone: a set of scopes closed under
the links in which every lookup reads as before (`ViewKept`). For a path that does not act,
that set is its history, which a new scope does not enter, and in which a declaration or
an additional update is never put, because the scope it goes into is `Unshared`: this is
where the rule of use is needed. For the path that acts, `OpenStep`, `EnterFrame`,
`DeclareStep`, `UpdateStep` and `UpdateMoreStep` show that its view changes by just that
one value or frame. An update is proved as a copy of the current scope, which reads as
the scope did (`CopyPath`), with an entry put in its list (`UpdatePath`). A
commit empties the scopes of the chain into the hash table and moves `update_of` to the
current versions; since the table has each name once (`Distinct`), the order in which
`commit_ll` fills the buckets does not show (`CommitReads`).

The view of a lookup is the frame by frame walk of `View!Declaring` (`InnermostRead`). For
`equiv_D_Scope`, whose loop passes over deeper scopes and stops at a declaration or at
an update of something the scope can see: every scope it stops at or passes at the
same depth finds the same symbols, by `Tree`, and the same versions, by `Declared`, of all
symbols that can be found from there (`EquivsAlike`, `FindDeclared`).

The walks are recursive functions in which every step leads to an earlier scope.
`SteppingExists` proves once that such a function exists; each walk is unfolded by an
instance of it, and the lemmas about walks go by `CountingInduction` over the scopes.

### What is only model-checked

* The other half of `RecognizesLanguage`: it is false in general (`GLR_late`), and no
  condition on grammars is known under which it is true; on the grammars of `GLR_suite`
  TLC checks it.
* `ForestComplete`, `FlatTree`, `IntendedTree`: recursive definitions over
  trees, for which the provers have no induction.
* `Terminates`: liveness. It holds because a cyclic grammar adds nothing twice
  (`NothingBuiltTwice`); that the steps run out is not proved.
* `VisitsAll` and `KeepsOrder` of `SymHash`, which fail.
* `Commit`, `ErrorRecovery`, the scanner and the generator, whose properties
  compare with references that are recursive, or which use recursive operators
  themselves.
* The symbol table outside the rules of use. There `NoUpdateLost`, `PathsIndependent` and
  `EquivKeepsView` fail, as "Disagreements" lists.

## Not modelled

* Node memory: nodes are indices into sequences that only grow, and a model of reference
  counts would repeat every pointer assignment of the engine.
* Speculative actions that reject a reduction, and scopes in the node hashes: the code of
  the actions is the user's. What they may do to the symbol table is in `DSymtab`.
* Dynamic scopes (`scope_D_Scope` with a dynamic parent).
* White space with comments and `#line`, and the whitespace production of a grammar.
* The reading of grammars: `grammar.g.c` is generated from `grammar.g`; what its actions
  call is in `FrontEnd`. Declarations, the printing of grammars, start states of further
  productions.
* Of the table writer: the header of symbols, the place of the tables in a binary before
  it is aligned, the file of actions for the Rust builder, `\x` escapes followed by a digit, comments
  that are not closed in an action.
* The accessors over finished parse trees, the command line, the Python binding and the
  examples have no state that a property could be about. The Rust runtime is a port of
  `parse.c` and `scan.c`.

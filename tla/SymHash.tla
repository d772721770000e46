------------------------------ MODULE SymHash ------------------------------
(***************************************************************************)
(* The hash table of the top scope and the walk over the symbols of a      *)
(* scope (dsymtab.c).  lists holds the ll of the scopes that were entered  *)
(* since, which all are the top scope's copies, the current one first.     *)
(* A symbol is an index into syms, its names in the order of declaration;  *)
(* 0 is NULL.                                                              *)
(***************************************************************************)
EXTENDS Helpers

CONSTANTS
  Names, Hash,    \* strhashl of each name
  InitialSizes,   \* of INITIAL_SYMHASH_SIZE, above 0
  MaxSyms, MaxCopies,    \* bounds
  Repeats         \* may a copy declare a name again?

ASSUME TableAssumption ==
  /\ Hash \in [Names -> Nat] /\ MaxSyms \in Nat /\ MaxCopies \in Nat
  /\ InitialSizes \subseteq Nat \ {0} /\ \A m, n \in InitialSizes : n <= 2 * m

VARIABLES table, lists, syms
tables == <<table, lists, syms>>

HashOf(x) == Hash[syms[x]]
Hashes(names) == [x \in DOMAIN names |-> Hash[names[x]]]

\* A table of n buckets, each the most recent symbol first.
NewTable(size) == [n |-> size, grow |-> size * 2 + 1, index |-> 0, buckets |-> [h \in 0..(size - 1) |-> <<>>]]
Put(buckets, n, h, x) == [buckets EXCEPT ![h % n] = <<x>> \o @]

\* symhash_add; a table that has more symbols than grow is rebuilt with that many
\* buckets, from the symbols of all buckets, each from its head.
PutAll(buckets, n, h, q) == FoldSteps(LAMBDA b, x : Put(b, n, h[x], x), buckets, q)
Refilled(buckets, old, n, h) ==
  FoldSteps(LAMBDA b, q : PutAll(b, n, h, q), [k \in 0..(n - 1) |-> <<>>], [k \in 1..old |-> buckets[k - 1]])
Rehashed(t, h) ==
  [n |-> t.grow, grow |-> t.grow * 2 + 1, index |-> t.index, buckets |-> Refilled(t.buckets, t.n, t.grow, h)]

Mutant_SymhashAdd(t, x, h) == [t EXCEPT !.index = @ + 1, !.buckets[h[x] % t.n] = Append(@, x)]
SymhashAdd(t, x, h) ==
  LET u == [n |-> t.n, grow |-> t.grow, index |-> t.index + 1, buckets |-> Put(t.buckets, t.n, h[x], x)]
  IN  IF u.index > u.grow THEN Rehashed(u, h) ELSE u

-----------------------------------------------------------------------------
\* find_D_Sym_internal, from the current scope along search.
Named(q, name) == {k \in DOMAIN q : syms[q[k]] = name}
Find(name) ==
  LET copies == {k \in DOMAIN lists : Named(lists[k], name) # {}}
      q == IF copies # {} THEN lists[MinOf(copies)] ELSE table.buckets[Hash[name] % table.n]
  IN  IF Named(q, name) = {} THEN 0 ELSE q[MinOf(Named(q, name))]

\* What follows x in its list, or in its bucket.
After(q, x) == LET k == CHOOSE k \in DOMAIN q : q[k] = x IN IF k = Len(q) THEN 0 ELSE q[k + 1]
HeadOf(q) == IF q = <<>> THEN 0 ELSE Head(q)

\* next_D_Sym_in_Scope: of scope st, the k-th on the way to the top scope, after last.
Top == Len(lists) + 1
TableNext(last) ==
  LET i == IF last = 0 THEN 0 ELSE (HashOf(last) + 1) % table.n
  IN  IF last # 0 /\ i = 0 THEN 0 ELSE HeadOf(table.buckets[i])
NextSym(st, last) ==
  LET ListOf(x) == IF st = Top THEN table.buckets[HashOf(x) % table.n] ELSE lists[st]
      next == IF last = 0 THEN 0 ELSE After(ListOf(last), last)
      walk[k \in 1..Top, fresh \in BOOLEAN] ==
        LET x == IF k = Top THEN TableNext(IF fresh THEN 0 ELSE last) ELSE IF fresh THEN HeadOf(lists[k]) ELSE 0
        IN  IF x # 0 \/ k = Top THEN <<k, x>> ELSE walk[k + 1, TRUE]
  IN  IF next # 0 THEN <<st, next>> ELSE walk[st, last = 0]

-----------------------------------------------------------------------------
\* new_D_Sym, in the current scope; the name may be declared already.
Declare(name) ==
  /\ Len(syms) < MaxSyms
  /\ Repeats \/ \A k \in DOMAIN lists : k = 1 => Named(lists[k], name) = {}
  /\ syms' = Append(syms, name)
  /\ IF lists = <<>> THEN table' = SymhashAdd(table, Len(syms) + 1, Hashes(syms')) /\ UNCHANGED lists
     ELSE lists' = [lists EXCEPT ![1] = <<Len(syms) + 1>> \o @] /\ UNCHANGED table

\* enter_D_Scope of the current scope.
Enter ==
  /\ Len(lists) < MaxCopies
  /\ lists' = <<<<>>>> \o lists
  /\ UNCHANGED <<table, syms>>

\* commit_ll: the lists of the copies, the oldest first, from the head of each.
AddedAll(t, h, q) == FoldSteps(LAMBDA u, x : SymhashAdd(u, x, h), t, q)
Committed == FoldSteps(LAMBDA t, q : AddedAll(t, Hashes(syms), q), table, Reverse(lists))

Mutant_Commit ==    \* the symbols stay in the lists, too
  /\ lists # <<>>
  /\ table' = Committed
  /\ UNCHANGED <<syms, lists>>

\* commit_D_Scope, as far as it changes the table.
Commit ==
  /\ lists # <<>>
  /\ table' = Committed
  /\ lists' = <<>>
  /\ UNCHANGED syms

HashInit == table \in {NewTable(size) : size \in InitialSizes} /\ lists = <<>> /\ syms = <<>>
HashNext == Enter \/ Commit \/ \E name \in Names : Declare(name)
HashSpec == HashInit /\ [][HashNext]_tables

-----------------------------------------------------------------------------
\* Each symbol is in one place, where Find looks for it: in its list, or in the bucket
\* of its hash, whatever the table's size has become and whatever was committed
\* (symhash_add, commit_ll).
Places(x, f) == UNION {{<<k, j>> : j \in {i \in DOMAIN f[k] : f[k][i] = x}} : k \in DOMAIN f}
OnePlace(x, f, g) == \E p \in Places(x, f) : Places(x, f) = {p} /\ Places(x, g) = {}
InPlace ==
  /\ \A x \in DOMAIN syms :
       \/ OnePlace(x, lists, table.buckets)
       \/ OnePlace(x, table.buckets, lists) /\ \A p \in Places(x, table.buckets) : p[1] = HashOf(x) % table.n
  /\ table.index <= table.grow /\ DOMAIN table.buckets = 0..(table.n - 1)

\* The symbol that is found is the last one declared, though the names of the copies are
\* put into the table later.
LastOf(name) == LET S == {x \in DOMAIN syms : syms[x] = name} IN IF S = {} THEN 0 ELSE MaxOf(S)
LastFound == \A name \in Names : Find(name) = LastOf(name)

\* That holds until the table is grown, when its sizes are those of InitialSizes.
FindsLast == table.n \in InitialSizes => LastFound
=============================================================================

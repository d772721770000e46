------------------------------ MODULE DSymtab ------------------------------
(***************************************************************************)
(* The symbol table for speculative parsing (dsymtab.c), as the actions of *)
(* a grammar use it along the paths of a GLR parse.                        *)
(*                                                                         *)
(* A D_Scope and a D_Sym are indices into sc and sy; 0 is NULL, scope 1    *)
(* the top scope, the one with a hash table.  A scope's syms are its ll    *)
(* or, for the top scope, its hash table, most recent first; a symbol's    *)
(* of is update_of and its val, the user data, the sequence of the paths   *)
(* that declared and updated it.  A path has its current scope cur (the    *)
(* ${scope} of its last PNode), the last scope it had of every frame (the  *)
(* ${scope} its actions may save and enter again) and the scopes its       *)
(* PNodes recorded, in order.  A frame is named by the scope new_D_Scope   *)
(* made for it.                                                            *)
(*                                                                         *)
(* A Mutant_ operator is a faulty variant of the definition after it.      *)
(* Not modelled: scope_D_Scope (dynamic scopes), freeing, and the growth   *)
(* of the hash table.                                                      *)
(***************************************************************************)
EXTENDS Helpers

CONSTANTS
  Paths, Names,
  Usage,       \* what the grammar's actions do beyond the rules below, of Usages
  MaxSteps     \* bound: operations on the table

Usages ==
  {"shared",    \* NEW_D_SYM in a scope that other paths also see
   "anywhere",  \* enter a frame that is not around the current one
   "each",      \* a final action commits each scope of the path in turn
   "interim"}   \* commit_actions_interval: the parse goes on after a commit
ASSUME UsageAssumption == Usage \subseteq Usages
ASSUME StepsAssumption == MaxSteps \in Nat

VARIABLES sc, sy, at, phase, steps
vars == <<sc, sy, at, phase, steps>>

Live == DOMAIN at
NotFound == 0

-----------------------------------------------------------------------------
(* Lookup.                                                                 *)

\* The links lead to older scopes, so the walks are functions of the scope.

\* The first of the elements of q at the indices I.
Earliest(q, I) == IF I = {} THEN NotFound ELSE q[MinOf(I)]

\* The symbol a scope itself has under a name, and its last update of a symbol.
SymIn(s, n) == LET q == sc[s].syms IN Earliest(q, {k \in DOMAIN q : sy[q[k]].name = n})
UpdateIn(s, o) == LET q == sc[s].updates IN Earliest(q, {k \in DOMAIN q : sy[q[k]].of = o})

\* current_D_Sym: the last update of the symbol along up_updates.  A symbol that
\* is an update, or was committed, stands for its update_of, followed once.
Current(st, x) ==
  LET o == IF sy[x].of # 0 THEN sy[x].of ELSE x
      walk[s \in 0..Len(sc)] ==
        IF s = 0 THEN o
        ELSE LET u == UpdateIn(s, o) IN IF u # NotFound THEN u ELSE walk[sc[s].upUpdates]
  IN  walk[st]

\* find_D_Sym_in_Scope_internal: along search while the enclosing scope stays the same.
FindInScope(st, n) ==
  LET walk[s \in DOMAIN sc] ==
        LET x == SymIn(s, n)
        IN  IF x # NotFound THEN x
            ELSE IF sc[s].search = 0 THEN NotFound
            ELSE IF sc[sc[s].search].up # sc[s].up THEN NotFound
            ELSE walk[sc[s].search]
  IN  walk[st]

\* Along up_updates, the history of the parse, instead of search.
Mutant_Find(st, n) ==
  LET walk[s \in 0..Len(sc)] ==
        IF s = 0 THEN NotFound
        ELSE LET x == SymIn(s, n) IN IF x # NotFound THEN x ELSE walk[sc[s].upUpdates]
  IN  walk[st]

\* find_D_Sym_internal
Find(st, n) ==
  LET walk[s \in 0..Len(sc)] ==
        IF s = 0 THEN NotFound
        ELSE LET x == SymIn(s, n) IN IF x # NotFound THEN x ELSE walk[sc[s].search]
  IN  walk[st]

\* find_D_Sym
FindSym(st, n) == IF Find(st, n) = NotFound THEN NotFound ELSE Current(st, Find(st, n))

\* The top-level scope a scope's search chain leads to (global_D_Scope, find_global_D_Sym).
GlobalScope(st) ==
  LET walk[s \in DOMAIN sc] == IF sc[s].up = 0 THEN s ELSE walk[sc[s].search]
  IN  walk[st]

\* Updates do not count.
Mutant_Equiv(st) ==
  LET walk[s \in DOMAIN sc] ==
        IF sc[s].up # sc[st].up THEN {}
        ELSE {s} \cup (IF sc[s].syms # <<>> \/ s = 1 THEN {} ELSE walk[sc[s].upUpdates])
  IN  CHOOSE s \in walk[st] : \A t \in walk[st] : s <= t

\* equiv_D_Scope: the oldest scope at the depth of st along up_updates, over scopes
\* that declare nothing and update nothing st can see.
Equiv(st) ==
  LET Stops(s) == \/ sc[s].syms # <<>> \/ s = 1
                  \/ \E k \in DOMAIN sc[s].updates :
                       sc[sy[sc[s].updates[k]].scope].depth <= sc[st].depth
                  \/ sc[s].upUpdates = 0
      \* walk[s]: the scopes met from s on, that st is equivalent to
      walk[s \in DOMAIN sc] ==
        IF sc[s].depth < sc[st].depth THEN {}
        ELSE IF sc[s].depth = sc[st].depth /\ sc[s].up # sc[st].up THEN {}
        ELSE (IF sc[s].depth = sc[st].depth THEN {s} ELSE {})
             \cup (IF Stops(s) THEN {} ELSE walk[sc[s].upUpdates])
  IN  CHOOSE s \in walk[st] : \A t \in walk[st] : s <= t

-----------------------------------------------------------------------------
(* Frames: what the paths call a scope, however often it was entered.      *)

\* The scope new_D_Scope made, below the copies enter_D_Scope made of it.
Frame(st) ==
  LET walk[s \in DOMAIN sc] == IF sc[s].search = sc[s].up THEN s ELSE walk[sc[s].search]
  IN  walk[st]

FrameUp(f) == IF sc[f].up = 0 THEN 0 ELSE Frame(sc[f].up)
FramesAround(f) ==
  LET walk[h \in 0..Len(sc)] == IF h = 0 THEN {} ELSE {h} \cup walk[FrameUp(h)]
  IN  walk[f]

\* Every scope a path had; all that it can still reach are among them.
Reach(p) ==
  LET walk[s \in 0..Len(sc)] == IF s = 0 THEN {} ELSE {s} \cup walk[sc[s].upUpdates]
  IN  walk[at[p].cur]

\* Nobody else sees what p puts into its current scope.
Unshared(p) == \A q \in Live \ {p} : at[p].cur \notin Reach(q)

-----------------------------------------------------------------------------
(* Operations.                                                             *)

NewScope(parent) ==
  [depth |-> sc[parent].depth + 1, up |-> parent, search |-> parent, upUpdates |-> parent,
   syms |-> <<>>, updates |-> <<>>]

\* The updates since the scope was saved are forgotten.
Mutant_EnterScope(current, scope) ==
  [depth |-> sc[scope].depth, up |-> sc[scope].up, search |-> scope, upUpdates |-> scope,
   syms |-> <<>>, updates |-> <<>>]

EnterScope(current, scope) ==
  [depth |-> sc[scope].depth, up |-> sc[scope].up, search |-> scope, upUpdates |-> current,
   syms |-> <<>>, updates |-> <<>>]

\* A path goes on in scope s of frame f, and keeps the scopes of some other frames.
GoTo(p, s, f, kept) ==
  at' = [at EXCEPT ![p].cur = s,
                   ![p].saved = [h \in kept \cup {f} |-> IF h = f THEN s ELSE @[h]],
                   ![p].trail = IF "each" \in Usage THEN Append(@, s) ELSE @]

\* Frames the path has left for good once it is back in f.
StillOpen(p, f) == IF "anywhere" \in Usage THEN DOMAIN at[p].saved ELSE FramesAround(f)

Speculate == phase = "parsing" /\ steps < MaxSteps /\ steps' = steps + 1 /\ UNCHANGED phase

\* new_D_Scope
Open(p) ==
  /\ Speculate
  /\ sc' = Append(sc, NewScope(at[p].cur))
  /\ GoTo(p, Len(sc) + 1, Len(sc) + 1, DOMAIN at[p].saved)
  /\ UNCHANGED sy

\* enter_D_Scope of a scope the path saved: back to a frame around the current one
\* or, with the current scope itself, a copy of it.
Enter(p, f) ==
  /\ Speculate
  /\ f \in FramesAround(Frame(at[p].cur)) \/ "anywhere" \in Usage
  /\ sc' = Append(sc, EnterScope(at[p].cur, at[p].saved[f]))
  /\ GoTo(p, Len(sc) + 1, f, StillOpen(p, f))
  /\ UNCHANGED sy

\* global_D_Scope
EnterGlobal(p) ==
  /\ Speculate
  /\ sc' = Append(sc, EnterScope(at[p].cur, GlobalScope(at[p].cur)))
  /\ GoTo(p, Len(sc) + 1, 1, StillOpen(p, 1))
  /\ UNCHANGED sy

\* new_D_Sym, after find_D_Sym_in_Scope found no symbol of that name.
Declare(p, n) ==
  /\ Speculate
  /\ FindInScope(at[p].cur, n) = NotFound
  /\ Unshared(p) \/ "shared" \in Usage
  /\ sy' = Append(sy, [name |-> n, scope |-> at[p].cur, of |-> 0, val |-> <<p>>])
  /\ sc' = [sc EXCEPT ![at[p].cur].syms = <<Len(sy) + 1>> \o @]
  /\ UNCHANGED at

\* update_additional_D_Sym, and the action's own change of the user data.
NewUpdate(st, x, p) ==
  LET y == Current(st, x)
  IN  [sy[y] EXCEPT !.of = IF @ # 0 THEN @ ELSE y, !.val = Append(@, p)]

\* update_D_Sym, of the symbol or of its current version.
Update(p, n) ==
  /\ Speculate
  /\ Find(at[p].cur, n) # NotFound
  /\ \E x \in {Find(at[p].cur, n), FindSym(at[p].cur, n)} :
       sy' = Append(sy, NewUpdate(at[p].cur, x, p))
  /\ sc' = Append(sc, [EnterScope(at[p].cur, at[p].cur) EXCEPT !.updates = <<Len(sy) + 1>>])
  /\ GoTo(p, Len(sc) + 1, Frame(at[p].cur), DOMAIN at[p].saved)

\* update_additional_D_Sym, after an update in the same action made the scope.
UpdateMore(p, n) ==
  /\ Speculate
  /\ sc[at[p].cur].updates # <<>> /\ Unshared(p)
  /\ Find(at[p].cur, n) # NotFound
  /\ \E x \in {Find(at[p].cur, n), FindSym(at[p].cur, n)} :
       sy' = Append(sy, NewUpdate(at[p].cur, x, p))
  /\ sc' = [sc EXCEPT ![at[p].cur].updates = <<Len(sy) + 1>> \o @]
  /\ UNCHANGED at

\* The parse splits: make_PNode and add_SNode hand the scope pointer on.
Fork(p, q) ==
  /\ Speculate
  /\ q \notin Live
  /\ at' = [r \in Live \cup {q} |-> IF r = q THEN at[p] ELSE at[r]]
  /\ UNCHANGED <<sc, sy>>

\* A path dies.
Drop(p) ==
  /\ Speculate
  /\ Live # {p}
  /\ at' = [r \in Live \ {p} |-> at[r]]
  /\ UNCHANGED <<sc, sy>>

-----------------------------------------------------------------------------
(* commit_D_Scope of a top-level scope, when one path is left.             *)

\* commit_ll recurses along the search chain,
Chain(st) ==
  LET walk[s \in 0..Len(sc)] == IF s = 0 THEN {} ELSE {s} \cup walk[sc[s].search]
  IN  walk[st]

\* and puts the symbols of its scopes, the oldest scope first, each at the head of its
\* bucket of the hash table.
Table(st) ==
  LET walk[s \in DOMAIN sc] ==
        IF s = 1 THEN sc[1].syms ELSE Reverse(sc[s].syms) \o walk[sc[s].search]
  IN  walk[st]

Committed(st) ==
  [s \in DOMAIN sc |-> [sc[s] EXCEPT !.syms = IF s = 1 THEN Table(st)
                                              ELSE IF s \in Chain(st) THEN <<>> ELSE @]]

\* commit_update: the symbols in the table then name their current versions.
CommitScope(st) ==
  /\ sc' = Committed(st)
  /\ sy' = [x \in DOMAIN sy |-> IF x \in ToSet(Table(st)) THEN [sy[x] EXCEPT !.of = Current(st, x)]
                                ELSE sy[x]]

\* The commit of a final action: it ends the parse, unless actions are committed
\* while it goes on.
Commit(p) ==
  /\ "each" \notin Usage
  /\ phase = "parsing" /\ Live = {p} /\ sc[at[p].cur].up = 0
  /\ CommitScope(at[p].cur)
  /\ at' = [at EXCEPT ![p].cur = 1, ![p].saved[1] = 1]
  /\ phase' = IF "interim" \in Usage THEN "parsing" ELSE "committed"
  /\ UNCHANGED steps

\* The final actions of the path's reductions, each committing the scope of its PNode.
CommitEach(p) ==
  /\ "each" \in Usage
  /\ phase # "committed" /\ Live = {p} /\ at[p].trail # <<>> /\ sc[at[p].cur].up = 0
  /\ IF sc[Head(at[p].trail)].up = 0 THEN CommitScope(Head(at[p].trail)) ELSE UNCHANGED <<sc, sy>>
  /\ at' = [at EXCEPT ![p].trail = Tail(@)]
  /\ phase' = IF Len(at[p].trail) = 1 THEN "committed" ELSE "committing"
  /\ UNCHANGED steps

-----------------------------------------------------------------------------
Init ==
  /\ sc = <<[depth |-> 0, up |-> 0, search |-> 0, upUpdates |-> 0, syms |-> <<>>, updates |-> <<>>]>>
  /\ sy = <<>>
  /\ \E p \in Paths : at = [q \in {p} |-> [cur |-> 1, saved |-> [f \in {1} |-> 1], trail |-> <<>>]]
  /\ phase = "parsing" /\ steps = 0

Next ==
  \E p \in Live :
    \/ Open(p) \/ EnterGlobal(p)
    \/ \E f \in DOMAIN at[p].saved : Enter(p, f)
    \/ \E n \in Names : Declare(p, n) \/ Update(p, n) \/ UpdateMore(p, n)
    \/ \E q \in Paths : Fork(p, q)
    \/ Drop(p) \/ Commit(p)

Spec == Init /\ [][Next]_vars
=============================================================================

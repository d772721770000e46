----------------------------- MODULE ScopePool -----------------------------
(***************************************************************************)
(* The life of scopes: each is registered with the pool of its top scope   *)
(* when it is made, and freed with it, by the parser or by the user of the *)
(* table (dsymtab.c; dparse and free_D_Parser of parse.c).                 *)
(*                                                                         *)
(* A scope is an index into scopes, 0 is NULL.  pools holds the scopes     *)
(* registered with each top scope's pool.  misused records the scopes that *)
(* were read or freed after they had been freed.  parser has its top_scope *)
(* and initial_scope.                                                      *)
(***************************************************************************)
EXTENDS Helpers

CONSTANTS MaxScopes, MaxParses,    \* bounds
          Usage    \* some of "retry": use of what a free without force has left;
                   \* "initial": initial_scope may change between parses
ASSUME BoundsAssumption == MaxScopes \in Nat /\ MaxParses \in Nat

VARIABLES scopes, pools, freed, misused, parser, parses
vars == <<scopes, pools, freed, misused, parser, parses>>

Live == DOMAIN scopes \ freed
Tops == {s \in DOMAIN scopes : scopes[s].top}    \* those with a hash table and a pool

\* get_scope_pool: up to a scope without an enclosing one, then along search to the pool.
UpMost(all, st) == LET up[s \in DOMAIN all] == IF all[s].up = 0 THEN s ELSE up[all[s].up] IN up[st]
Mutant_PoolOf(all, st) == IF all[UpMost(all, st)].top THEN UpMost(all, st) ELSE 0    \* no search
PoolOf(all, st) ==
  LET walk[s \in DOMAIN all] == IF all[s].top \/ all[s].search = 0 THEN s ELSE walk[all[s].search]
  IN  walk[UpMost(all, st)]

\* The scopes that walk reads.
ReadBy(st) ==
  LET walk[s \in DOMAIN scopes] ==
        {s} \cup (IF scopes[s].up # 0 THEN walk[scopes[s].up]
                  ELSE IF scopes[s].top \/ scopes[s].search = 0 THEN {} ELSE walk[scopes[s].search])
  IN  walk[st]

TopOf(st) == LET walk[s \in DOMAIN scopes] == IF scopes[s].top THEN s ELSE walk[scopes[s].search] IN walk[st]
Usable(s) == s \in Live /\ ("retry" \in Usage \/ TopOf(s) \in Live)

-----------------------------------------------------------------------------
(* Making scopes: new_D_Scope, enter_D_Scope, global_D_Scope, scope_D_Scope *)

Scope(up, search, top, byParser) == [up |-> up, search |-> search, top |-> top, owned |-> FALSE, byParser |-> byParser]

\* register_scope
Register(all, s) ==
  LET p == PoolOf(all, s)
  IN  IF all[s].top THEN [t \in DOMAIN pools \cup {s} |-> IF t = s THEN {s} ELSE pools[t]]
      ELSE IF p \in DOMAIN pools THEN [pools EXCEPT ![p] = @ \cup {s}] ELSE pools
Make(record) ==
  /\ Len(scopes) < MaxScopes
  /\ scopes' = Append(scopes, record)
  /\ pools' = Register(scopes', Len(scopes'))
  /\ misused' = misused \cup (IF record.search = 0 THEN {} ELSE freed \cap ReadBy(record.search))

NewTop == Make(Scope(0, 0, TRUE, FALSE)) /\ UNCHANGED <<freed, parser, parses>>
Nested(s) ==
  /\ Usable(s)
  /\ Make(Scope(s, s, FALSE, FALSE))
  /\ UNCHANGED <<freed, parser, parses>>
Entered(s) ==
  /\ Usable(s)
  /\ Make(Scope(scopes[s].up, s, FALSE, FALSE))
  /\ UNCHANGED <<freed, parser, parses>>

\* The user keeps a scope that the pool shall not free.
Own(s) ==
  /\ Usable(s) /\ ~scopes[s].owned
  /\ "retry" \in Usage \/ ~scopes[TopOf(s)].byParser
  /\ scopes' = [scopes EXCEPT ![s].owned = TRUE]
  /\ UNCHANGED <<pools, freed, misused, parser, parses>>

-----------------------------------------------------------------------------
(* Freeing                                                                 *)

\* free_D_Scope: a top scope frees the scopes of its pool, and the pool when none was
\* skipped; another scope is left to the pool.
Skipped(st, force) == IF force THEN {} ELSE {s \in pools[st] : scopes[s].owned}
FreeScope(st, force) ==
  IF scopes[st].top
  THEN /\ misused' = misused \cup (freed \cap ({st} \cup (IF st \in DOMAIN pools THEN pools[st] ELSE {})))
       /\ IF st \notin DOMAIN pools THEN UNCHANGED <<freed, pools>>
          ELSE /\ freed' = freed \cup (pools[st] \ Skipped(st, force))
               /\ pools' = IF Skipped(st, force) = {} THEN [t \in DOMAIN pools \ {st} |-> pools[t]] ELSE pools
  ELSE /\ misused' = misused \cup (freed \cap ReadBy(st))
       /\ UNCHANGED <<freed, pools>>

\* The user frees a scope of its own: one that it has not freed, or one that a free
\* without force has left to it.
UserFree(st, force) ==
  /\ ~scopes[st].byParser /\ parser.initial # st
  /\ \/ Usable(st) /\ (scopes[st].top /\ Skipped(st, force) # {} => "retry" \in Usage)
     \/ "retry" \in Usage /\ force /\ st \in DOMAIN pools
  /\ FreeScope(st, force)
  /\ UNCHANGED <<scopes, parser, parses>>

-----------------------------------------------------------------------------
(* The parser: 0 where top_scope or initial_scope is NULL.                 *)

\* The user sets initial_scope to a top scope that it made, or to NULL.
SetInitial(s) ==
  /\ parses = 0 \/ "initial" \in Usage
  /\ s # parser.initial /\ s \in {t \in Tops \cap Live : ~scopes[t].byParser} \cup {0}
  /\ parser' = [parser EXCEPT !.initial = s]
  /\ UNCHANGED <<scopes, pools, freed, misused, parses>>

\* dparse with the initial scope, and with a new top scope after the old one is freed.
DparseWithInitial ==
  /\ parses < MaxParses /\ parser.initial # 0
  /\ parser' = [parser EXCEPT !.top = parser.initial]
  /\ parses' = parses + 1
  /\ UNCHANGED <<scopes, pools, freed, misused>>
DparseFrees ==
  /\ parses < MaxParses /\ parser.initial = 0 /\ parser.top # 0
  /\ FreeScope(parser.top, FALSE)
  /\ parser' = [parser EXCEPT !.top = 0]
  /\ UNCHANGED <<scopes, parses>>
DparseMakes ==
  /\ parses < MaxParses /\ parser.initial = 0 /\ parser.top = 0
  /\ Make(Scope(0, 0, TRUE, TRUE))
  /\ parser' = [parser EXCEPT !.top = Len(scopes')]
  /\ parses' = parses + 1
  /\ UNCHANGED freed

\* free_D_Parser, after which the parser is gone.
Mutant_FreeParser ==    \* the initial scope, too
  /\ parses <= MaxParses /\ parses' = MaxParses + 1
  /\ IF parser.top # 0 THEN FreeScope(parser.top, FALSE) ELSE UNCHANGED <<freed, misused, pools>>
  /\ parser' = [top |-> 0, initial |-> 0]
  /\ UNCHANGED scopes
FreeParser ==
  /\ parses <= MaxParses /\ parses' = MaxParses + 1
  /\ IF parser.top # 0 /\ parser.initial = 0 THEN FreeScope(parser.top, FALSE) ELSE UNCHANGED <<freed, misused, pools>>
  /\ parser' = [top |-> 0, initial |-> 0]
  /\ UNCHANGED scopes

Init ==
  /\ scopes = <<>> /\ pools = <<>> /\ freed = {} /\ misused = {}
  /\ parser = [top |-> 0, initial |-> 0] /\ parses = 0
Next ==
  \/ NewTop \/ DparseWithInitial \/ DparseFrees \/ DparseMakes \/ FreeParser
  \/ \E s \in DOMAIN scopes : Nested(s) \/ Entered(s) \/ Own(s) \/ SetInitial(s) \/ \E force \in BOOLEAN : UserFree(s, force)
  \/ SetInitial(0)
Spec == Init /\ [][Next]_vars

-----------------------------------------------------------------------------
\* No scope is read or freed once it is freed: the user frees what new_D_Scope gave it
\* ("Caller owns the returned scope and must free", dsymtab.c 216), the parser what it
\* made itself.
UsesLive == misused = {}

\* With a top scope all the scopes below it go, also those that enter_D_Scope made, but
\* for those the user owns (dsymtab.h 15: "no leaks possible!").
FreedWithTop == \A s \in Live : TopOf(s) \in freed => scopes[s].owned
=============================================================================

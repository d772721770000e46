----------------------------- MODULE MCSymHash -----------------------------
(***************************************************************************)
(* Tables of few buckets to start with, and names whose hashes collide     *)
(* before and after they grow.                                             *)
(***************************************************************************)
EXTENDS SymHash

MCHash == [a |-> 0, b |-> 1, c |-> 3]

-----------------------------------------------------------------------------
\* The table keeps the order of insertion also when it grows (dsymtab.c 128).
KeepsOrder == LastFound

\* The walk over a scope visits all symbols of it (dsymtab.c 825).
Visited ==
  LET Step(P) == {NextSym(p[1], p[2]) : p \in P}
      all == LeastFixpoint(LAMBDA P : {q \in Step(P) : q[2] # 0}, (1..Top) \X (0..Len(syms)), {<<1, 0>>})
  IN  {p[2] : p \in all} \ {0}
VisitsAll == Visited = DOMAIN syms
=============================================================================

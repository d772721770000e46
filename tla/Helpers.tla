------------------------------- MODULE Helpers -------------------------------
(***************************************************************************)
(* Operators on sets, functions and sequences that the modules share.      *)
(***************************************************************************)
EXTENDS Integers, Sequences, SequencesExt

\* The function f: TLC computes it at once, where it would recompute a constant
\* function at each application.
Eager(f) == f @@ <<>>

\* The least superset X of S, within U, with F(X) \subseteq X.
LeastFixpoint(F(_), U, S) ==
  LET fix[X \in SUBSET U] == LET Y == F(X) IN IF Y \subseteq X THEN X ELSE fix[X \cup Y]
  IN  fix[S]

\* FoldLeft; TLC computes each intermediate value once.
FoldSteps(Op(_, _), base, s) ==
  LET f[k \in 0..Len(s)] == IF k = 0 THEN base ELSE CHOOSE v \in {Op(u, s[k]) : u \in {f[k - 1]}} : TRUE
  IN  f[Len(s)]

\* s is a sequence (of its own elements, so that no set of values need be named).
IsSeq(s) == s \in Seq(ToSet(s))

MaxOf(S) == CHOOSE x \in S : \A y \in S : y <= x
MinOf(S) == CHOOSE x \in S : \A y \in S : x <= y

\* The members of S from the first to the last in a total order.
Listed(S, Precedes(_, _)) ==
  LET First(X) == CHOOSE x \in X : \A y \in X \ {x} : Precedes(x, y)
      list[X \in SUBSET S] == IF X = {} THEN <<>> ELSE <<First(X)>> \o list[X \ {First(X)}]
  IN  list[S]
=============================================================================

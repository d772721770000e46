----------------------------- MODULE MCDSymtab -----------------------------
(***************************************************************************)
(* The symbol table against View: what each path of a parse reads.         *)
(***************************************************************************)
EXTENDS DSymtab, TLC

\* Paths and names are interchangeable.
Interchangeable == Permutations(Paths) \cup Permutations(Names)

\* The parse with final actions that each commit.
EachSpec == Init /\ [][Next \/ \E p \in Live : CommitEach(p)]_vars

-----------------------------------------------------------------------------
\* The view of a path, read through find_D_Sym_in_Scope at every frame it knows.
ValueAt(p, f, n) ==
  LET x == FindInScope(at[p].saved[f], n)
  IN  IF x = NotFound THEN <<>> ELSE sy[Current(at[p].cur, x)].val

ViewOf(p) ==
  LET Known == DOMAIN at[p].saved
  IN  [here   |-> Frame(at[p].cur),
       parent |-> [f \in Known |-> FrameUp(f)],
       vals   |-> [f \in Known |-> [n \in Names |-> ValueAt(p, f, n)]]]

Views == INSTANCE View WITH Frames <- 1..(MaxSteps + 1), view <- [p \in Live |-> ViewOf(p)]

\* Every operation of a path changes what that path reads as its name says, and
\* nothing that another path reads: declarations and updates are seen by the path
\* that made them and by its forks, and survive leaving and entering scopes, the
\* death of other paths and the commit (SPECULATIVE_PARSING.md 193-240, manual.md
\* 554-560).
ImplementsView == Views!Spec

\* find_D_Sym reads the innermost declaration, in its last version on this path,
\* and find_global_D_Sym the one of the top frame, though a frame is spread over
\* many scopes and the updates over others.
ReadsInnermost ==
  \A p \in Live : \A n \in Names :
    LET x == FindSym(at[p].cur, n)
        y == Find(GlobalScope(at[p].cur), n)
    IN  /\ Views!Read(ViewOf(p), Frame(at[p].cur), n) = IF x = NotFound THEN <<>> ELSE sy[x].val
        /\ Views!Read(ViewOf(p), 1, n) = IF y = NotFound THEN <<>> ELSE sy[Current(at[p].cur, y)].val

\* The scope equiv_D_Scope finds, by which PNodes are told apart (parse.c 993), gives
\* every name the symbol that the scope itself gives it.
EquivKeepsView ==
  \A p \in Live : \A n \in Names : FindSym(Equiv(at[p].cur), n) = FindSym(at[p].cur, n)

\* The updates in the history of a path.
PathUpdates(p) ==
  LET walk[s \in 0..Len(sc)] == IF s = 0 THEN {} ELSE ToSet(sc[s].updates) \cup walk[sc[s].upUpdates]
  IN  walk[at[p].cur]

\* What a path reads, from the top scope once all is committed, includes every update
\* the path made to the symbol (current_D_Sym, dsymtab.c 654; manual.md 557).
NoUpdateLost ==
  phase # "committing" =>
    \A p \in Live : \A n \in Names :
      LET x == FindSym(IF phase = "committed" THEN 1 ELSE at[p].cur, n)
      IN  x # NotFound =>
            \A u \in PathUpdates(p) :
              sy[u].name = n /\ sy[u].scope = sy[x].scope => IsPrefix(sy[u].val, sy[x].val)

\* No step changes what two paths read.
PathsIndependent ==
  [][\A p, q \in Live \cap Live' : p # q => ViewOf(p)' = ViewOf(p) \/ ViewOf(q)' = ViewOf(q)]_vars
=============================================================================

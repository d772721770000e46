-------------------------------- MODULE View --------------------------------
(***************************************************************************)
(* What the symbol table promises a speculative parse: every parse path    *)
(* has a view of its own (SPECULATIVE_PARSING.md 154, 240).  A view is a   *)
(* tree of frames, the lexical scopes, with the value of every name        *)
(* declared in each, and the frame the path is in.  A value is the         *)
(* sequence of the paths that declared and updated it, None if not         *)
(* declared.  DSymtab implements this module.                              *)
(***************************************************************************)
EXTENDS Integers, Sequences

CONSTANTS Paths, Names, Frames
None == <<>>
Top == 1

VARIABLE view    \* of every live path

Live == DOMAIN view
EmptyFrame == [n \in Names |-> None]

\* The innermost frame around f that declares n; 0 if there is none.
Declaring(v, f, n) ==
  LET from[h \in DOMAIN v.parent \cup {0}] ==
        IF h = 0 \/ v.vals[h][n] # None THEN h ELSE from[v.parent[h]]
  IN  from[f]

\* What a path reads from frame f.
Read(v, f, n) ==
  LET h == Declaring(v, f, n) IN IF h = 0 THEN None ELSE v.vals[h][n]

-----------------------------------------------------------------------------
Init ==
  \E p \in Paths :
    view = [q \in {p} |-> [here |-> Top, parent |-> [f \in {Top} |-> 0],
                           vals |-> [f \in {Top} |-> EmptyFrame]]]

Declare(p, n) ==
  LET v == view[p]
  IN  /\ v.vals[v.here][n] = None
      /\ view' = [view EXCEPT ![p].vals[v.here][n] = <<p>>]

Update(p, n) ==
  LET h == Declaring(view[p], view[p].here, n)
  IN  /\ h # 0
      /\ view' = [view EXCEPT ![p].vals[h][n] = Append(@, p)]

Open(p, f) ==
  LET v == view[p]
      S == DOMAIN v.parent \cup {f}
  IN  /\ f \notin DOMAIN v.parent
      /\ view' = [view EXCEPT ![p] =
                   [here |-> f,
                    parent |-> [h \in S |-> IF h = f THEN v.here ELSE v.parent[h]],
                    vals |-> [h \in S |-> IF h = f THEN EmptyFrame ELSE v.vals[h]]]]

\* Back to a frame around the current one; those inside it are left for good.
Around(v, f) ==
  LET from[h \in DOMAIN v.parent \cup {0}] == IF h = 0 THEN {} ELSE {h} \cup from[v.parent[h]]
  IN  from[f]

Enter(p, f) ==
  LET v == view[p]
  IN  /\ f \in Around(v, v.here)
      /\ view' = [view EXCEPT ![p] = [here |-> f, parent |-> [h \in Around(v, f) |-> v.parent[h]],
                                      vals |-> [h \in Around(v, f) |-> v.vals[h]]]]

\* A path splits, and a path dies.
Fork(p, q) == q \notin Live /\ view' = [r \in Live \cup {q} |-> IF r = q THEN view[p] ELSE view[r]]
Drop(p) == Live # {p} /\ view' = [r \in Live \ {p} |-> view[r]]

Next ==
  \E p \in Live :
    \/ \E n \in Names : Declare(p, n) \/ Update(p, n)
    \/ \E f \in Frames : Open(p, f) \/ Enter(p, f)
    \/ \E q \in Paths : Fork(p, q)
    \/ Drop(p)

Spec == Init /\ [][Next]_view
=============================================================================

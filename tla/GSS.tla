-------------------------------- MODULE GSS --------------------------------
(***************************************************************************)
(* What the GLR engine promises, whatever the order of its work lists: a   *)
(* graph-structured stack that only grows, by links that the tables        *)
(* justify.  Nodes are <<state, location>>, links <<node, symbol, node>>.  *)
(* GLR implements this module; GSSProofs proves that nothing outside the   *)
(* language is accepted.                                                   *)
(*                                                                         *)
(* A problem is one grammar, with its tables, on one input:                *)
(*   rules   sequence of [lhs, rhs], the first one augmented               *)
(*   items   items[s], the items <<rule, dot>> of state s                  *)
(*   goto    goto[s][X], a state, or 0 for none                            *)
(*   tokens  the spans <<terminal, from, to>> the scanner may report       *)
(*   start, end   the locations of the first token and of the end of input *)
(*   derived spans <<symbol, from, to>>, closed under the rules            *)
(*   rank    rank[d], the height of a derivation of the derived span d     *)
(***************************************************************************)
EXTENDS Integers, Sequences

CONSTANT Problems
Start == 1           \* the initial state

VARIABLES prob, links, verdict
vars == <<prob, links, verdict>>

-----------------------------------------------------------------------------
(* Assumptions on the tables, which TLC checks for the tables of LRTables. *)

States(q) == DOMAIN q.items
Body(q, r) == q.rules[r].rhs

\* A goto moves the dot over its symbol, and items after the first element come
\* from nowhere else.
GotoMovesDot(q) ==
  \A s \in States(q) : \A X \in DOMAIN q.goto[s] : q.goto[s][X] # 0 =>
    \A it \in q.items[q.goto[s][X]] : it[2] > 0 =>
      /\ it[2] <= Len(Body(q, it[1])) /\ Body(q, it[1])[it[2]] = X
      /\ <<it[1], it[2] - 1>> \in q.items[s]

\* Only the initial state begins the augmented rule, and no goto leads to it.
StartIsInitial(q) ==
  /\ \A s \in States(q) : <<1, 0>> \in q.items[s] => s = Start
  /\ <<1, 1>> \notin q.items[Start]
  /\ \A s \in States(q) : \A X \in DOMAIN q.goto[s] : q.goto[s][X] # Start

\* An item before an element has the goto of the element, which holds the item after
\* it, and the items that begin the rules of the element.
GotoComplete(q) ==
  /\ <<1, 0>> \in q.items[Start]
  /\ \A s \in States(q) : \A it \in q.items[s] : it[2] < Len(Body(q, it[1])) =>
       LET X == Body(q, it[1])[it[2] + 1]
       IN  /\ X \in DOMAIN q.goto[s] /\ q.goto[s][X] # 0
           /\ <<it[1], it[2] + 1>> \in q.items[q.goto[s][X]]
           /\ \A r \in DOMAIN q.rules : q.rules[r].lhs = X => r # 1 /\ <<r, 0>> \in q.items[s]

\* The spans of the elements of rule r, split at the locations at.
Split(q, r, at) == {<<Body(q, r)[k], at[k-1], at[k]>> : k \in 1..Len(Body(q, r))}
Splits(q, r) == [0..Len(Body(q, r)) -> 0..q.end]

\* derived holds the tokens and is closed under the rules of the grammar.
DerivedIsClosed(q) ==
  /\ q.tokens \subseteq q.derived
  /\ \A r \in DOMAIN q.rules : \A at \in Splits(q, r) :
       Split(q, r, at) \subseteq q.derived
         => <<q.rules[r].lhs, at[0], at[Len(Body(q, r))]>> \in q.derived

\* ... and nothing else: what is derived is a token or has a rule and a split into
\* spans of lower rank.
DerivedIsGrounded(q) ==
  /\ DOMAIN q.rank = q.derived /\ \A d \in q.derived : q.rank[d] \in Nat
  /\ \A d \in q.derived : d \in q.tokens \/
       \E r \in DOMAIN q.rules : \E at \in Splits(q, r) :
         /\ d = <<q.rules[r].lhs, at[0], at[Len(Body(q, r))]>>
         /\ \A c \in Split(q, r, at) : c \in q.derived /\ q.rank[c] < q.rank[d]

WellFormed(q) ==
  /\ q.start \in 0..q.end
  /\ DOMAIN q.rules \subseteq Nat \ {0} /\ 1 \in DOMAIN q.rules
  /\ \A r \in DOMAIN q.rules : Len(Body(q, r)) \in Nat
  /\ Len(Body(q, 1)) = 1
  /\ Start \in States(q) /\ 0 \notin States(q) /\ DOMAIN q.goto = States(q)
  /\ \A s \in States(q) : \A X \in DOMAIN q.goto[s] : q.goto[s][X] \in States(q) \cup {0}
  /\ \A s \in States(q) : \A it \in q.items[s] : it[1] \in DOMAIN q.rules /\ it[2] \in Nat
  /\ \A t \in q.tokens : t = <<t[1], t[2], t[3]>> /\ t[2] \in 0..q.end /\ t[3] \in 0..q.end

ASSUME ProblemAssumption ==
  \A q \in Problems : WellFormed(q) /\ GotoMovesDot(q) /\ StartIsInitial(q) /\ DerivedIsClosed(q)

ASSUME CompletenessAssumption ==
  \A q \in Problems : GotoComplete(q) /\ DerivedIsGrounded(q)

-----------------------------------------------------------------------------
Root(q) == <<Start, q.start>>
NodesOf(q, L) == {Root(q)} \cup {e[3] : e \in L}

\* One location too far.
Mutant_LinkTo(q, u, X, loc) == <<u, X, <<q.goto[u[1]][X], loc + 1>>>>

\* The link that the goto of X makes above u, reaching location loc.
LinkTo(q, u, X, loc) == <<u, X, <<q.goto[u[1]][X], loc>>>>
HasGoto(q, u, X) == X \in DOMAIN q.goto[u[1]] /\ q.goto[u[1]][X] # 0

\* A token scanned from a node of the stack.
Shifted(q, L, e) ==
  \E t \in q.tokens : \E u \in NodesOf(q, L) :
    u[2] = t[2] /\ HasGoto(q, u, t[1]) /\ e = LinkTo(q, u, t[1], t[3])

\* A reduction of rule r at node top: pop as many links as the rule has elements,
\* whatever their symbols, and follow the goto of its left-hand side.
Mutant_IsPath(L, n, path) == \A k \in 2..n : \E e \in L : e[1] = path[k-1] /\ e[3] = path[k]

IsPath(L, n, path) == \A k \in 1..n : \E e \in L : e[1] = path[k-1] /\ e[3] = path[k]

ReducedBy(q, L, top, r, e) ==
  LET n == Len(Body(q, r))
      X == q.rules[r].lhs
  IN  /\ r # 1 /\ \E it \in q.items[top[1]] : it[1] = r /\ it[2] = n
      /\ e[1] \in NodesOf(q, L) /\ HasGoto(q, e[1], X) /\ e = LinkTo(q, e[1], X, top[2])
      /\ \E inner \in [1..(n-1) -> NodesOf(q, L)] :
           /\ n = 0 => e[1] = top
           /\ IsPath(L, n, [k \in 0..n |-> IF k = n THEN top
                                           ELSE IF k = 0 THEN e[1] ELSE inner[k]])

\* No reductions of empty rules.
Mutant_Reduced(q, L, e) ==
  \E top \in NodesOf(q, L) : \E r \in DOMAIN q.rules :
    Body(q, r) # <<>> /\ ReducedBy(q, L, top, r, e)

Reduced(q, L, e) ==
  \E top \in NodesOf(q, L) : \E r \in DOMAIN q.rules : ReducedBy(q, L, top, r, e)

Mutant_Accepting(q, L) == \E v \in NodesOf(q, L) : <<1, 1>> \in q.items[v[1]]

Accepting(q, L) == \E v \in NodesOf(q, L) : v[2] = q.end /\ <<1, 1>> \in q.items[v[1]]

-----------------------------------------------------------------------------
Init == prob \in Problems /\ links = {} /\ verdict = "running"

\* One reduction, or all the shifts of a location: any links justified by the
\* stack as it was.
Grow ==
  /\ verdict = "running"
  /\ links \subseteq links'
  /\ \A e \in links' \ links : Shifted(prob, links, e) \/ Reduced(prob, links, e)
  /\ UNCHANGED <<prob, verdict>>

Answer ==
  /\ verdict = "running"
  /\ verdict' = IF Accepting(prob, links) THEN "accept" ELSE "error"
  /\ UNCHANGED <<prob, links>>

Next == Grow \/ Answer
Spec == Init /\ [][Next]_vars

\* The links the tables justify, and an engine that misses none of them: it answers
\* when it has them all.
Justified(q, L) ==
  {e \in UNION {{LinkTo(q, u, X, loc) : X \in {Y \in DOMAIN q.goto[u[1]] : HasGoto(q, u, Y)},
                                        loc \in 0..q.end} : u \in NodesOf(q, L)} :
     Shifted(q, L, e) \/ Reduced(q, L, e)}

SaturatedAnswer == Justified(prob, links) \subseteq links /\ Answer
SaturatedSpec == Init /\ [][Grow \/ SaturatedAnswer]_vars

-----------------------------------------------------------------------------
\* The type invariant: links join nodes, the lower one of them on the stack.
TypeOK ==
  /\ prob \in Problems /\ verdict \in {"running", "accept", "error"}
  /\ \A e \in links : /\ e[1] \in NodesOf(prob, links)
                       /\ e[3][1] \in States(prob) /\ e[3][2] \in 0..prob.end

\* Every link covers a span that its symbol derives: no reduction pops the wrong
\* links, although reduce_one counts them and never looks at their symbols.
LinksDerive == \A e \in links : <<e[2], e[1][2], e[3][2]>> \in prob.derived

\* An accepted input is in the language.
AcceptedIsDerived ==
  verdict = "accept" => <<Body(prob, 1)[1], prob.start, prob.end>> \in prob.derived

\* What is left to the order of the work lists: once nothing more can be added, the
\* stack accepts the whole language, so a sentence the engine rejects (GLR_late) is
\* one whose links it never made.
SaturatedAcceptsAll ==
  verdict = "error" => <<Body(prob, 1)[1], prob.start, prob.end>> \notin prob.derived
=============================================================================

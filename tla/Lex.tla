-------------------------------- MODULE Lex --------------------------------
(***************************************************************************)
(* The scanners of the parse states (lex.c) and the scan at a location of  *)
(* the input: scan_buffer for each node that waits there, and the choice   *)
(* shift_all makes of what they find.                                      *)
(*                                                                         *)
(* A terminal is [kind, text, fold, prio, scan]: kind "string" or "regex", *)
(* text its tokens (Regex), fold ignore_case, scan "ALL" or "LONGEST".  A  *)
(* state shifts the actions [term, index], in the order of their terminals;*)
(* index is Action.index, which numbers the actions in the order of the    *)
(* items that have them.  A state of the DFA is the set of its NFA states. *)
(***************************************************************************)
EXTENDS Regex

CONSTANTS Chars,    \* the characters
          Inputs    \* [terms, nodes, text]: what is scanned

VARIABLES terms, nodes, text, scan, results, chosen, settled
vars == <<terms, nodes, text, scan, results, chosen, settled>>

-----------------------------------------------------------------------------
(* build_state_scanner                                                     *)

\* Strings share the states of a common prefix; one that ignores case has its own, but
\* the ones after it find them.
NextState(m, s, c) ==
  LET to == {e[3] : e \in {d \in m.edges : d[1] = s /\ d[2] = c}} IN IF to = {} THEN 0 ELSE MinOf(to)
AddString(m, act, t) ==
  LET Letter(u, c) ==    \* u[1] the NFA, u[2] the state so far
        LET next == IF t.fold THEN 0 ELSE NextState(u[1], u[2], c)
            S    == IF t.fold THEN Fold({c}) ELSE {c}
        IN  IF next # 0 THEN <<u[1], next>>
            ELSE <<Edge(NewState(u[1]), u[2], S, u[1].n + 1), u[1].n + 1>>
      end == FoldSteps(Letter, <<m, 1>>, [k \in DOMAIN t.text |-> CHOOSE c \in t.text[k].chars : TRUE])
  IN  [end[1] EXCEPT !.accepts = Append(@, <<end[2], act>>)]

AddRegex(m, act, t, trailing) ==
  LET from == m.n + 1
      u == BuildRegex(Eps([m EXCEPT !.n = @ + 2], 1, from), t.text, from, from + 1, trailing, t.fold)
  IN  [u EXCEPT !.accepts = Append(@, <<from + 1, act>>)]

\* A trailing context has an action of its own, numbered after all others.
ScannerNFA(acts) ==
  LET Shift(a) == [term |-> a.term, index |-> a.index, trailing |-> FALSE]
      Trailing(j) == [term |-> acts[j].term, index |-> 100 + j, trailing |-> TRUE]
      Add(m, j, kind) ==
        LET t == terms[acts[j].term]
        IN  CASE t.kind # kind -> m
              [] t.kind = "string" /\ kind = t.kind -> AddString(m, Shift(acts[j]), t)
              [] t.kind = "regex" /\ kind = t.kind -> AddRegex(m, Shift(acts[j]), t, Trailing(j))
      All(m, kind) == FoldSteps(LAMBDA u, j : Add(u, j, kind), m, [j \in DOMAIN acts |-> j])
  IN  All(All(NewState(EmptyNFA), "string"), "regex")

-----------------------------------------------------------------------------
(* nfa_to_scanner, compute_liveness and build_transitions.                 *)
DFAStates(m) ==
  LeastFixpoint(LAMBDA Q : {Move(m, X, c) : <<X, c>> \in Q \X Chars} \ {{}},
                SUBSET (1..m.n), {ClosureOf(m, {1})})

\* The actions a DFA state accepts: of the highest priority, in the order of the states.
AcceptedBy(m, X) ==
  LET at == {k \in DOMAIN m.accepts : m.accepts[k][1] \in X}
      prio(k) == terms[m.accepts[k][2].term].prio
      best == {k \in at : \A l \in at : prio(l) <= prio(k)}
      order == Listed(best, LAMBDA k, l : m.accepts[k][1] < m.accepts[l][1] \/ (m.accepts[k][1] = m.accepts[l][1] /\ k < l))
  IN  [k \in DOMAIN order |-> m.accepts[order[k]][2]]

\* The merges go by index; the lists are sorted by terminal (actioncmp).
ActionDiff(b, c) ==
  LET f[i \in Nat, j \in Nat] ==
        CASE i > Len(b) -> <<>>
          [] i <= Len(b) /\ j > Len(c) -> SubSeq(b, i, Len(b))
          [] OTHER -> IF b[i].index = c[j].index THEN f[i + 1, j + 1]
                      ELSE IF b[i].index < c[j].index THEN <<b[i]>> \o f[i + 1, j] ELSE f[i, j + 1]
  IN  f[1, 1]
ActionIntersect(b, c) ==
  LET f[i \in Nat, j \in Nat] ==
        IF i > Len(b) \/ j > Len(c) THEN <<>>
        ELSE IF b[i].index = c[j].index THEN <<b[i]>> \o f[i + 1, j + 1]
        ELSE IF b[i].index < c[j].index THEN f[i + 1, j] ELSE f[i, j + 1]
  IN  f[1, 1]

ActionOrder(a, b) == <<a.trailing, a.term>> # <<b.trailing, b.term>>
                       /\ IF a.trailing = b.trailing THEN a.term < b.term ELSE ~a.trailing

\* The transitions, the actions accepted, those that are live, and accepts_diff: what is
\* accepted in X and is no longer live after c.
Transitions(m, Q) == Eager([X \in Q |-> Eager([c \in Chars |-> Move(m, X, c)])])
AcceptedIn(m, Q) == Eager([X \in Q |-> AcceptedBy(m, X)])
Live(next, accepts) ==
  LET From(X) == LeastFixpoint(LAMBDA Y : UNION {{next[Z][c] : c \in Chars} : Z \in Y} \ {{}}, DOMAIN next, {X})
  IN  Eager([X \in DOMAIN next |-> Listed(UNION {ToSet(accepts[Y]) : Y \in From(X)}, ActionOrder)])
AcceptsDiff(next, accepts, live) ==
  LET Diff(X, c) == IF next[X][c] = {} THEN <<>>
                    ELSE ActionIntersect(accepts[X], ActionDiff(live[X], live[next[X][c]]))
  IN  Eager([X \in DOMAIN next |-> Eager([c \in Chars |-> Diff(X, c)])])
ScannerWith(m, next, accepts) ==
  [start |-> ClosureOf(m, {1}), next |-> next, accepts |-> accepts,
   diff |-> AcceptsDiff(next, accepts, Live(next, accepts))]
ScannerOver(m, Q) == ScannerWith(m, Transitions(m, Q), AcceptedIn(m, Q))
ScannerOf(m) == ScannerOver(m, DFAStates(m))
Scanner(acts) == ScannerOf(ScannerNFA(acts))

-----------------------------------------------------------------------------
(* scan_buffer                                                             *)

\* The scan of node k at location i in DFA state at; last is the last state that accepts.
ScanFrom(k) == [node |-> k, i |-> 0, at |-> nodes[k].scanner.start, last |-> nodes[k].scanner.start, end |-> 0,
                found |-> <<>>]
NoScanner == [start |-> {}, next |-> <<>>, accepts |-> <<>>, diff |-> <<>>]
Unbuilt == {k \in DOMAIN nodes : nodes[k].scanner = NoScanner}
Scanning == scan.node \in DOMAIN nodes
NextOf == IF scan.i = Len(text) THEN {} ELSE nodes[scan.node].scanner.next[scan.at][text[scan.i + 1]]
Found(acts, end) == [j \in DOMAIN acts |-> [node |-> scan.node, act |-> acts[j], end |-> end]]

\* The accepts_diff table is there unless only the longest match counts.
HasDiff(nd) == nd.kind # "LONGEST" \/ nd.trailing

Consume ==
  /\ Scanning /\ NextOf # {}
  /\ LET nd == nodes[scan.node]
         now == IF scan.at # nd.scanner.start /\ HasDiff(nd)
                THEN Found(nd.scanner.diff[scan.at][text[scan.i + 1]], scan.i) ELSE <<>>
         accepting == nd.scanner.accepts[NextOf] # <<>>
     IN  scan' = [scan EXCEPT !.i = @ + 1, !.at = NextOf, !.found = @ \o now,
                              !.last = IF accepting THEN NextOf ELSE @,
                              !.end = IF accepting THEN scan.i + 1 ELSE @]
  /\ UNCHANGED <<terms, nodes, text, results, chosen, settled>>

\* Which results count, where some or all of the terminals want the longest match.
KeepLongest(rs) ==
  SelectSeq(rs, LAMBDA r : r.end = Last(rs).end \/ r.act.trailing)
IsLongest(r) == ~r.act.trailing /\ terms[r.act.term].scan = "LONGEST"
Mutant_Kept(rs, kind) == IF kind = "ALL" THEN rs ELSE KeepLongest(rs)
Kept(rs, kind) ==
  CASE rs = <<>> \/ kind = "ALL" -> rs
    [] rs # <<>> /\ (kind = "LONGEST" \/ (kind = "MIXED" /\ \E j \in DOMAIN rs : rs[j].end = Last(rs).end /\ IsLongest(rs[j]))) ->
         KeepLongest(rs)
    [] OTHER -> SelectSeq(rs, LAMBDA r : r.end = Last(rs).end \/ ~IsLongest(r))

Stop ==
  /\ Scanning /\ NextOf = {}
  /\ LET nd == nodes[scan.node]
         rs == scan.found \o Found(nd.scanner.accepts[scan.last], scan.end)
     IN  results' = results \o Kept(rs, nd.kind)
  /\ scan' = IF scan.node < Len(nodes) THEN ScanFrom(scan.node + 1) ELSE [scan EXCEPT !.node = @ + 1]
  /\ UNCHANGED <<terms, nodes, text, chosen, settled>>

-----------------------------------------------------------------------------
(* shift_all (parse.c 1219-1247): result i is examined with the others; a  *)
(* result that is dropped has no action, index 0.                          *)
Gone == [term |-> 0, index |-> 0, trailing |-> FALSE]
IsGone(r) == r.act = Gone
Drop(rs, js) == [j \in DOMAIN rs |-> IF j \in js THEN [rs[j] EXCEPT !.act = Gone] ELSE rs[j]]

\* A trailing context stands for the match of the whole expression that follows it.
JoinTrailing(rs, i) ==
  LET whole == {j \in (i + 1)..Len(rs) : ~IsGone(rs[j]) /\ rs[j].node = rs[i].node /\ rs[j].act.term = rs[i].act.term}
  IN  IF IsGone(rs[i]) \/ ~rs[i].act.trailing THEN rs
      ELSE [j \in DOMAIN rs |->
             IF j = i /\ whole # {} THEN [rs[i] EXCEPT !.act = rs[MaxOf(whole)].act] ELSE Drop(rs, whole \cup {i})[j]]

PrioOf(r) == terms[r.act.term].prio
ByPriority(rs, i) ==
  LET same == {j \in DOMAIN rs \ {i} : ~IsGone(rs[j]) /\ rs[j].end = rs[i].end}
      better == {j \in same : PrioOf(rs[i]) < PrioOf(rs[j])}
      before == IF better = {} THEN same ELSE {j \in same : j < MinOf(better)}
      lost == {j \in before : PrioOf(rs[i]) > PrioOf(rs[j])}
  IN  IF IsGone(rs[i]) \/ PrioOf(rs[i]) = 0 THEN rs
      ELSE Drop(rs, lost \cup (IF better = {} THEN {} ELSE {i}))

Settled(rs) ==
  LET Examine(u, i) == LET v == JoinTrailing(u, i) IN ByPriority(v, i)
  IN  SelectSeq(FoldSteps(Examine, rs, [i \in DOMAIN rs |-> i]), LAMBDA r : ~IsGone(r))

Settle ==
  /\ scan.node > Len(nodes) /\ ~settled
  /\ chosen' = Settled(results) /\ settled' = TRUE
  /\ UNCHANGED <<terms, nodes, text, scan, results>>

-----------------------------------------------------------------------------
\* A node is given by its actions and its kind of scan.
HasTrailing(nd) == \E j \in DOMAIN nd.acts : \E k \in DOMAIN terms[nd.acts[j].term].text : terms[nd.acts[j].term].text[k].op = "/"
Build ==
  /\ Unbuilt # {}
  /\ LET k == MinOf(Unbuilt)
     IN  nodes' = [nodes EXCEPT ![k].scanner = Scanner(nodes[k].acts), ![k].trailing = HasTrailing(nodes[k])]
  /\ UNCHANGED <<terms, text, scan, results, chosen, settled>>
Begin ==
  /\ Unbuilt = {} /\ scan.node = 0
  /\ scan' = ScanFrom(1)
  /\ UNCHANGED <<terms, nodes, text, results, chosen, settled>>

Init ==
  /\ \E in \in Inputs :
       /\ terms = in.terms /\ text = in.text
       /\ nodes = [k \in DOMAIN in.nodes |-> [acts |-> in.nodes[k].acts, kind |-> in.nodes[k].kind, trailing |-> FALSE, scanner |-> NoScanner]]
  /\ scan = [node |-> 0, i |-> 0, at |-> {}, last |-> {}, end |-> 0, found |-> <<>>]
  /\ results = <<>> /\ chosen = <<>> /\ settled = FALSE
Next == Build \/ Begin \/ Consume \/ Stop \/ Settle
Spec == Init /\ [][Next]_vars
=============================================================================

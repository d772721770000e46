------------------------------ MODULE MCTables ------------------------------
(***************************************************************************)
(* The tables of the grammars of Suite, as text and as a binary, and of    *)
(* machines with code, passes, trailing contexts and long scanners,        *)
(* against the machines they are written from.                             *)
(***************************************************************************)
EXTENDS BinaryTables

CONSTANT Menu    \* which machines: "all", or one disagreement

S == INSTANCE Suite

-----------------------------------------------------------------------------
(* The machine of a grammar, by LRTables.                                  *)
Plain(text) == [text |-> text, special |-> FALSE, escaped |-> 0]
Quoted(text) == [Plain(text) EXCEPT !.special = TRUE]

\* The characters of a grammar are numbered from 1; a terminal is shifted where its last
\* character is read, and the scanner of its state is the tree of the terminals' prefixes.
CharNumber(gr) == LET cs == SetToSeq(UNION {ToSet(gr.spell[t]) : t \in DOMAIN gr.spell})
                  IN  Eager([c \in ToSet(cs) |-> CHOOSE n \in DOMAIN cs : cs[n] = c])
PrefixesOf(gr, T) == UNION {{SubSeq(gr.spell[t], 1, n) : n \in 0..Len(gr.spell[t])} : t \in T}
Act(t) == [term |-> t, trailing |-> FALSE]

\* The scanner [chars, accepts, diffs, trans] for the terminals T, index numbers them.
NoScanner == [chars |-> <<>>, accepts |-> <<>>, diffs |-> <<>>, trans |-> <<>>]
Order(gr, T) == <<<<>>>> \o SelectSeq(SetToSeq(PrefixesOf(gr, T)), LAMBDA q : q # <<>>)
TreeScannerOf(gr, T, index, number, order) ==
  LET To(q, c) == {n \in DOMAIN order : order[n] # <<>> /\ Front(order[n]) = q /\ number[Last(order[n])] = c}
      next == [j \in DOMAIN order |-> [c \in 0..(NChars - 1) |-> MaxOf({0} \cup To(order[j], c)) - 1]]
      accepts == [j \in DOMAIN order |-> LET ts == {index[t] : t \in {u \in T : gr.spell[u] = order[j]}}
                                            ls == S!Listed(ts, <)
                                        IN  [k \in DOMAIN ls |-> Act(ls[k])]]
      Diff(j, c) == IF next[j][c] = -1 THEN <<>> ELSE accepts[j]
      diffs == SetToSeq({Diff(j, c) : j \in DOMAIN order, c \in 0..(NChars - 1)})
  IN  [chars |-> next, accepts |-> accepts, diffs |-> diffs,
       trans |-> [j \in DOMAIN order |-> [c \in 0..(NChars - 1) |-> CHOOSE n \in 0..(Len(diffs) - 1) : diffs[n + 1] = Diff(j, c)]]]
TreeScanner(gr, T, index) ==
  IF T = {} THEN NoScanner
  ELSE CHOOSE x \in {TreeScannerOf(gr, T, index, number, order) : number \in {CharNumber(gr)}, order \in {Order(gr, T)}} : TRUE

RulesFor(gr, A) == S!Listed(S!RulesOf(gr, A), <)
RuleNumbers(gr, index) ==
  [r \in DOMAIN gr.rules |-> <<index[gr.rules[r].lhs],
     (CHOOSE k \in DOMAIN gr.rules : \E rs \in {RulesFor(gr, gr.rules[r].lhs)} : k \in DOMAIN rs /\ rs[k] = r) - 1>>]
InOrder(names, index) == S!Listed(names, LAMBDA A, B : index[A] < index[B])
ItemsInOrder(its) == S!Listed(its, LAMBDA a, b : a[1] < b[1] \/ (a[1] = b[1] /\ a[2] < b[2]))

\* number: of the symbols; rule: <<production, rule>> of the rules.
MHints(gr, t, s, rule) ==
  LET its == {it \in t.items[s] : ~S!AtEnd(gr, it)
                                   /\ \E coded \in {S!CodedNullable(gr)} : \A k \in (it[2] + 1)..Len(S!Rhs(gr, it)) : S!Rhs(gr, it)[k] \in coded}
      Hint(it) == [depth |-> Len(S!Rhs(gr, it)) - it[2] - 1, state |-> S!TailState(t.items, gr, s, it) - 1, rule |-> rule[it[1]]]
  IN  CHOOSE hs \in {[k \in DOMAIN ls |-> Hint(ls[k])] : ls \in {ItemsInOrder(its)}} : TRUE
MErrors(gr, t, s, rule, term) ==
  LET its == {it \in t.items[s] : Len(S!Rhs(gr, it)) > 1 /\ Last(S!Rhs(gr, it)) \in S!Terminals(gr)}
      Hint(it) == [depth |-> it[2], prod |-> rule[it[1]][1], term |-> term[Last(S!Rhs(gr, it))]]
  IN  CHOOSE hs \in {[k \in DOMAIN ls |-> Hint(ls[k])] : ls \in {ItemsInOrder(its)}} : TRUE
MSame(t, s) == MinOf({u \in 1..s : t.shifts[u] = t.shifts[s]})
MState(gr, t, s, number, rule, term) ==
  CHOOSE st \in
    {[gotos |-> [k \in DOMAIN gs |-> <<number[gs[k][1]], gs[k][2] - 1>>], reds |-> [k \in DOMAIN done |-> rule[done[k]]],
      hints |-> MHints(gr, t, s, rule), errors |-> MErrors(gr, t, s, rule, term),
      chars |-> sc.chars, accepts |-> sc.accepts, diffs |-> sc.diffs, trans |-> sc.trans,
      scan |-> "ALL", trailing |-> FALSE, same |-> IF same = s THEN -1 ELSE same - 1, codes |-> <<>>, shifts |-> t.shifts[s] # {},
      accept |-> s \in t.accept, reducesTo |-> t.reducesTo[s] - 1] :
     gs \in {S!GotosByState(t.items, gr, s)}, done \in {S!DoneRules(t.items, gr, s)},
     sc \in {TreeScanner(gr, t.shifts[s], term)}, same \in {MSame(t, s)}} : TRUE
MRule(rule) == [n |-> Len(rule.rhs), spec |-> 0, final |-> 0, pass |-> <<>>, action |-> -1, prio |-> 10 * rule.prio + rule.opPrio]
MProd(gr, A) ==
  [internal |-> A = "S'", kind |-> IF A = "S'" THEN 2 ELSE 0, name |-> Plain(A), start |-> -1,
   rules |-> CHOOSE ms \in {[k \in DOMAIN rs |-> MRule(gr.rules[rs[k]])] : rs \in {RulesFor(gr, A)}} : TRUE]
MTerm(a) ==
  [kind |-> 3, string |-> Plain(a), trailing |-> FALSE, scan |-> "ALL", prio |-> 0, regex |-> -1]
MachineWith(gr, t, number, rule, prods, terms) ==
  CHOOSE mm \in
    {[binary |-> FALSE, default |-> -1, whitespace |-> 0, passes |-> <<>>,
      prods |-> [p \in DOMAIN prods |-> MProd(gr, prods[p])], terms |-> [k \in DOMAIN terms |-> MTerm(terms[k])],
      states |-> [s \in DOMAIN t.items |-> MState(gr, t, s, number, rule, term)]] :
     term \in {[x \in ToSet(terms) |-> number[x] - Len(prods)]}} : TRUE
MachineOf(gr) ==
  CHOOSE x \in UNION {UNION {{MachineWith(gr, t, number, rule, prods, terms) :
                                 rule \in {RuleNumbers(gr, number)},
                                 prods \in {InOrder(S!NonTerms(gr), number)}, terms \in {InOrder(S!Terminals(gr), number)}} :
                               number \in {[X \in DOMAIN t.order |-> t.order[X] - 1]}} : t \in {S!Tables(gr)}} : TRUE

-----------------------------------------------------------------------------
(* Variations.                                                             *)
EditRules(mm, F(_, _, _)) ==
  [mm EXCEPT !.prods = [p \in DOMAIN mm.prods |-> [mm.prods[p] EXCEPT !.rules =
                          [k \in DOMAIN mm.prods[p].rules |-> F(p, k, mm.prods[p].rules[k])]]]]
Binary(mm) == [mm EXCEPT !.binary = TRUE]

\* Some rules have code, which is never the same text twice; so has the last production,
\* which stands for _; and passes.
Coded(mm) == EditRules(mm, LAMBDA p, k, r : [r EXCEPT !.spec = IF k % 2 = 0 THEN 10 * p + k ELSE 0,
                                                      !.final = IF (p + k) % 2 = 0 THEN 10 * p + k ELSE 0])
WithDefault(mm) == [mm EXCEPT !.default = Len(mm.prods) - 1]
WithPasses(mm) ==
  [EditRules(mm, LAMBDA p, k, r : [r EXCEPT !.pass = CASE (p + k) % 3 = 0 -> <<>> [] (p + k) % 3 = 1 -> <<100 + 10 * p + k>>
                                                       [] (p + k) % 3 = 2 -> <<0, 200 + 10 * p + k>>])
   EXCEPT !.passes = <<Plain("one"), Plain("two")>>]
\* ${action} in every other rule.
WithActions(mm) == EditRules(mm, LAMBDA p, k, r : [r EXCEPT !.action = IF k % 2 = 1 THEN 10 * p + k ELSE -1])
\* Terminals whose strings have quotes.
WithQuotes(mm) == [mm EXCEPT !.terms = [t \in DOMAIN mm.terms |-> [mm.terms[t] EXCEPT !.string = Quoted(@.text)]]]
LongestMatch(mm) == [mm EXCEPT !.states = [s \in DOMAIN mm.states |-> [mm.states[s] EXCEPT !.scan = "LONGEST"]]]
WithoutHints(mm) == [mm EXCEPT !.states = [s \in DOMAIN mm.states |-> [mm.states[s] EXCEPT !.errors = <<>>]]]

\* The first terminal is a regular expression, made from a production that comes last.
FromProduction(mm, code) ==
  LET n == Len(mm.prods)
      rule == [n |-> 1, spec |-> code, final |-> 0, pass |-> <<>>, action |-> -1, prio |-> 0]
      Moved(gotos) == [k \in DOMAIN gotos |-> IF gotos[k][1] < n THEN gotos[k] ELSE <<gotos[k][1] + 1, gotos[k][2]>>]
  IN  [mm EXCEPT !.prods = Append(@, [internal |-> FALSE, kind |-> 0, name |-> Plain("regex"), start |-> -1, rules |-> <<rule>>]),
                 !.terms[1].regex = n,
                 !.states = [s \in DOMAIN mm.states |-> [mm.states[s] EXCEPT !.gotos = Moved(@)]]]

\* The scanner of a terminal with a trailing context, a+/b, beside a: a is 1, b is 2.
\* Where b follows, the context is reported, and so is a, which ends there.
Trailing(mm) ==
  LET To(f) == [c \in 0..(NChars - 1) |-> IF c \in DOMAIN f THEN f[c] ELSE -1]
      Diff(f) == [c \in 0..(NChars - 1) |-> IF c \in DOMAIN f THEN f[c] ELSE 0]
      one == [term |-> 0, trailing |-> TRUE]
      scanner == [chars |-> <<To(1 :> 1), To(1 :> 2 @@ 2 :> 3), To(1 :> 2 @@ 2 :> 3), To(<<>>)>>,
                  accepts |-> <<<<>>, <<Act(1), one>>, <<one>>, <<Act(0)>>>>,
                  diffs |-> <<<<>>, <<Act(1)>>, <<Act(1), one>>, <<one>>>>,
                  trans |-> <<Diff(<<>>), Diff(1 :> 1 @@ 2 :> 2), Diff(2 :> 3), Diff(<<>>)>>]
      Put(st) == IF st.chars = <<>> THEN st
                 ELSE [st EXCEPT !.chars = scanner.chars, !.accepts = scanner.accepts, !.diffs = scanner.diffs,
                                 !.trans = scanner.trans, !.trailing = TRUE, !.same = -1]
  IN  [mm EXCEPT !.terms[1].trailing = TRUE, !.states = [s \in DOMAIN mm.states |-> Put(mm.states[s])]]

\* A terminal that is code.
CodeTerm(mm) == [mm EXCEPT !.states = [s \in DOMAIN mm.states |-> [mm.states[s] EXCEPT !.codes = IF mm.states[s].shifts THEN <<1>> ELSE <<>>]]]

Names == {"g1", "g3", "g6", "g12", "prefix", "calc", "second", "flat", "g21", "g23"}
\* The machines, and those of some of the grammars.
AllMachines(plain, some) ==
  LET regexes == {FromProduction(Trailing(x), 0) : x \in some}
      coded == {FromProduction(Trailing(x), 7) : x \in some}
      texts == UNION {{Coded(x), WithDefault(Coded(x)), WithPasses(Coded(x)), WithDefault(WithPasses(Coded(x))), CodeTerm(x),
                       WithQuotes(x), LongestMatch(x)} : x \in some}
      binaries == regexes \cup {WithActions(x) : x \in regexes}
                  \cup UNION {{WithActions(x), WithQuotes(WithoutHints(x)), LongestMatch(x)} : x \in some}
  IN  plain \cup texts \cup coded \cup {Binary(x) : x \in plain \cup binaries}
MachinesOf(Machine) ==
  CASE Menu = "all" -> AllMachines({Machine[n] : n \in Names}, {Machine[n] : n \in {"g1", "g6", "g21"}})
    [] Menu = "blocks" -> {Machine["prefix"]}
    [] Menu = "hints" -> {Binary(WithQuotes(Machine["g1"]))}
    [] Menu = "passes" -> {Binary(WithPasses(Machine["g1"]))}
MachineMenu == [x \in {Menu} |-> UNION {MachinesOf(Machine) : Machine \in {[n \in Names |-> MachineOf(S!Suite[n])]}}]
MCMachines == MachineMenu[Menu]

-----------------------------------------------------------------------------
(* What the tables say.                                                    *)
R == INSTANCE TableReader WITH Load <- LoadCell, Root <- RootOf

Wanted(kind, code, r) ==
  IF m.binary THEN IF VisibleAction(r) THEN Fun(<<kind>>) ELSE Null
  ELSE IF code[1] # 0 THEN Fun(<<code[2], r[1], r[2]>>)
  ELSE IF m.default # -1 /\ code[3] # 0 THEN Fun(<<code[2], m.default, 0>>) ELSE Null
TheDefault == IF m.default = -1 THEN Rule(<<0, 0>>) ELSE Rule(<<m.default, 0>>)
PassWanted(r, k) ==
  IF PassOf(r, k) # 0 THEN Fun(<<"pass", k, r[1], r[2]>>)
  ELSE IF m.default # -1 /\ PassOf(<<m.default, 0>>, k) # 0 THEN Fun(<<"pass", k, m.default, 0>>) ELSE Null

\* An action number x stands for the ${action} of the rule r, or for the rule itself.
AllRules == FlattenSeq([p \in DOMAIN m.prods |-> [k \in DOMAIN m.prods[p].rules |-> <<p - 1, k - 1>>]])
StandsFor(x, r) ==
  IF Rule(r).action # -1 THEN x = Rule(r).action
  ELSE IF m.prods[r[1] + 1].internal THEN x = -1
  ELSE x \div 10000 = 100 + r[1] /\ AllRules[1 + (x % 10000)] = r

\* Rules of a production that differ in neither length, code, action nor priorities need
\* not be told apart.
Same(r) == {q \in ToSet(AllRules) : q[1] = r[1] /\ Rule(q) = Rule(r)}
Reduces(red, r) ==
  LET rule == Rule(r)
  IN  /\ \E q \in Same(r) : StandsFor(red.action, q)
      /\ red = [n |-> rule.n, symbol |-> r[1], prio |-> rule.prio, action |-> red.action,
                spec |-> Wanted("#spec_code", <<rule.spec, "spec", TheDefault.spec>>, r),
                final |-> Wanted("#final_code", <<rule.final, "final", TheDefault.final>>, r),
                pass |-> [k \in DOMAIN m.passes |-> PassWanted(r, k)]]
ShiftOf(a) ==
  LET t == Term(a.term)
      rule == m.prods[t.regex + 1].rules[1]
  IN  [symbol |-> NProds + a.term, kind |-> IF a.trailing THEN "TRAILING" ELSE t.scan, prio |-> t.prio,
       action |-> IF ~m.binary THEN 0 ELSE IF t.regex = -1 THEN -1
                  ELSE IF rule.action # -1 THEN rule.action ELSE 10000 * (100 + t.regex),
       spec |-> IF m.binary THEN Fun(<<"#spec_code">>)
                ELSE IF t.regex # -1 /\ rule.spec # 0 THEN Fun(<<"spec", t.regex, 0>>) ELSE Null]
Mapped(acts) == [k \in DOMAIN acts |-> ShiftOf(acts[k])]

Corresponds(reads, given, Reads(_, _)) ==
  DOMAIN reads = DOMAIN given /\ \A k \in DOMAIN given : Reads(reads[k], given[k])
Passes == Len(m.passes)
Each == 0..(NStates - 1)

\* Every goto of the LR machine, and no other, is found through goto_valid and the shared
\* goto table, wherever the gotos of the states were laid over each other.
GotosRead ==
  Ready => \A s \in Each : \A X \in 0..(NSymbols - 1) :
             R!GotoOf(s, X) = {St(s).gotos[k][2] : k \in {j \in DOMAIN St(s).gotos : St(s).gotos[j][1] = X}}

\* The reductions, with their code, the default code and the passes, and the two kinds of
\* hints are read as the state has them, whichever of them the tables share, and the number
\* of an action leads back to the rule.
ActionsRead ==
  Ready => \A s \in Each :
    /\ Corresponds(R!ReductionsAt(s, Passes), St(s).reds, Reduces)
    /\ Corresponds(R!HintsAt(s, Passes), St(s).hints,
                   LAMBDA read, h : read.depth = h.depth /\ read.state = h.state /\ Reduces(read.red, h.rule))
    /\ R!ErrorsAt(s) = [k \in DOMAIN St(s).errors |->
                          [depth |-> St(s).errors[k].depth, prod |-> St(s).errors[k].prod, string |-> Term(St(s).errors[k].term).string]]

\* scan_buffer goes through the DFA of the state and meets its shifts and differences,
\* through blocks, arrays and scanners that states share.
ScansRead ==
  Ready => \A s \in {x \in Each : St(x).chars # <<>>} : \A j \in 0..(Len(St(s).chars) - 1) :
    /\ R!ShiftsIn(s, j) = Mapped(St(s).accepts[j + 1])
    /\ \A c \in 0..(NChars - 1) :
         /\ R!NextScan(s, j, c) = St(s).chars[j + 1][c] + 1
         /\ HasTransitions(St(Owner(s))) => R!DiffIn(s, j, c) = Mapped(St(Owner(s)).diffs[St(Owner(s)).trans[j + 1][c] + 1])

\* A name is defined once, before anything points to it, but for what is declared and the
\* functions, which may come later.
Names0 == [n \in DOMAIN out |-> out[n].name]
Targets(n, kind) ==
  UNION {LET row == out[n].elements[k] IN {row[f].v : f \in {g \in DOMAIN row : row[g].kind = kind}} :
           k \in DOMAIN out[n].elements}
NamesDefined ==
  /\ \A n, k \in DOMAIN out : n # k => Names0[n] # Names0[k]
  /\ \A n \in DOMAIN out : Targets(n, "ptr") \subseteq {Names0[k] : k \in 1..(n - 1)} \cup Declared
  /\ Done => \A n \in DOMAIN out : Targets(n, "ptr") \cup (IF m.binary THEN {} ELSE Targets(n, "code")) \subseteq ToSet(Names0)
=============================================================================

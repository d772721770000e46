------------------------------- MODULE MCGSS -------------------------------
(***************************************************************************)
(* GSS on the grammars of Suite.  The engine grows the stack in some       *)
(* order; here every justified link is added at once, until there is none: *)
(* the stack of an engine that misses nothing.                             *)
(***************************************************************************)
EXTENDS GSS, Suite

MaxLength == 3    \* of the inputs
SmallProblems ==
  LET all == SuiteInputs(Unranked)
      inputs == Eager([n \in Unranked |-> {i \in all[n] : Len(i) <= MaxLength}])
      problem == SuiteProblem(inputs)
  IN  UNION {{problem[n][i] @@ [rank |-> DerivedHeights(Suite[n], i, Space)] : i \in inputs[n]} : n \in Unranked}
MCProblems == SmallProblems

Saturate ==
  /\ verdict = "running" /\ ~(Justified(prob, links) \subseteq links)
  /\ links' = links \cup Justified(prob, links)
  /\ UNCHANGED <<prob, verdict>>

MCNext == Saturate \/ SaturatedAnswer
MCSpec == Init /\ [][MCNext]_vars
=============================================================================

SPECIFICATION Spec
CONSTANTS
  Longest = 4
  Shape = "apart"
  Chars = {"a", "b", "c", "d", "A"}
  Menu = "steady"
INVARIANTS
  SameWords
  ShiftsMatches
CHECK_DEADLOCK FALSE

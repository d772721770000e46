SPECIFICATION Spec
CONSTANTS
  Menu = "order"
  Longest = 4
  Chars = {"a", "b", "c", "d", "A"}
  Inputs <- MCInputs
INVARIANT ShiftsMatches
CHECK_DEADLOCK FALSE

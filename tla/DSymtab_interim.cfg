SPECIFICATION Spec
CONSTANTS
  Paths = {p1}
  Names = {x}
  Usage = {"interim"}
  MaxSteps = 5
INVARIANT NoUpdateLost
CHECK_DEADLOCK FALSE

SPECIFICATION Spec
CONSTANTS
  Paths = {p1, p2}
  Names = {x, y}
  Usage = {}
  MaxSteps = 6
SYMMETRY Interchangeable
INVARIANTS
  ReadsInnermost
  EquivKeepsView
PROPERTY ImplementsView
CHECK_DEADLOCK FALSE

SPECIFICATION SpecAll
CONSTANTS
  Grammars = {"list", "block", "lengths"}
  Table <- MCTable
  Inputs <- MCInputs
  Blank = "n"
  MaxParses = 2
INVARIANTS
  ErrorsReported
  Advances
  Repaired
  WholeTree
PROPERTY Recovers
CHECK_DEADLOCK FALSE

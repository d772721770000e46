SPECIFICATION Spec
CONSTANTS
  Grammars = {"late"}
  Table <- MCTable
  Inputs <- MCInputs
  Blank = " "
INVARIANT RecognizesLanguage
CHECK_DEADLOCK FALSE

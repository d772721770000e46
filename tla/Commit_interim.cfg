SPECIFICATION CSpec
CONSTANTS
  Grammars = {"dies"}
  Table <- MCTable
  Inputs <- MCInputs
  Blank = " "
  Configurations <- MCConfigurations
INVARIANT CommittedPrefix
CHECK_DEADLOCK FALSE

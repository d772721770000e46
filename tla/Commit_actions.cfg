SPECIFICATION CSpec
CONSTANTS
  Grammars = {"midway", "lists", "guess", "split", "empty"}
  Table <- MCTable
  Inputs <- MCInputs
  Blank = " "
  Configurations <- MCConfigurations
INVARIANTS
  FinalActions
  CommittedPrefix
  PassVisits
CHECK_DEADLOCK FALSE

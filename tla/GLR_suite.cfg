SPECIFICATION FairSpec
CONSTANTS
  Grammars = {"g1", "g2", "g3", "g6", "g12", "g14", "prefix", "tail",
              "flat2", "flat3", "flat6", "flat12", "flat14",
              "usual14", "g21", "g22", "g23", "calc", "low"}
  Table <- MCTable
  Inputs <- MCInputs
  Blank = " "
INVARIANTS
  TypeOK
  RecognizesLanguage
  HashesUnique
  WorkInOrder
  NothingTwice
  ForestComplete
  FlatTree
  IntendedTree
PROPERTIES
  ImplementsGSS
  Terminates
CHECK_DEADLOCK FALSE

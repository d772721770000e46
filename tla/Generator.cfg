SPECIFICATION Spec
CONSTANTS
  Longest = 4
  Menu = "all"
  NChars = 8
  ScannerBlocks = 2
  SCANNER_BLOCKS = 2
  ByteLimit = 3
  ShortLimit = 5
  Base = 1000
INVARIANTS
  SameLanguage
  Faithful
  GotosRead
  ActionsRead
  ScansRead
  NamesDefined
CHECK_DEADLOCK FALSE

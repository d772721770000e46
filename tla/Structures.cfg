SPECIFICATION MCSpec
CONSTANTS
  Elements = {7, 91, 182, 273, 364, 455, 546}
  VecBound = 70
  Names = {"a", "b", "c"}
  InitialSizes = {1, 2}
  MaxSyms = 5
  MaxCopies = 2
  Repeats = FALSE
  Hash <- MCHash
  MaxScopes = 4
  MaxParses = 2
  Usage = {}
INVARIANTS
  VecFits
  SetHolds
  ZNodesHold
  InPlace
  FindsLast
  UsesLive
  FreedWithTop
CHECK_DEADLOCK FALSE

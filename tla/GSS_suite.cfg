SPECIFICATION MCSpec
CONSTANT Problems <- MCProblems
INVARIANTS
  TypeOK
  LinksDerive
  AcceptedIsDerived
  SaturatedAcceptsAll
CHECK_DEADLOCK FALSE

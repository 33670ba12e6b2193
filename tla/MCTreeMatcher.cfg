SPECIFICATION Spec
CONSTANTS
  Problems <- MCProblems
  Nil = Nil
INVARIANTS
  TypeOK
  VerdictIsStructural
  ActiveCallsAreJustified
  CapturesFollowTheMatch
  CapturesAreMatches
  DiesOnlyForMisplacedForest
PROPERTY Returns
CHECK_DEADLOCK FALSE

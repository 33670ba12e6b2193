SPECIFICATION Spec
CONSTANTS
  Problems <- MCProblems
  Nil = Nil
INVARIANT ForestsStandAlone
CHECK_DEADLOCK FALSE

SPECIFICATION Spec
CONSTANTS
  Problems <- MCExpansionProblems
  Nil = Nil
INVARIANT ConversionSucceeds
CHECK_DEADLOCK FALSE

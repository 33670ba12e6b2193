SPECIFICATION Spec
CONSTANTS
  MaxDim = 2
  a1 = a1
  a2 = a2
  b1 = b1
  A = A
  B = B
  NullSpace = NullSpace
  Space <- MCSpace
  ArrayOf <- MCArrayOf
  Relation <- MCRelation
  Pattern <- MCPattern
  Payload <- MCPayload
  Candidates <- MCCandidates
  Problems <- MCProblems
INVARIANTS TypeOK StackMatchesCombination MatchesAreSound LookupsSucceed CutsLoseNothing
PROPERTIES ImplementsMatchSpec Returns
CHECK_DEADLOCK FALSE

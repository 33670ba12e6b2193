SPECIFICATION ReplaceSpec
CONSTANTS
  MaxDim = 2
  a1 = a1
  a2 = a2
  b1 = b1
  A = A
  B = B
  NullSpace = NullSpace
  Space <- MCSpace
  ArrayOf <- MCArrayOf
  Relation <- MCRelation
  Pattern <- MCPattern
  Payload <- MCPayload
  Candidates <- SingleInputDimCandidates
  Problems <- MCProblems
INVARIANTS ReplaceTypeOK EveryRelationOnce ResultIsAsMatched AccessesAreReplaced MatchedAloneToo EndsExactlyWhenAmbiguous
PROPERTY ReplaceReturns
CHECK_DEADLOCK FALSE

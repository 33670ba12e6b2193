SPECIFICATION Spec
CONSTANTS
  a1 = a1
  a2 = a2
  A = A
  NullSpace = NullSpace
  Space <- MCSpace
  ArrayOf <- MCArrayOf
  Relation <- MCRelation
  Pattern <- MCPattern
  Payload <- MCPayload
  Candidates <- StrideCandidates
  Problems <- MCProblems
INVARIANTS MatchedAccessesAdvance CountsStridedAccesses DifferentStridesExclude
CHECK_DEADLOCK FALSE

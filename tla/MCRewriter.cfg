SPECIFICATION Spec
CONSTANTS
  Problems <- MCProblems
  None = None
  s = s  t = t
  u = u  v = v  w = w  x = x  y = y  z = z
  named = named
INVARIANTS
  TypeOK
  BuildsWhatIsDescribed
  InsertsAbove
  ScheduleIsPreserved
  MergedBandsArePermutable
  NothingLeftToMerge
  AbortsExactlyWhenMalformed
PROPERTIES
  ChangesAreLocal
  Returns
CHECK_DEADLOCK FALSE

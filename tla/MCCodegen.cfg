SPECIFICATION Spec
CONSTANTS
  t1 = t1
  c1 = c1
  c2 = c2
  Thread = {t1}
  Call = {c1, c2}
  ThreadOf <- MCOneThread
  StmtId = {"S1", "S2"}
  Modulus = 3
  Jobs <- MCJobs
  None = None
INVARIANTS
  TypeOK
  OccurrencesUnique
  PrintsOwnOccurrence
  DiesOnlyForItsCustom
PROPERTY CallsReturn
CHECK_DEADLOCK FALSE

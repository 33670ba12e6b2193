SPECIFICATION Spec
CONSTANTS
  MaxVariables = 5
  MaxCtxs = 2
  MaxPets = 2
  MaxObjects = 3
  Moved = {}
INVARIANT ReferencesAreCounted
PROPERTY ContextIsFreedUnlessOutlived
CHECK_DEADLOCK FALSE

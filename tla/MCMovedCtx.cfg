SPECIFICATION Spec
CONSTANTS
  MaxVariables = 3
  MaxCtxs = 1
  MaxPets = 1
  MaxObjects = 2
  Moved = {"ScopedCtx"}
INVARIANT FreedOnce
CHECK_DEADLOCK FALSE

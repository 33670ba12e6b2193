SPECIFICATION Spec
CONSTANTS
  Problems <- MCContextByCopy
  None = None
  s = s  t = t
  u = u  v = v  w = w  x = x  y = y  z = z
  named = named
INVARIANT BuildsWhatIsDescribed
CHECK_DEADLOCK FALSE

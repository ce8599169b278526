SPECIFICATION Safety
CONSTANTS
  Contenders = {c1, c2}
  Leavers = {}
  Crashers = {}
  None = None
  Stale = Stale
INVARIANT OneOwner
CHECK_DEADLOCK FALSE

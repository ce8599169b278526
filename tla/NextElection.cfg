SPECIFICATION Spec
CONSTANTS
  Contenders = {c1, c2, c3}
  Leavers = {c1, c2}
  Crashers = {c2, c3}
  None = None
  Stale = Stale
INVARIANT TakeoverSparesTheSeen
PROPERTIES ElectionSettles PathIsAnswered
CHECK_DEADLOCK FALSE

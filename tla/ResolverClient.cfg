SPECIFICATION Spec
CONSTANTS
  Requests = {r1, r2}
  RespawnBudget = 2
INVARIANTS OwnAnswer SupersededAreReaped
PROPERTIES DrainBeforeKill ServiceSpec CallsSettle CloseReleases
CHECK_DEADLOCK FALSE

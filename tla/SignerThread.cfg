CONSTANTS
  Callers = {c1, c2, c3}
  Nobody = Nobody
  RestartCooldownMs = 2
  MaxEmulators = 6
  MaxTime = 6
SPECIFICATION Spec
INVARIANTS TypeOK EmulatorsPaced RefusedWhileYoung
PROPERTIES BuildsSpaced EveryCallReturns
CHECK_DEADLOCK FALSE

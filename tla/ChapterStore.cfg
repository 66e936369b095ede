CONSTANTS
  Tasks = {t1, t2}
  TtlMs = 2
  MaxHold = 1
  MaxTime = 8
SPECIFICATION Spec
INVARIANTS StalenessBounded

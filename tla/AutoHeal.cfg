\* Two tasks, lag 1: stamps can enter the lock in the wrong order.
CONSTANTS
  Tasks = {t1, t2}
  ErrorThreshold = 3
  WindowMs = 2
  CooldownMs = 4
  MaxLag = 1
  MaxStreak = 5
  MaxTime = 9
SPECIFICATION Spec
INVARIANTS HealOnEvidence CountedRecent
PROPERTY HealsApart
CHECK_DEADLOCK FALSE

CONSTANTS
  dev01 = dev01
  dev02 = dev02
  dev03 = dev03
  blank = blank
  NoName = blank
  PoolSize = 3
  Profiles <- Pool3
  BootProfiles <- Boot
  StartupNames = {blank}
  Tasks = {t1, t2}
  ErrorThreshold = 2
  WindowMs = 5
  CooldownMs = 0
  MaxLag = 1
  MaxStreak = 3
  RotateCooldownMs = 2
  MaxHold = 2
  Outcomes = {"ok", "rawIllegal", "transport"}
  MaxTime = 4
SPECIFICATION Spec
SYMMETRY TaskSymmetry
CHECK_DEADLOCK FALSE
INVARIANT ConsecutiveErrorsHeal

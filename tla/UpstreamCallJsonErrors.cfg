CONSTANTS
  dev01 = dev01
  dev02 = dev02
  dev03 = dev03
  blank = blank
  NoName = blank
  PoolSize = 2
  Profiles <- Pool2
  BootProfiles <- Boot
  StartupNames = {blank}
  Tasks = {t1}
  ErrorThreshold = 2
  WindowMs = 5
  CooldownMs = 0
  MaxLag = 1
  MaxStreak = 3
  RotateCooldownMs = 2
  MaxHold = 1
  Outcomes = {"ok", "jsonError", "jsonIllegal", "rawIllegal", "transport"}
  MaxTime = 4
SPECIFICATION Spec
SYMMETRY TaskSymmetry
CHECK_DEADLOCK FALSE
INVARIANT ConsecutiveErrorsHeal

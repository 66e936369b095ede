CONSTANTS
  dev01 = dev01
  dev02 = dev02
  dev03 = dev03
  blank = blank
  NoName = blank
  PoolSize = 2
  Profiles <- Pool2
  BootProfiles <- Boot
  StartupNames = {blank}
  Tasks = {t1, t2}
  ErrorThreshold = 2
  WindowMs = 2
  CooldownMs = 3
  MaxLag = 1
  MaxStreak = 3
  RotateCooldownMs = 3
  MaxHold = 2
  Outcomes = {"ok", "jsonError", "jsonIllegal", "rawIllegal", "transport"}
  MaxTime = 6
SPECIFICATION Spec
SYMMETRY TaskSymmetry
CHECK_DEADLOCK FALSE
INVARIANTS RotationLeavesFailedDevice HealNeedsFailedCalls
PROPERTY RetryOnOtherDevice

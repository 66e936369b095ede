CONSTANTS
  dev01 = dev01
  dev02 = dev02
  blank = blank
  stranger = stranger
  NoName = blank
  PoolSize = 4
  Profiles <- MCProfiles
  BootProfiles <- MCBootProfiles
  FileProfiles <- MCFileProfiles
  DefaultProfile <- MCDefaultProfile
  StartupNames <- MCStartupNames
  RotateCooldownMs = 3
  MaxAttempts = 3
  MaxTime = 14
SPECIFICATION Spec
INVARIANTS IndexTracksProfile RestoresBoot AsksAllInReach
 
CHECK_DEADLOCK FALSE

CONSTANTS
  t1 = t1
  c1 = c1
  c2 = c2
  c3 = c3
  c3Padded = c3Padded
  unnamed = unnamed
  devA = devA
  devB = devB
  Blank = unnamed
  Ids = {c1, c2, c3, c3Padded, unnamed}
  Trim <- MCTrim
  PoolSize = 2
  Profiles <- MCProfiles
  BootProfiles <- MCBootProfiles
  StartupNames = {unnamed}
  NoName = unnamed
  RotateCooldownMs = 1
  MaxTime = 2
  Tasks = {t1}
  Chapters = {c2}
  Toc = Toc
  Book = Book
  Directories <- MCDirectories
  PrefetchEnabled = TRUE
  ChapterSize = 2
  Renewed <- MCRenewed
  MaxGen = 2
  NoDirectory = NoDirectory
  NoKey = NoKey
SPECIFICATION Spec
CHECK_DEADLOCK FALSE
INVARIANTS TextIsTrue RetryKeyIsNew ReportsBounded BatchHoldsChapter SameKeySameBatch ReadingOrder

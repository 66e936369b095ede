CONSTANTS
  t1 = t1
  t2 = t2
  t3 = t3
  c1 = c1
  c2 = c2
  Requests = {t1, t2, t3}
  Chapters = {c1, c2}
  Wants <- MCWants
  NoLock = NoLock
  NoChapter = NoChapter
SPECIFICATION DedupSpec
INVARIANTS DedupTypeOK OneFetchUnlessRaced
PROPERTY EveryoneLeaves

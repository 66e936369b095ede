CONSTANTS
  fpA = fpA
  fpB = fpB
  Tasks = {t1, t2}
  Fingerprints = {fpA, fpB}
  KeyVers = {0, 1}
  Serves <- MCServes
  Shards = 2
  ShardOf <- MCShardOf
  MaxEntries = 1
  TtlMs = 1
  NoKey = NoKey
  MaxTime = 3
SPECIFICATION Spec
SYMMETRY TaskSymmetry
CHECK_DEADLOCK FALSE
INVARIANTS OvershootBounded AnswersRequest QuiescentCapacity InvalidationPurges

CONSTANTS
  Characters <- MCCharacters
  Spellings <- MCSpellings
  PoolSize = 2
  Profiles <- MCProfiles
  BootProfiles <- MCBootProfiles
  StartupNames = {""}
  NoName = ""
  RotateCooldownMs = 2
  MaxTime = 7
  Tasks = {"t1"}
  Queries <- MCQueries
  MaxUsize = 60
  Decimal <- MCDecimal
  Answers <- MCAnswers
  Signatures <- MCSignatures
  DropQuery <- MCDropQuery
  DropHeaders <- MCDropHeaders
  MaxCached = 1
SPECIFICATION SearchSpec
CHECK_DEADLOCK FALSE
INVARIANTS SearchTypeOK  IdNeverLost AnswersOwnRequest SignedIsSent QueryArrives HeadersAsMeant

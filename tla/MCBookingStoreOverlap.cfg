SPECIFICATION FairSpec
CONSTANTS
  r1 = r1
  r2 = r2
  h1 = h1
  h2 = h2
  Handlers <- TwoHandlers
  TTL = 1
  Requests <- OneRequest
  Horizon = 3
  Overlap = TRUE
INVARIANTS
  TypeOK
  UsedTokenStaysUsed
  ExpiredTokenStaysExpired
  StatusTokenNeverResolves
PROPERTIES
  ToldNeverReopens
  ResolutionAnswered

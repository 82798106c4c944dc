SPECIFICATION Spec
CONSTANTS
  r1 = r1
  r2 = r2
  h1 = h1
  h2 = h2
  Handlers <- TwoHandlers
  TTL = 1
  Requests <- OneRequest
  Horizon = 2
  Overlap = TRUE
INVARIANT SingleUse

SPECIFICATION Spec
CONSTANTS
  r1 = r1
  r2 = r2
  h1 = h1
  h2 = h2
  Handlers <- TwoHandlers
  TTL = 1
  Requests <- TwoRequests
  Horizon = 2
  Overlap = FALSE
INVARIANT ReplyMatchesRow
PROPERTY ImplementsLifecycle
SYMMETRY Symmetry

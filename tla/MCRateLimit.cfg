SPECIFICATION Spec
CONSTANTS
  c1 = c1
  c2 = c2
  h1 = h1
  h2 = h2
  Clients <- TwoClients
  Handlers <- TwoHandlers
  Rates <- NoneOrOne
  Cost = 2
  Burst = 1
  TTL = 2
  Horizon = 4
SYMMETRY Symmetry
INVARIANTS
  TypeOK
  RateHolds
  NoUnfairRefusal

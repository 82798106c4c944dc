SPECIFICATION FairIntakeSpec
CONSTANTS
  r1 = r1
  h1 = h1
  m1 = m1
  w1 = w1
  w2 = w2
  None = None
  Handlers <- OneHandler
  Mailboxes <- OneMailbox
  Hooks <- TwoHooks
  TTL = 1
  Overlap = TRUE
  Requests <- OneRequest
  Horizon = 2
INVARIANTS
  IntakeTypeOK
  AnswerMatchesQueue
  SentWasDelivered
  LinksResolve
  SendHasTarget
PROPERTY IntakeAnswered

SPECIFICATION FairSpec
CONSTANTS
  u1 = u1
  u2 = u2
  w1 = w1
  w2 = w2
  m1 = m1
  m2 = m2
  p1 = p1
  h1 = h1
  h2 = h2
  g1 = g1
  g2 = g2
  File = File
  None = None
  Urls <- OneLink
  Hooks <- NoSetting
  Mails <- NoSetting
  Passwords <- NoSetting
  Handlers <- OneHandler
  Refreshers <- OneRefresher
  MaxEdits = 1
  MaxBoots = 0
  Overlap = TRUE
  SaveFails = FALSE
  RowFails = FALSE
  LoadFails = FALSE
PROPERTIES
  StoppedRefresherExits
  RefreshCatchesUp

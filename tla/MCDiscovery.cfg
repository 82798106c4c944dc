SPECIFICATION DiscoverySpec
CONSTANTS
  Failed = Failed
  Null = Null
  Misreadings <- AMisreading
  LowerCase <- SmallLetters
  Tables <- SmallTables
  Online <- AFewTables
  Links <- AFewLinks
  Served <- AFewFacts
  Facts <- AllFacts
  Sites = {"none", "dir", "upstream"}
  Bodies <- ShortBodies
INVARIANTS
  DiscoveryTypeOK
  HeadKept
  HintIsAlone
  LengthKept
  PagesCarryLinks
  StreamFlows
  FactsAreCurrent
  TableUnderstood
  NothingMixedUp
  MisreadRefused
  ShareLinkKept

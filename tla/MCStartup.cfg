SPECIFICATION FairSpec
CONSTANTS
  p1 = p1
  p2 = p2
  r1 = r1
  r2 = r2
  file = file
  form = form
  None = None
  Processes <- TwoProcesses
  EmailColumns <- TwoColumns
  Files <- OneFile
  Forms <- OneForm
  Requests <- TwoRequests
INVARIANTS
  TypeOK
  ServingIsMigrated
  ConfiguredIsNotSeeded
  StatusFindsItsOwn
PROPERTY StartEnds

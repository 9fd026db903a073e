SPECIFICATION ServerSpec
CONSTANTS
  c1 = c1
  Clients = {c1}
  Free = Free
  NoLevel = NoLevel
  InitialLevel = 2
  Requests <- FreezeRequests
  MaxLevel = 3
  BlockLimit = 5
  MaxHelpers = 1
  MaxUnplugs = 0
PROPERTIES
  ThrownAwayAfterBlocked

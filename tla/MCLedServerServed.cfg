SPECIFICATION BusySpec
CONSTANTS
  c1 = c1
  c2 = c2
  Clients = {c1, c2}
  Free = Free
  NoLevel = NoLevel
  InitialLevel = 2
  Requests <- BusyRequests
  MaxLevel = 3
  BlockLimit = 1
  MaxHelpers = 2
  MaxUnplugs = 1
PROPERTIES
  RequestsServed

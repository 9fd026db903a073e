SPECIFICATION MenuSpec
CONSTANTS
  c1 = c1
  c2 = c2
  Clients = {c1, c2}
  Free = Free
  NoLevel = NoLevel
  InitialLevel = 2
  Requests <- AllRequests
  MaxLevel = 3
  BlockLimit = 1
  MaxHelpers = 3
  MaxUnplugs = 1
SYMMETRY Symmetry
INVARIANTS
  ServerTypeOK
  BacklogBounded
  OnlyCurrentDispatches
  StaleBounded
  ModeOnLine
  BrightnessOnLine

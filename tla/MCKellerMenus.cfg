SPECIFICATION MenuSpec
CONSTANTS
  c1 = c1
  Clients = {c1}
  Free = Free
  NoLevel = NoLevel
  InitialLevel = 2
  Requests <- AllRequests
  MaxLevel = 2
  BlockLimit = 0
  MaxHelpers = 2
  MaxUnplugs = 1
  DefaultLevel = 1
  SetupLevel = 0
  Unusable = Unusable
  NoPacket = NoPacket
  AmbientTimeout = 2
  StrobeTimeout = 1
  FreezeDelay = 1
  LoopDelay = 1
  MaxStall = 0
  Wrap = 5
  MaxWire = 1
INVARIANTS
  ModesAgree
  BrightnessAgrees
PROPERTIES
  IsLightSwitch

SPECIFICATION LightSpec
CONSTANTS
  Levels = {10, 100, 200}
  DefaultLevel = 100
  SetupLevel = 10
  Unusable = Unusable
  NoPacket = NoPacket
  AmbientTimeout = 10
  StrobeTimeout = 5
  FreezeDelay = 1
  LoopDelay = 1
  MaxStall = 12
  Wrap = 26
INVARIANTS
  NoPacketSkipped
  ModeFollowsOrders
  BrightnessFollowsOrders
  OnlyStrobeFreezes
PROPERTIES
  SilenceEndsInAmbient

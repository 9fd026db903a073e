SPECIFICATION LinkSpec
CONSTANTS
  Base = 8
  Magic <- MCMagic
  AdlerMod = 61
  MaxNetworkLength = 19
  MaxType = 3
  Packets <- MCPackets
  MaxSent = 4
  MaxLost = 2
INVARIANTS
  LosslessInOrder
  DamageBounded
PROPERTIES
  LinkIsLossyChannel
  LosslessArrives
CHECK_DEADLOCK FALSE

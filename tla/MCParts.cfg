SPECIFICATION PartsSpec
CONSTANTS
  Base = 3
  Magic <- MCMagic
  AdlerMod = 7
  MaxNetworkLength = 2
  MaxType = 1
INVARIANTS
  OffsetsInStep
  BufferBound
  DoneMeansFramed
  NoGaps
  DrawnFromData
  HitsAsAsked
PROPERTIES
  PicturesDrawn
  FlashesGoOn
  SliderPrevails

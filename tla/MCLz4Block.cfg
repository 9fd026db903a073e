SPECIFICATION BlockSpec
CONSTANTS
  MinMatch = 2
  LastLiteralBytes = 1
  MatchMargin = 3
  KB64 = 12
  KB4 = 6
  GB1 = 20
  GB2 = 36
  HASH_UNIT = 2
  Hash <- PairHash
  HashSize = 3
  StepSizes = {1, 2}
  StreamRing = 15
  MaxBlock = 7
  Blocks <- SomeBlocks
  Dictionaries <- SomeDictionaries
  MaxCalls = 4
INVARIANTS
  InsideBuffers
  DecodedWhole
  CompressedWhole
  RingBufferSuffices
  DecodesBack
CHECK_DEADLOCK FALSE

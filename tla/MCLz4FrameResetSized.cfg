SPECIFICATION FrameDecoderSpec
CONSTANTS
  minFHSize = 3
  maxFHSize = 6
  SizeField = 2
  BHSize = 2
  BFSize = 2
  KB64 = 3
  maxBlockSize = 4
  DstSize = 6
  MaxGiven = 6
  MaxRoom = 5
  Streams <- SizedResetStreams
  DictSize = 0
  StableDst = FALSE
  MaxResets = 1
INVARIANTS ResetStartsAfresh

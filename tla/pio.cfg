SPECIFICATION FairSpec
CONSTANTS
  Buffers <- OneBuffer
  Counts <- OneAndThree
  RgbBits = 2
  RgbwBits = 3
  FifoDepth = 1
  Notes <- ShortNotes
  MaxQueued = 1
INVARIANTS ProgramsIntact
PROPERTIES WireCarriesFrames FramesShown NoteTakesItsTime

CONSTANTS
  Bytes <- FourBytes
  Words <- OneWord
  Pause = 86
  MaxLate = 1
  NIL <- NilWord
SPECIFICATION FairSpec
INVARIANTS TypeOK FrameUnderstood ContentionIsBrief
PROPERTIES PartnerServed WordIsPartners MetSucceeds

CONSTANTS
  Songs <- TwoSongs
  DefaultHz = 2
SPECIFICATION FairSpec
INVARIANTS TypeOK PutNeverBlocks UndisturbedPitch UndisturbedSong
PROPERTY FallsSilent

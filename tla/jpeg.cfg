SPECIFICATION FairSpec
CONSTANTS
  Chunks = 4
  Pieces = 4
INVARIANTS ChunksInOrder PiecesInOrder CodecAtRest NoPauseMissed
PROPERTY FrameEnds

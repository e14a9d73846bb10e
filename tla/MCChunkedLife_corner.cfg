CONSTANTS
  ChunkSize = 6
  Reach = 2
  MaxTicks = 3
  ChunkIDs <- MCChunkIDs
  Spots <- MCCorner
SPECIFICATION Spec
INVARIANT TypeOK
PROPERTY PlaysLife

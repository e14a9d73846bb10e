CONSTANTS
  c1 = c1
  o1 = o1
  o2 = o2
  p1 = p1
  ChunkIDs = {c1}
  Cells = {Edge}
  Interior = Interior
  Edge = Edge
  Objects = {o1, o2}
  Players = {p1}
  Ticker = Ticker
  Nil = Nil
  NumWorkers = 1
  hibernationThreshold = 1
  StorageFaults = FALSE
  Neighbours <- MCNeighbours
  EdgeCells <- MCEdgeCells
SPECIFICATION Spec
INVARIANT EvictedIsSaved

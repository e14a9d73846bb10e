CONSTANTS
  c1 = c1
  c2 = c2
  o1 = o1
  o2 = o2
  o3 = o3
  p1 = p1
  ChunkIDs = {c1, c2}
  Cells = {Edge}
  Interior = Interior
  Edge = Edge
  Objects = {o1, o2, o3}
  Players = {p1}
  Ticker = Ticker
  Nil = Nil
  NumWorkers = 2
  hibernationThreshold = 1
  StorageFaults = FALSE
  Neighbours <- MCNeighbours
  EdgeCells <- MCEdgeCells
SPECIFICATION Spec
SYMMETRY MCSymmetry
INVARIANTS JobOwnsEntry GaugeMatches TickCoversWorld QuietSpawnsCount
PROPERTIES CaptureStable DeadStayDead

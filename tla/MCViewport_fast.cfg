SPECIFICATION FairSpec
CONSTANTS
  ChunkSize = 8
  OffsetRange = 64
  IntMax = 64
  MaxCustomDim = 2
  MaxCustomCells = 9
  GridSize = 3
  CellPx = 1
  Width = 7
  VIEWPORT_PAD = 0
  Threshold = 3
  Shifts <- FastShifts
  CamRange <- Places
  Pieces <- BlockAndCell
  Roots <- OnePlace
  MaxPlaced = 2
  MaxQueue = 2
INVARIANT TypeOK
INVARIANT QueueMatches
 
 
 
 

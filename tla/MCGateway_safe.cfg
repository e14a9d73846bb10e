SPECIFICATION Spec
CONSTANTS
  a = a
  b = b
  Here = Here
  There = There
  Nil = Nil
  Clients = {a}
  Readers = {}
  ChunkIDs = {Here, There}
  CommandsOf <- TourAndPieces
  NumWorkers = 1
  Buffer = 1
  MaxInbox = 1
INVARIANT TypeOK
INVARIANT NoGhostSubscribers
PROPERTY KeepsExchange

SPECIFICATION FairSpec
CONSTANTS
  a = a
  b = b
  Here = Here
  There = There
  Nil = Nil
  Clients = {a, b}
  Readers = {a}
  ChunkIDs = {Here}
  CommandsOf <- AllWatch
  NumWorkers = 1
  Buffer = 1
  MaxInbox = 1
INVARIANT VisibleIsLive
INVARIANT NobodyIsSkipped
PROPERTY TickTerminates
PROPERTY GoneAreForgotten
PROPERTY ViewersCatchUp
PROPERTY ReadersAreServed

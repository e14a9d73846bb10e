SPECIFICATION FairSpec
CONSTANTS
  a = a
  b = b
  Here = Here
  There = There
  Nil = Nil
  Clients = {a}
  Readers = {}
  ChunkIDs = {Here}
  CommandsOf <- AllWatch
  NumWorkers = 1
  Buffer = 1
  MaxInbox = 1
PROPERTY NeverFreezes

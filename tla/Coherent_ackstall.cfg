SPECIFICATION FairSpec
CONSTANTS
  co <- MESICoherence
  nTiles = 1
  a = a
  b = b
  Addrs = {a, b}
  Values = {0}
  nAcquireTransactions = 1
  rpqEntries = 1
  AckStalls = TRUE
  MetaStalls = FALSE
  CoreOps <- OneTileOps
  HostAcquires = {"readUncached", "writeUncached"}
PROPERTY BusyCompletes
CHECK_DEADLOCK FALSE

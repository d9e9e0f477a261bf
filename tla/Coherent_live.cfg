SPECIFICATION FairSpec
CONSTANTS
  co <- MESICoherence
  nTiles = 1
  a = a
  b = b
  Addrs = {a, b}
  Values = {0}
  nAcquireTransactions = 2
  rpqEntries = 1
  AckStalls = FALSE
  MetaStalls = FALSE
  CoreOps <- ReserveOps
  HostAcquires = {"readUncached", "writeUncached"}
PROPERTIES MissesComplete HostCompletes BusyCompletes

SPECIFICATION Spec
CONSTANTS
  co <- MESICoherence
  nTiles = 1
  a = a
  b = b
  Addrs = {a, b}
  Values = {0, 1}
  nAcquireTransactions = 2
  rpqEntries = 2
  AckStalls = FALSE
  MetaStalls = FALSE
  CoreOps <- OneTileOps
  HostAcquires = {"readUncached", "writeUncached"}
INVARIANTS TypeOK ReadsLatest  HostReadsFresh
           OneTransactionPerLine AckFindsTransaction

SPECIFICATION FairSpec
CONSTANTS
  pack = pack
  s1 = s1
  s2 = s2
  Packs <- MCPacks
  PackOf <- MCPackOf
  Sessions = {s1, s2}
  MaxVersion = 2
  Sizes <- MCSizes
  MaxChunks = 3
  Limit = 2
  EmbeddingDims = {0, 768}
  MaxFaults = 1
INVARIANTS ReceiptTrue BindFirst OutcomesAgree
PROPERTIES LedgerMonotone SessionEnds
CHECK_DEADLOCK FALSE

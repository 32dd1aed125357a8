SPECIFICATION Spec
CONSTANTS
  g0 = g0
  a1 = a1
  a2 = a2
  b1 = b1
  b2 = b2
  b3 = b3
  t1 = t1
  t2 = t2
  Genesis = g0
  NoBlock = NoBlock
  ConnectBatch = 2
  MinBlocksToKeep = 1
  Blocks <- LargeBlocks
  Parent <- LargeParent
  Path <- LargePath
  Height <- LargeHeight
  Work <- LargeWork
  Addr <- LargeAddr
  Threads = {t1, t2}
  BodyInvalid = {}
  ConnectInvalid = {b2}
  PruneMode = FALSE
  Reconsiderable = {}
  Precious = {}
  MaxSequenceId = 7
  MaxPrecious = 0
SYMMETRY ThreadSymmetry
INVARIANTS
  TypeOK
  ActiveChainValid
  LinksRight
  CandidatesRight
  QuiescentTipIsBest
PROPERTY ImplementsBestChain

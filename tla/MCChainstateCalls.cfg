SPECIFICATION FairSpec
CONSTANTS
  g0 = g0
  a1 = a1
  a2 = a2
  b1 = b1
  b2 = b2
  b3 = b3
  t1 = t1
  t2 = t2
  Genesis = g0
  NoBlock = NoBlock
  ConnectBatch = 2
  MinBlocksToKeep = 1
  Blocks <- SmallBlocks
  Parent <- SmallParent
  Path <- SmallPath
  Height <- SmallHeight
  Work <- SmallWork
  Addr <- SmallAddr
  Threads = {t1}
  BodyInvalid = {}
  ConnectInvalid = {b2}
  PruneMode = TRUE
  Reconsiderable = {b1}
  Precious = {b1}
  MaxSequenceId = 5
  MaxPrecious = 1
INVARIANT PrunedBranchWaits
PROPERTIES
  MutexReleased
  HeaviestActivated

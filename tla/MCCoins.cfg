SPECIFICATION Spec
CONSTANTS
  g0 = g0
  c1 = c1
  a2 = a2
  b2 = b2
  b3 = b3
  d3 = d3
  x = x
  y = y
  z = z
  w = w
  k = k
  Genesis = g0
  NoBlock = NoBlock
  Blocks <- MCBlocks
  Outs <- MCOuts
  Parent <- MCParent
  Path <- MCPath
  Height <- MCHeight
  Txs <- MCTxs
  MinBlocksToKeep = 1
  CheckDepth = 2
INVARIANTS
  CoinsMatchBestBlock
  SpentOnce
  DatabaseBetweenHeads
  IndexCoversCoins
  RefusedOnlyByPruning
PROPERTIES
  ImplementsCoinStore

SPECIFICATION AssemblerSpec
CONSTANTS
  g0 = g0
  c1 = c1
  c2 = c2
  a3 = a3
  a4 = a4
  b3 = b3
  b4 = b4
  cb1 = cb1
  t1 = t1
  r1 = r1
  m = m
  l1 = l1
  j = j
  low = low
  q = q
  f = f
  k = k
  n = n
  x1 = x1
  x2 = x2
  y1 = y1
  y2 = y2
  y3 = y3
  z1 = z1
  v1 = v1
  w1 = w1
  w2 = w2
  u1 = u1
  Genesis = g0
  NoBlock = NoBlock
  NoPackage = NoPackage
  Blocks <- MCBlocks
  Parent <- MCParent
  Path <- MCPath
  Height <- MCHeight
  BlockTxs <- MCBlockTxs
  Txs <- MCTxs
  Coinbases = {cb1}
  Spends <- MCSpends
  Creates <- MCCreates
  Fee <- MCFee
  Size <- MCSize
  LockTime <- MCLockTime
  RelLock <- MCRelLock
  Signals = {t1}
  Packages <- MCPackages
  CoinbaseMaturity = 2
  MinRelayFee = 1
  IncrementalRelayFee = 2
  AncestorLimit = 3
  DescendantLimit = 3
  ExtraDescendantSize = 1
  MaxReplaced = 3
  MaxPoolSize = 4
  MaxDisconnected = 2
  MaxExpired = 1
  ReservedSize = 1
  MaxBlockSize = 5
  BlockMinFeeRate = 2
  MaxConsecutiveFailures = 2
  NearlyFull = 2
INVARIANTS
  PoolConsistent
  NextBlockReady
  ResultsTruthful
  SubmitFindsRoom
  ComesBack
  TemplateValid
  TemplateMaximal
PROPERTIES
  LoopProgresses

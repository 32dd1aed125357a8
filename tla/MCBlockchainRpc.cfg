SPECIFICATION Spec
CONSTANTS
  g = g
  a1 = a1
  a2 = a2
  b1 = b1
  b2 = b2
  t1 = t1
  t2 = t2
  Blocks <- FiveBlocks
  NoBlock = NoBlock
  Height <- HeightOf
  Ancestor <- AncestorOf
  InitTip = a2
  Threads = {t1, t2}
  Calls <- MCCalls
  NoCall = NoCall
  Parts = 2
  Chunk = 1
  MaxMoves = 2
  MaxCalls = 2
CHECK_DEADLOCK FALSE
INVARIANTS
  ScanOfOneTip
  EachHeightOnce
PROPERTY WakesOnBlock

SPECIFICATION Spec
CONSTANTS
  g0 = g0
  c1 = c1
  a2 = a2
  a3 = a3
  b2 = b2
  x = x
  y = y
  z = z
  v = v
  p = p
  q = q
  Genesis = g0
  NoBlock = NoBlock
  NoEntry = NoEntry
  NoQuery = NoQuery
  Blocks <- MCBlocks
  Parent <- MCParent
  Path <- MCPath
  Height <- MCHeight
  Outs <- MCOuts
  Value <- MCValue
  Unspendable <- MCUnspendable
  Subsidy <- MCSubsidy
  Txs <- MCTxs
INVARIANTS
  EntriesRight
  NeverFails
  LookUpsRight
PROPERTIES
  CatchesUp

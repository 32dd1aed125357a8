SPECIFICATION ImportSpec
CONSTANTS
  g = g
  a = a
  b = b
  c = c
  f = f
  Blocks <- FiveBlocks
  Genesis = g
  NoBlock = NoBlock
  Parent <- ParentOf
  Path <- PathOf
  Height <- HeightOf
  BlockFlaws <- FlawsOf
  Committing = {b}
  ZeroReserved = {b}
  Torn = Torn
  Files <- MCFiles
  Submitted <- MCSubmitted
  NoPos = NoPos
  Appended = Appended
  MaxSubmits = 1
  MaxCrashes = 1
  MaxRecords = 3
CHECK_DEADLOCK FALSE
INVARIANTS
  ImportComplete
  PositionsRight
  NotBlamed

SPECIFICATION Spec
CONSTANTS
  validation = validation
  miner = miner
  index = index
  Threads = {validation, index}
  CsMainThreads = {validation}
  Heights <- FewHeights
  FirstReward = 37700
  PhiNum = 1618
  PhiDen = 1000
  TicksPerInstant = 1
  BLOCKS_PER_MONTH = 4380
  MAX_MONEY_TC = 1618033988
  MaxSeason = 200
PROPERTIES
  AnswersAgree

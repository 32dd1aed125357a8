SPECIFICATION ConsensusSpec
CONSTANTS
  validation = validation
  miner = miner
  index = index
  Threads = {validation, miner}
  CsMainThreads = {validation, miner}
  Heights <- SeamHeights
  FirstReward = 37700
  PhiNum = 1618
  PhiDen = 1000
  TicksPerInstant = 1
  BLOCKS_PER_MONTH = 4380
  MAX_MONEY_TC = 1618033988
  MaxSeason = 200
  Window = 3
  Spacing = 2
  MedianSpan = 3
  MaxFuture = 3
  Radix = 4
  PowLimit = 255
  Networks <- MainAndTest
  Steps = {2, 5}
  MaxClock = 7
  MaxHeight = 5
  Tiers <- FewTiers
  v1 = v1
  Vaults = {v1}
  NoVault = NoVault
  MaxVaultHeight = 1
SYMMETRY TwoUnderCsMain
INVARIANTS
  TableReadyWhenRead
  EmissionCapped
  SupplyFollowsSubsidy
  PaceSteersTarget
  LaterNeverHarder
  MinerHeaderAccepted
  FeesAddUp

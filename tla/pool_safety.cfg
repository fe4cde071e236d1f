SPECIFICATION PoolSpec
CONSTANTS
  q1 = q1
  q2 = q2
  holder = holder
  PoolAddr = PoolAddr
  Providers <- MCProviders
  Accounts <- MCAccounts
  Holders <- MCHolders
  PoolHasToken = TRUE
  Seed <- MCSeed
  PoolAmounts <- MCAmounts
  Ratios <- MCRatios
  BPS = 10
  MAX_I128 = 20
  MAX_U64 = 0
  MaxLiquidity = 6
  MaxYield = 5
INVARIANTS
  PoolTypeOK RegistryConsistent LiquidityIsContributionsLessPayouts
  YieldNotOverAllocated
PROPERTIES
  ProvidersKeepTheirOwn
SYMMETRY MCSymmetry

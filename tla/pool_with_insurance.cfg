SPECIFICATION SystemSpec
CONSTANTS
  h1 = h1
  q1 = q1
  a1 = a1
  Contract = Contract
  PoolAddr = PoolAddr
  Accounts <- MCAccounts
  Providers <- MCProviders
  Seed <- MCSeed
  Ratios <- MCRatios
  Founder = a1
  Holders <- OneHolder
  AdminAddrs <- OneAdmin
  BPS = 10
  MAX_I128 = 100
  BPS_DENOM = 10
  SECONDS_PER_YEAR = 1
  MIN_PREMIUM_STROOPS = 1
  TIER2_THRESHOLD = 3
  TIER2_SURCHARGE = 1
  TIER3_THRESHOLD = 4
  TIER3_SURCHARGE = 2
  PolicyTypes <- MCTypes
  BaseRate <- MCBaseRate
  RENEWAL_GRACE_PERIOD = 0
  PoolHasToken = TRUE
  PoolDeployed = TRUE
  Coverages <- Two
  Durations <- One
  MAX_POLICIES = 1
  PolicyCaps <- None
  MaxTime = 0
  MAX_U64 = 1
  PoolAmounts <- OneTwo
  ClaimAmounts <- Two
  MaxLiquidity = 4
  MaxYield = 3
INVARIANTS
  PremiumsAreContributions PremiumsSharedOnce

SPECIFICATION Spec
CONSTANTS
  h1 = h1
  h2 = h2
  a1 = a1
  a2 = a2
  a3 = a3
  Contract = Contract
  PoolAddr = PoolAddr
  Accounts <- MCAccounts
  Providers <- MCProviders
  PoolAmounts <- None
  Ratios <- None
  MaxLiquidity = 0
  MaxYield = 0
  Founder = a1
  RENEWAL_GRACE_PERIOD = 1
  BPS = 10
  MAX_I128 = 200
  BPS_DENOM = 10
  SECONDS_PER_YEAR = 1
  MIN_PREMIUM_STROOPS = 1
  TIER2_THRESHOLD = 3
  TIER2_SURCHARGE = 1
  TIER3_THRESHOLD = 4
  TIER3_SURCHARGE = 2
  PolicyTypes <- MCTypes
  BaseRate <- MCBaseRate
  PoolHasToken = FALSE
  PoolDeployed = FALSE
  Seed <- MCSeed
  Holders <- OneHolder
  AdminAddrs <- OneAdmin
  Coverages <- TwoThree
  Durations <- OneTwo
  ClaimAmounts <- OneTwo
  MAX_POLICIES = 1
  PolicyCaps <- None
  MaxTime = 4
  MAX_U64 = 5
INVARIANTS
  LifecycleSound
PROPERTIES
  StopsHold ImplementsLedger

SPECIFICATION OracleSpec
CONSTANTS
  h1 = h1
  a1 = a1
  o1 = o1
  Contract = Contract
  PoolAddr = PoolAddr
  Accounts <- MCAccounts
  Providers <- MCProviders
  Seed <- MCSeed
  PoolAmounts <- None
  Ratios <- None
  MaxLiquidity = 0
  MaxYield = 0
  Founder = a1
  Holders <- OneHolder
  AdminAddrs <- OneAdmin
  BPS = 10
  MAX_I128 = 200
  BPS_DENOM = 10
  SECONDS_PER_YEAR = 1
  MIN_PREMIUM_STROOPS = 1
  TIER2_THRESHOLD = 3
  TIER2_SURCHARGE = 1
  TIER3_THRESHOLD = 4
  TIER3_SURCHARGE = 2
  PolicyTypes <- MCTypes
  BaseRate <- MCBaseRate
  RENEWAL_GRACE_PERIOD = 0
  PoolHasToken = TRUE
  Coverages <- Two
  MAX_POLICIES = 1
  PolicyCaps <- None
  OracleAddrs <- OneOracle
  DefaultWindow = 1
  PoolDeployed = TRUE
  Durations <- OneTwo
  ClaimAmounts <- OneTwo
  MaxTime = 2
  MAX_U64 = 3
  OracleTypes <- MCOracleTypes
  Windows <- ZeroWindow
  Quorums <- ZeroToTwo
INVARIANTS
  OracleRegistryConsistent CoverageRespected
PROPERTIES
  PricePaysOnlyWhenFresh OraclesApproveInQuorum

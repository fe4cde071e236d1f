SPECIFICATION FrontendSpec
CONSTANTS
  Fields = {f1, f2}
  MaxPackets = 2
  premium = premium
  payout = payout
  Transactions <- ThreeTransactions
  PER_PAGE = 2
  MaxOrphans = 2
  PolicyIds = {policy1, policy2}
  ClaimTypes = {flight, weather}
  FirstType = flight
  ReadyTypes = {weather}
  MaxEvidence = 2
  MaxChecks = 3
  MaxFiles = 2
  MaxBatch = 3
  p1 = p1
  p2 = p2
  Pools = {p1, p2}
  NoPool = NoPool
  MinDeposit <- MinOfPool
  PoolBalance <- BalanceOfPool
  WalletBalances = {1, 2}
  Amounts = {1, 3}
  MaxAbandoned = 1
  Settings = {s1, s2, s3}
  Initial = s1
  Windows = {w1, w2}
  Addresses = {a1, a2}
  BadAddress = BadAddress
  EntryIds = {1, 2}
  Notifications = {n1, n2, n3}
  ReadAtFirst = {n3}
  Updater = Updater
  MaxLoads = 2
  LastStep = 3
  MaxMoves = 2
  ToastIds = {t1, t2}
  Networks = {"mainnet", "testnet", "futurenet"}
  DEFAULT_NETWORK = "mainnet"
  Switchers = {bar, drawer}
  MaxCopies = 3
  Pages = {form, policies}
  EditedPage = form
  saved1 = saved1
  saved2 = saved2
  SavedItems <- TwoItems
  NewIds = {new1, new2}
  MaxRequests = 2
  ITEMS_PER_PAGE = 2
  MaxItems = 16
  Filters = {pending, paid}
  Users = {u1, u2}
  NoUser = NoUser
  ClaimIds = {claim1, claim2}
  Claims = {claim1}
INVARIANTS
  NothingIsSentTwice MoneyMovesAsConfirmed ScreenIsTrue WithinLimits
PROPERTIES
  AwaitedComes EditsAreKept DecisionsStand DepositsWithinBounds
CHECK_DEADLOCK FALSE

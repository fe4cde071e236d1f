SPECIFICATION CreateSpec
CONSTANTS
  weather = weather
  flight = flight
  health = health
  w1 = w1
  w2 = w2
  f1 = f1
  NoType = NoType
  NoOracle = NoOracle
  PolicyTypes <- ThreeTypes
  ProvidersOf <- ThreeLists
  OtherDrafts <- BlankOrFull
  MaxRequests = 1
  Extensions <- WithOrWithout
INVARIANTS
  WalletConsistent OneSubmissionAtATime
PROPERTIES
  PageSound AwaitedArrives
CHECK_DEADLOCK FALSE

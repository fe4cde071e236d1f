SPECIFICATION BackendSpec
CONSTANTS
  Workers = {u1, u2}
  PaymentWorkers = {u1, u2}
  PolicyIds = {policy1}
  ClaimIds = {claim1}
  NoClaim = NoClaim
  NoEntry = NoEntry
  Filters = {"all", "active"}
  Keys = {key1, key2}
  Hashes = {hash1, hash2}
  MaxPayments = 2
  Hooks = {hook1, hook2}
  Events = {event1}
  NoHook = NoHook
  webhook_max_retries = 3
INVARIANTS
  ListsAreRecent AnsweredForGood OutcomeAsReceived
PROPERTIES
  TasksConclude
CHECK_DEADLOCK FALSE

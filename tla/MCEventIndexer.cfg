SPECIFICATION MCSpec
CONSTANTS
  registry = registry
  retirement = retirement
  None = None
  Polls = {1, 2}
  Hooks = {h1}
  Subscriptions = {{"unknown"}}
  ContractIds <- MCContractIds
  EventIds <- MCEventIds
  Topic <- MCTopic
  StringTopics = {}
  Copies = 1
  MAX_RETRIES = 2
  MaxLedger = 3
  PageLimit = 2
  FirstServed = 0
  MaxRestarts = 1
INVARIANTS
  NothingStranded
  AttemptsBounded
PROPERTIES
  DeliveriesSettle
  EventsReachFeed
  BacklogIsRead

SPECIFICATION Spec
CONSTANTS
  registry = registry
  retirement = retirement
  None = None
  Polls = {1}
  Hooks = {}
  Subscriptions = {{"unknown"}}
  ContractIds <- MCContractIds
  EventIds <- MCTwoEventIds
  Topic <- MCTopic
  StringTopics = {}
  Copies = 1
  MAX_RETRIES = 2
  MaxLedger = 2
  PageLimit = 2
  FirstServed = 0
  MaxRestarts = 0
INVARIANT NoEventSkipped

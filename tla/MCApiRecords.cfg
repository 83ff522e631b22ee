SPECIFICATION FairSpec
CONSTANTS
  c1 = c1
  ad = ad
  buyer = buyer
  None = None
  Requests = {1, 2}
  Credits = {c1}
  Accounts = {ad, buyer}
  AdminAccount = ad
  Calls <- MCCalls
  MaxLanded = 2
  MaxPolls = 2
  Readers = {1}
  Filters = {"Pending"}
  MaxRestarts = 1
  InitialStatus <- MCInitialStatus
INVARIANTS
  RetirementRowsAreTrue
PROPERTIES
  RequestsEnd
  CacheSettles

SPECIFICATION FairSpec
CONSTANTS
  Accounts = {a1, a2}
  None = None
  Admins = {a1}
  MaxLoads = 2
  MaxConnects = 1
  MaxCalls = 2
  Tours <- MCTours
INVARIANTS
  BusyMeansUnderWay
  RequestsCarrySession
  ResultIsOfLastCall
PROPERTIES
  PagesSettle

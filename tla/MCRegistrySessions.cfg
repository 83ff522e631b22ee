SPECIFICATION MCSpec
CONSTANTS
  ad = ad
  iss1 = iss1
  iss2 = iss2
  ret = ret
  None = None
  Address <- MCAddress
  Contract = {ret}
  AdminKeys = {ad}
  VerifierKeys = {iss1}
  IssuerKeys = {iss1, iss2}
  Methodology = {m1}
  Project = {p1}
  Service = {CreditApproval}
  Thresholds = {0, 1}
  NonceBound <- MCNonceBound
  MaxCredits = 2
  Vintage = {2023, 2024}
  FirstVintage = 1990
  CurrentYear = 2025
  Geography = {NG}
  TonnesArg = {2}
  MaxTonnes = 10
  SplitArg = {1}
  Recipient = {}
  MergeArg = {}
  MaxI128 = 100
  MaxTime = 1
  Initiator = {iss1}
INVARIANTS
  SessionCountsExact
  UsedSessionsAreSpent
  AuditTrailTruthful
PROPERTIES
  AuditTrailImmutable

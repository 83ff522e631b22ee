SPECIFICATION MCSpec
CONSTANTS
  ad = ad
  v1 = v1
  iss = iss
  buyer = buyer
  ret = ret
  None = None
  Address <- MCAddress
  Contract = {ret}
  AdminKeys = {ad}
  VerifierKeys = {v1}
  IssuerKeys = {iss}
  Methodology = {m1}
  Project = {p1}
  Service = {}
  Thresholds = {1}
  NonceBound <- MCNonceBound
  MaxCredits = 3
  Vintage = {2024}
  FirstVintage = 1990
  CurrentYear = 2025
  Geography = {NG}
  TonnesArg = {2}
  MaxTonnes = 10
  SplitArg = {1}
  Recipient = {buyer}
  MergeArg <- MCMergeArg
  MaxI128 = 100
  RetirementAddress = ret
  RetiredTonnesArg = {0, 2}
  BatchArg <- MCBatchArg
  MaxBatch = 2
  RetNonceBound <- MCRetNonceBound
INVARIANTS
  RecordsAreBacked
  AccountIndexExact
PROPERTIES
  RecordsAreImmutable
  BurnsAreRecorded

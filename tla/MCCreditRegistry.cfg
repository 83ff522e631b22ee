SPECIFICATION MCSpec
CONSTANTS
  ad = ad
  v1 = v1
  v2 = v2
  iss = iss
  buyer = buyer
  ret = ret
  None = None
  Address <- MCAddress
  Contract = {ret}
  AdminKeys = {ad}
  VerifierKeys = {v1, v2}
  IssuerKeys = {iss}
  Methodology = {m1}
  Project = {p1}
  Service = {}
  Thresholds = {0, 2}
  NonceBound <- MCNonceBound
  MaxCredits = 4
  Vintage = {2024}
  FirstVintage = 1990
  CurrentYear = 2025
  Geography = {NG}
  TonnesArg <- MCTonnes
  MaxTonnes = 10
  SplitArg = {1}
  Recipient = {buyer}
  MergeArg <- MCDistinctMergeArg
  MaxI128 = 100
SYMMETRY MCSymmetry
INVARIANTS
  ProjectIndexExact
  SlotNamesItsCredit
  ApprovalsSound
  ReputationIsBacked
PROPERTIES
  RetiredIsFinal
  CreditIsPermanent
  CustodyMovesByOwnersNonce
  MintTakesQuorum
  ImplementsSupply

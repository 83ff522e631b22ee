SPECIFICATION MCSpec
CONSTANTS
  ad = ad
  v1 = v1
  iss = iss
  buyer = buyer
  mkt = mkt
  ret = ret
  None = None
  Address <- MCAddress
  Contract = {mkt, ret}
  AdminKeys = {ad}
  VerifierKeys = {v1}
  IssuerKeys = {iss}
  Methodology = {m1}
  Project = {p1}
  Service = {}
  Thresholds = {1}
  NonceBound <- MCNonceBound
  MaxCredits = 2
  Vintage = {2023, 2024}
  FirstVintage = 1990
  CurrentYear = 2025
  Geography = {NG}
  TonnesArg = {2}
  MaxTonnes = 10
  SplitArg = {1}
  Recipient = {buyer, mkt}
  MergeArg = {}
  MaxI128 = 100
  Market = mkt
  Price = {0, 5}
  MinPriceArg = {6}
  OfferTonnes = {2, 3}
  Lot = 2
  Expiry = {None, 0}
  MaxOffers = 2
  MaxTime = 1
  MktNonceBound <- MCMktNonceBound
INVARIANTS
  EscrowHeld
  SellerIndexExact
PROPERTIES
  EscrowReturnsToSeller
  OffersAreFinal

----------------------------- MODULE Marketplace -----------------------------
(***************************************************************************)
(* The marketplace contract composed with the credit registry.  An offer   *)
(* escrows its credit: create_offer transfers it to the contract's own     *)
(* address inside the same transaction, cancel_offer transfers it back.    *)
(* There is no call that sells: the contract only lists.                   *)
(*                                                                         *)
(* create_offer reads the seller's registry nonce and spends it, cancel    *)
(* spends the marketplace's own.  An offer's created_at is never read and  *)
(* left out; the escrowed amount is the offer's price, so that only which  *)
(* offers have an EscrowedAmount is kept.                                  *)
(***************************************************************************)
EXTENDS CreditRegistry, LedgerClock

CONSTANTS
  Market,         \* the address of this contract
  Price,          \* price_xlm arguments of create_offer
  MinPriceArg,    \* arguments of initialize and update_min_price
  OfferTonnes,    \* tonnes arguments of create_offer
  Lot,            \* an offer's tonnes come in multiples of this (100_000 units)
  Expiry,         \* expires_at arguments, None for an offer without
  MaxOffers,      \* bound: how many offer ids are handed out
  MktNonceBound   \* bound: nonces of this contract each address may consume

ASSUME MarketAssumption ==
  /\ Market \in Contract
  /\ Price \subseteq Int /\ MinPriceArg \subseteq Int /\ OfferTonnes \subseteq Int
  /\ Lot \in Nat \ {0}
  /\ Expiry \subseteq Nat \cup {None}
  /\ MaxOffers \in Nat
  /\ MktNonceBound \in [Address -> Nat]

VARIABLES
  mktAdmin,     \* this contract's DataKey::Admin
  mktPaused,    \* DataKey::Paused
  mktNonce,     \* DataKey::Nonce(address)
  minPrice,     \* DataKey::MinPrice
  offers,       \* DataKey::Offer(id)
  offerCount,   \* DataKey::OfferCount
  escrowed,     \* the offers that have an EscrowedAmount
  sellerOffers  \* DataKey::SellerOffers(address)

mktControlVars == <<mktAdmin, mktPaused, minPrice>>

offerVars == <<offers, offerCount, escrowed, sellerOffers>>

mktVars == <<now, mktControlVars, mktNonce, offerVars>>

allMktVars == <<vars, mktVars>>

OfferId == 0 .. MaxOffers - 1

Offer == [seller : Account, credit : CreditId, price : Nat \ {0},
          tonnes : Nat \ {0}, active : BOOLEAN, expires : Expiry]

ASSUME NoOfferAssumption == None \notin Offer

MarketInit ==
  /\ now = 0
  /\ mktAdmin = None
  /\ mktPaused = FALSE
  /\ mktNonce = [a \in Address |-> 0]
  /\ minPrice = 0
  /\ offers = [o \in OfferId |-> None]
  /\ offerCount = 0
  /\ escrowed = {}
  /\ sellerOffers = [a \in Address |-> << >>]

ConsumeMktNonce(a) ==
  /\ mktNonce[a] < MktNonceBound[a]
  /\ mktNonce' = [mktNonce EXCEPT ![a] = @ + 1]

IsMktAdmin(a) == a \in Address /\ mktAdmin = a

-----------------------------------------------------------------------------
(* Administration. *)

InitializeMarket(a, floor) ==
  /\ mktAdmin = None
  /\ mktAdmin' = a
  /\ minPrice' = floor
  /\ UNCHANGED <<vars, now, mktPaused, mktNonce, offerVars>>

SetMktPaused(a, value) ==
  /\ IsMktAdmin(a)
  /\ mktPaused' = value
  /\ UNCHANGED <<vars, now, mktAdmin, minPrice, mktNonce, offerVars>>

UpdateMinPrice(a, floor) ==
  /\ IsMktAdmin(a)
  /\ minPrice' = floor
  /\ UNCHANGED <<vars, now, mktAdmin, mktPaused, mktNonce, offerVars>>

UpgradeMarket(a) ==
  /\ IsMktAdmin(a)
  /\ ConsumeMktNonce(a)
  /\ UNCHANGED <<vars, now, mktControlVars, offerVars>>

-----------------------------------------------------------------------------
(* Offers. *)

Listed(o) == offers[o] # None

Open(o) == Listed(o) /\ offers[o].active

Acceptable(price, tonnes) ==
  /\ price > 0 /\ price >= minPrice
  /\ tonnes > 0 /\ tonnes % Lot = 0

NextOfferId == offerCount < MaxOffers /\ offerCount' = offerCount + 1

(* Faulty variant: the seller's list gets the id that comes next. *)
IndexNextOffer(s, o) == sellerOffers' = [sellerOffers EXCEPT ![s] = Append(@, o + 1)]

IndexOffer(s, o) == sellerOffers' = [sellerOffers EXCEPT ![s] = Append(@, o)]

(* No look at this contract's admin: offers may precede initialize.  The    *)
(* offer's tonnes are the seller's and not compared with the credit's.      *)
CreateOffer(s, c, price, tonnes, expires) ==
  LET o == offerCount IN
  /\ ~mktPaused
  /\ ConsumeMktNonce(s)
  /\ Acceptable(price, tonnes)
  /\ status[c] = "Active"
  /\ TransferCredit(s, Market, c)
  /\ NextOfferId
  /\ offers' = [offers EXCEPT ![o] = [seller |-> s, credit |-> c, price |-> price,
                                      tonnes |-> tonnes, active |-> TRUE,
                                      expires |-> expires]]
  /\ escrowed' = escrowed \cup {o}
  /\ IndexOffer(s, o)
  /\ UNCHANGED <<now, mktControlVars>>

(* Faulty variants: a closed offer is cancelled again; anyone may cancel. *)
CancellableAgain(s, o) == Listed(o) /\ offers[o].seller = s

CancellableByAnyone(s, o) == Open(o)

(* The expiry of the offer is not looked at. *)
Cancellable(s, o) == Open(o) /\ offers[o].seller = s

CancelOffer(s, o) ==
  /\ ~mktPaused
  /\ ConsumeMktNonce(s)
  /\ Cancellable(s, o)
  /\ TransferCredit(Market, s, offers[o].credit)
  /\ offers' = [offers EXCEPT ![o].active = FALSE]
  /\ escrowed' = escrowed \ {o}
  /\ UNCHANGED <<now, mktControlVars, offerCount, sellerOffers>>

(* Faulty variant: an expired offer that is closed already opens anew. *)
AfterCleanupToggled(o) ==
  IF Listed(o) /\ offers[o].expires # None /\ now > offers[o].expires
  THEN [offers[o] EXCEPT !.active = ~@]
  ELSE offers[o]

AfterCleanup(o) ==
  IF Open(o) /\ offers[o].expires # None /\ now > offers[o].expires
  THEN [offers[o] EXCEPT !.active = FALSE]
  ELSE offers[o]

(* Closes the expired offers and leaves their credits in escrow. *)
CleanupExpiredOffers(a) ==
  /\ IsMktAdmin(a)
  /\ offers' = [o \in OfferId |-> AfterCleanup(o)]
  /\ UNCHANGED <<vars, now, mktControlVars, mktNonce, offerCount, escrowed, sellerOffers>>

-----------------------------------------------------------------------------
MarketStep ==
  \/ LedgerCloses /\ UNCHANGED <<vars, mktControlVars, mktNonce, offerVars>>
  \/ \E a \in AdminKeys : \/ SetMktPaused(a, TRUE)
                          \/ SetMktPaused(a, FALSE)
                          \/ UpgradeMarket(a)
                          \/ CleanupExpiredOffers(a)
  \/ \E a \in AdminKeys, floor \in MinPriceArg :
       InitializeMarket(a, floor) \/ UpdateMinPrice(a, floor)
  \/ \E s \in Account, c \in CreditId, price \in Price, t \in OfferTonnes, x \in Expiry :
       CreateOffer(s, c, price, t, x)
  \/ \E s \in Account, o \in OfferId : CancelOffer(s, o)

MarketNext ==
  \/ Next /\ UNCHANGED mktVars
  \/ MarketStep

MarketSpec == Init /\ MarketInit /\ [][MarketNext]_allMktVars

-----------------------------------------------------------------------------
(* Every variable has its type; the ids below offerCount are in use.        *)
MarketTypeOK ==
  /\ now \in 0 .. MaxTime
  /\ mktAdmin \in AdminKeys \cup {None}
  /\ mktPaused \in BOOLEAN
  /\ mktNonce \in [Address -> Nat]
  /\ minPrice \in Int
  /\ offerCount \in 0 .. MaxOffers
  /\ offers \in [OfferId -> Offer \cup {None}]
  /\ \A o \in OfferId : Listed(o) <=> o < offerCount
  /\ escrowed \subseteq OfferId
  /\ sellerOffers \in [Address -> Seq(OfferId)]

(* What is on offer is in escrow: the credit of every open offer, and of    *)
(* every offer whose escrow record is still there, belongs to the market,   *)
(* and no credit is escrowed by two offers - whatever the registry does     *)
(* with it meanwhile.                                                       *)
EscrowHeld ==
  /\ \A o \in OfferId : Open(o) => o \in escrowed
  /\ \A o \in escrowed :
       /\ Listed(o) /\ owner[offers[o].credit] = Market
       /\ \A x \in escrowed : offers[x].credit = offers[o].credit => x = o

(* get_offers_by_seller is exact: it lists the seller's offers, open and    *)
(* closed, each of them once.                                               *)
SellerIndexExact ==
  \A a \in Address :
    /\ IsInjective(sellerOffers[a])
    /\ Range(sellerOffers[a]) = {o \in OfferId : Listed(o) /\ offers[o].seller = a}

(* The market lets go of a credit only to the seller whose open offer       *)
(* escrowed it, and that step closes the offer and its escrow record.       *)
EscrowReturnsToSeller ==
  [][\A c \in CreditId : owner[c] = Market /\ owner'[c] # Market =>
       \E o \in escrowed :
         /\ Open(o) /\ offers[o].credit = c /\ offers[o].seller = owner'[c]
         /\ ~offers'[o].active /\ o \notin escrowed']_allMktVars

(* An offer's terms are what its seller signed, and closing it is final:    *)
(* neither a cancel, nor the clean-up, nor a later offer reopens it.        *)
OffersAreFinal ==
  [][\A o \in OfferId : Listed(o) =>
       \/ offers'[o] = offers[o]
       \/ offers[o].active /\ offers'[o] = [offers[o] EXCEPT !.active = FALSE]]_allMktVars

(* While either contract is paused nothing enters or leaves escrow.         *)
PauseHoldsEscrow ==
  [][paused \/ mktPaused =>
       /\ escrowed' = escrowed
       /\ \A c \in CreditId : owner[c] = Market => owner'[c] = Market]_allMktVars
=============================================================================

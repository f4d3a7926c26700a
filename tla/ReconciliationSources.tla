----------------------- MODULE ReconciliationSources -----------------------
(***************************************************************************)
(* The sources that complete an accounting candidate, and how they are put *)
(* together (packages/reconciliation-accounting: network fee, additional   *)
(* fees, wallet equity, promoter, coordinator).  An offer is what a caller *)
(* passes with its request; the network fee is never taken from the caller *)
(* but read from the chain and from the price history.                     *)
(*                                                                         *)
(* Everything that binds a source to its transaction (signature, slot,     *)
(* event id, accounting hash) is one comparison here: of the trade.        *)
(***************************************************************************)
EXTENDS FifoAccounting

CONSTANTS
  Assets,       \* tokens a wallet may hold
  Holding,      \* raw balance of each asset after each trade
  AssetPrice,   \* micros for AssetScale raw units of an asset
  AssetScale,   \* raw units of one token
  Chain,        \* getTransaction: slot, failed, fee in lamports, blockTime (-1: none)
  Candles,      \* the minute candles of the configured pool: [at, close], close in micros
  CandleSeconds,
  SolScale,     \* lamports of one SOL
  Drift         \* MAX_TIME_DRIFT_MS

ASSUME DriftNat == Drift \in Nat

HalfUp(numerator, scale) == (numerator + (scale \div 2)) \div scale

Near(a, b) == a - b <= Drift /\ b - a <= Drift

(* In an offer, scan and inventory say how far the caller got, trade is    *)
(* what its sources are of, basis the cost the caller computed, valued the *)
(* assets with a price, fees the explicit charges and at when all of it    *)
(* was observed.                                                           *)

(* collectSolanaNetworkFeeObservation has an answer that can be valued. *)
FeeObserved(e) ==
  LET found == Chain[Trade[e].tx] IN found.slot = Trade[e].slot /\ ~found.failed /\ found.blockTime >= 0

(* selectCandle: exactly one candle holds the time of the block. *)
CandlesAt(t) == {c \in Candles : c.at <= t /\ t < c.at + CandleSeconds}

FeeKnown(e) == FeeObserved(e) /\ Cardinality(CandlesAt(Chain[Trade[e].tx].blockTime)) = 1

NetworkFee(e) ==
  LET found == Chain[Trade[e].tx]
      candle == CHOOSE c \in CandlesAt(found.blockTime) : TRUE IN
  HalfUp(found.fee * candle.close, SolScale)

ExplicitFees(offer) == FoldLeft(LAMBDA sum, fee : sum + fee, 0, offer.fees)

AdditionalFee(e, offer) == NetworkFee(e) + ExplicitFees(offer)

Worth(e, a) == HalfUp(Holding[e][a] * AssetPrice[a], AssetScale)

Equity(e) == FoldLeft(LAMBDA sum, a : sum + Worth(e, a), 0, SetToSeq(Assets))

Gathered(offer) == offer.scan # "none" /\ offer.inventory # "none"

SourcesBound(e, cost, offer) == offer.trade = e /\ offer.basis = cost

FeesComplete(offer, feeAt) ==
  /\ offer.scan = "complete" /\ Near(offer.at, feeAt)
  /\ \A i \in DOMAIN offer.fees : offer.fees[i] > 0

(* A balance of zero needs no price. *)
EquityComplete(e, offer) ==
  /\ offer.inventory = "complete"
  /\ \A a \in Assets : Holding[e][a] > 0 => a \in offer.valued
  /\ Equity(e) > 0

Promotable(e, offer, feeAt) == Near(feeAt, Trade[e].at) /\ Near(offer.at, Trade[e].at)

(* coordinateReconciliationSources answers RECONCILIATION_READY. *)
Coordinated(e, cost, offer, feeAt) ==
  /\ cost > 0
  /\ Gathered(offer)
  /\ SourcesBound(e, cost, offer)
  /\ FeesComplete(offer, feeAt)
  /\ EquityComplete(e, offer)
  /\ Promotable(e, offer, feeAt)

RealizedPnl(e, cost, offer) == Trade[e].usd - cost - AdditionalFee(e, offer)

=============================================================================

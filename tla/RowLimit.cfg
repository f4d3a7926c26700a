\* Two reconciliations count the rows of a trader who may have one.
SPECIFICATION MCSpec
CONSTANTS
  EventIds = {1, 2, 3, 4, 5}
  Trade <- MCTrade
  QuoteMints = {"usdc"}
  Assets = {"sol", "usdc"}
  Holding <- MCHolding
  AssetPrice <- MCPrice
  AssetScale = 1
  Chain <- MCChain
  Candles <- MCCandles
  CandleSeconds = 60
  SolScale = 2
  Drift = 0
  Requests = {r1, r2}
  Earlier = {1, 3, 4, 5}
  Builders = {b1, b2}
  OfferKinds <- MCOffers
  MaxEvents = 5
  RowLimit = 1
  EvidenceRows = 2
  MinTrades = 1
  MaxNow = 1
  MaxBuilds = 3
SYMMETRY Symmetry
INVARIANTS
  CapKept

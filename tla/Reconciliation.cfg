\* Two reconciliations, which may pass the limit of one row together, and two
\* builds of evidence, of one row or of both.
SPECIFICATION MCSpec
CONSTANTS
  EventIds = {1, 2, 3, 4, 5}
  Trade <- MCTrade
  QuoteMints = {"usdc"}
  Assets = {"sol", "usdc"}
  Holding <- MCHolding
  AssetPrice <- MCPrice
  AssetScale = 1
  Chain <- MCChain
  Candles <- MCCandles
  CandleSeconds = 60
  SolScale = 2
  Drift = 0
  Requests = {r1, r2}
  Earlier = {1, 3, 4, 5}
  Builders = {b1, b2}
  OfferKinds <- MCOffers
  MaxEvents = 5
  RowLimit = 1
  EvidenceRows = 2
  MinTrades = 1
  MaxNow = 1
  MaxBuilds = 3
SYMMETRY Symmetry
INVARIANTS
  LedgerConserves
  LedgerBounded
  EvidenceComplete
  SnapshotOnce
PROPERTIES
  LedgerImplemented

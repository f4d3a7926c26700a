\* One candidate: 100 USDC that come back as 99, 100 or 101, and a fee of
\* 60 basis points for each transaction.
SPECIFICATION ProbeSpec
CONSTANTS
  Precision = 1
  FeeRate = 60
  Venue <- MCVenue
  NoVenue = "none"
  Reports <- MCReports
  Initial = 100
  Returned = {99, 100, 101}
  Fees <- MCFees
  MaxRanked = 3
  MaxPairs = 2
  MaxRetries = 1
  MinEdge <- MCMinEdge
INVARIANTS
  CostsProven
CHECK_DEADLOCK FALSE

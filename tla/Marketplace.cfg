\* TraderMarketplace with two traders, two pieces of evidence and two requests
\* in flight, against the abstract listing.  CopyMandates with a follower, a
\* trader to copy and one that is the follower's own, a spare policy id for a
\* duplicate, and two requests in flight.
SPECIFICATION MarketplaceSpec
CONSTANTS
  Sides = {"market", "mandates"}
  Applicants = {a1, a2}
  Evidence = {p1, p2}
  Requests = {h1, h2}
  Nothing = Nothing
  f1 = f1
  t1 = t1
  t2 = t2
  Followers = {f1}
  Traders <- MCTraders
  Owner <- MCOwner
  Policies = {p1, p2}
  Handlers = {h1, h2}
  MaxAmount = 2
  None = None
SYMMETRY Symmetry
INVARIANTS
  PublishedIsGated
  TrailReplays
  VerifiedIsBacked
  OneMandatePerPair
  EnabledMeansActive
  LimitsOrdered
PROPERTIES
  ListingIsGated

\* One request at a time is enough to resume a cancelled mandate.
SPECIFICATION MarketplaceSpec
CONSTANTS
  Sides = {"mandates"}
  Applicants = {a1}
  Evidence = {e1}
  Requests = {r1}
  Nothing = Nothing
  f1 = f1
  t1 = t1
  t2 = t2
  Followers = {f1}
  Traders <- MCTraders
  Owner <- MCOwner
  Policies = {p1, p2}
  Handlers = {h1}
  MaxAmount = 2
  None = None
INVARIANTS
  CancelledIsNotResumed

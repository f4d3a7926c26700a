\* Two evaluations at a time, which can hold both connections of the pool;
\* or verifications that wait for each other's rows.
SPECIFICATION ProgressSpec
CONSTANTS
  Handlers = {h1, h2}
  PoolSize = 2
  MaxTrades = 1
  ShadowUnlimited = FALSE
  MaxDecisions = 3
  MaxLeft = 0
  Wallets = {w1}
  Challenges = {c1, c2}
  Users = {u1}
  Sessions = {s1, s2}
  ConsentTypes <- MCTypes
  Versions = {1, 2}
  ConsentLists <- MCNewVersion
  RateLimit = 2
  None = None
INVARIANTS
  DecisionAudited
PROPERTIES
  ServedUnlessExhausted
  VerificationEnds

\* Two wallets, so that a request may present one wallet for the challenge of
\* the other, and two requests in flight, with a challenge each or sharing one;
\* or two evaluations on a pool where each can be in its transaction while
\* the other one counts.
SPECIFICATION RacesSpec
CONSTANTS
  Wallets = {w1, w2}
  Challenges = {c1, c2}
  Users = {u1, u2, u3}
  Sessions = {s1, s2}
  Handlers = {h1, h2}
  ConsentTypes <- MCTypes
  Versions = {1, 2}
  ConsentLists <- MCLists
  RateLimit = 1
  None = None
  PoolSize = 3
  MaxTrades = 1
  ShadowUnlimited = FALSE
  MaxDecisions = 3
  MaxLeft = 0
SYMMETRY Symmetry
INVARIANTS
  ConsumedOnce
  OneAccountPerWallet
  ConsentsRecorded
  RateBounded
  SessionOfChallengedWallet
  OvershootBounded

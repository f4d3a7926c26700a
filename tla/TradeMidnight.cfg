\* Limits enforced, one request at a time, two trades a day.
SPECIFICATION Spec
CONSTANTS
  Handlers = {h1}
  PoolSize = 2
  MaxTrades = 2
  ShadowUnlimited = FALSE
  MaxDecisions = 3
  MaxLeft = 0
PROPERTIES
  CooldownKept

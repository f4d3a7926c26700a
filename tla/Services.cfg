\* The small components, one of them in each behaviour.
SPECIFICATION ServicesSpec
CONSTANTS
  \* DemoLedger: one member, two requests in flight, three trades.
  Users = {u1}
  Handlers = {h1, h2}
  Initials = {100, 1000}
  Amounts = {10, 100}
  Returns <- MCReturns
  FeeRates = {1000, 10000}
  MaxTrades = 3
  None = None
  \* Rental: one trader, two requests in flight, two rentals.
  Renters = {r1}
  Clerks = {k1, k2}
  MaxRentals = 2
  MaxDay = 1
  \* EvidenceCollection: two pages of two, more signatures than they hold.
  Collections = {c1, c2}
  PageSize = 2
  MaxPages = 2
  MaxChain = 6
  \* MarketCache: two tokens for one place, a portfolio, a feed.
  Keys = {"bonk", "wif", "wallet", "feed"}
  Cache <- MCCache
  Askers = {a1, a2}
  Fresh = 1
  Stale = 1
  Latency = 1
  Entries = 1
  MaxTime = 2
  \* ExecutionDispatch: two dispatches, an intent of one tick.
  Dispatches = {d1, d2}
  TraderFacts = {trader}
  MarketFacts = {market}
  TTL = 1
  MaxClock = 2
  NoAudit = NoAudit
  \* Rollout: three commits, three scripts.
  MaxMain = 3
  MaxJobs = 3
  \* ShadowSimulation: one run over two policies, one follower has an identity.
  Runs = {e1}
  Copiers = {f1, f2}
  Identified = {f1}
  Sizes = {10}
  Caps = {0, 5}
  \* FollowerSnapshot: two positions, a page of one, days of two units.
  Holdings = {p1, p2}
  Readers = {g1}
  MaxLag = 2
  MarkAge = 1
  PageLimit = 1
  DayLength = 2
  MaxNow = 3
  NoReader = NoReader
  \* Migrations: two instances, three files, one of which commits itself,
  \* four starts.
  Servers = {v1, v2}
  MaxFile = 3
  SelfCommitting = {2}
  MaxStarts = 4
  Stopped = Stopped
  \* WebSessions: two tabs, two sessions.
  Tabs = {t1, t2}
  Tokens = {s1, s2}
  NoToken = NoToken
  NoSend = NoSend
  \* FeeControl: three officers with two roles each, four documents.
  Officers = {"ann", "bob", "cid"}
  RoleOf <- MCRoles
  Shares = {4000, 6001}
  MaxChanges = 5
  Nobody = Nobody
  \* MarketProbe: two candidates, at most one simulation or any number.
  Candidates = {b1, b2}
  ProbeLimit = 2
  MaxRetries = 1
  SlotLimits = {0, 1}
  MinMarket = 1
  MaxTop10 = 1
  MaxImpact = 1
  Readings <- MCReadings
  NoRow = NoRow
  \* WebPages: two tokens looked up twice, three requests for a chart.
  Mints = {m1, m2}
  NoMint = NoMint
  Frames = {"15m", "1h"}
  BaseFrame = "15m"
  MaxLooks = 2
  MaxLoads = 3
  MaxReads = 2
  MaxLoops = 2
  \* DecisionChecks: the limits of a day bind unless a mandate says otherwise.
  ShadowUnlimited = FALSE
  Malformed = Malformed
SYMMETRY Symmetry
INVARIANTS
  EquityAccounted
  BalancesChain
  NeverPaidTwice
  CollectionComplete
  AnswersAged
  TrailComplete
  CountedIsClosed
  MigrationsOrdered
  LoggedOutForGood
  ThreePersons
  RowsProven
  PagesCurrent
PROPERTIES
  DispatchImplemented
  RolloutTested
CHECK_DEADLOCK FALSE

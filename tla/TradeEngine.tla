---------------------------- MODULE TradeEngine ----------------------------
(***************************************************************************)
(* The hard gates of a market snapshot (signal-intelligence.mjs) and the   *)
(* decision of one auto trade on its assessment, a mandate and a position  *)
(* (auto-trade-engine.mjs).  A number of a snapshot is a set: {} when it   *)
(* is absent or no number, {n} otherwise; JSON's null reads as {0}, since  *)
(* Number(null) is 0.  The weighted score of a snapshot is an input.       *)
(* Before them, a persisted copy mandate becomes the engine's              *)
(* (copy-mandate.mjs, copy-mandate-runtime.mjs,                            *)
(* copy-mandate-autotrade-adapter.mjs); after them, the training scenarios *)
(* run the same decision (auto-trade-training.mjs).                        *)
(* Amounts of a mandate are counted in hundredths of a cent.               *)
(***************************************************************************)
EXTENDS Integers

CONSTANT ShadowUnlimited  \* AUTOTRADE_SHADOW_UNLIMITED, TRUE when unset

ASSUME UnlimitedIsBoolean == ShadowUnlimited \in BOOLEAN

(* The fields with a minimum and those with a maximum.                     *)
Minima == {"liquidity", "volume", "edge", "age", "routes", "sources"}
Maxima == {"spread", "impact", "top10", "volatility"}

(* Volatility alone may be missing: it then counts as none.                *)
RequiredNumbers == (Minima \cup Maxima) \ {"volatility"}

HardFloorBps == 20

Known(number, fallback) == IF number = {} THEN fallback ELSE CHOOSE n \in number : TRUE

(* getSignalQualityConfig: the floor of the net edge can only be raised.   *)
SignalConfig(config) ==
  [config EXCEPT !.min["edge"] = IF @ > HardFloorBps THEN @ ELSE HardFloorBps]

Missing(snapshot) == {f \in RequiredNumbers : snapshot.numbers[f] = {}}

TooLow(snapshot, config) ==
  {f \in Minima \ Missing(snapshot) : Known(snapshot.numbers[f], 0) < config.min[f]}

TooHigh(snapshot, config) ==
  {f \in Maxima \ Missing(snapshot) : Known(snapshot.numbers[f], 0) > config.max[f]}

(* A snapshot is from at most two seconds ahead to maxDataAge ago.         *)
OutOfDate(snapshot, config, now) ==
  \/ snapshot.observedAt = {}
  \/ now - Known(snapshot.observedAt, now) \notin -2000 .. config.maxDataAge

(* Flags are compared with true or false: an absent one is neither.        *)
Flagged(snapshot) ==
  \/ snapshot.mint = {}
  \/ snapshot.costsIncluded # "true"
  \/ snapshot.sellSimulationOk # "true"
  \/ snapshot.transferable = "false"
  \/ snapshot.riskFlags # {}

HardRejected(snapshot, config, now) ==
  \/ Missing(snapshot) # {}
  \/ TooLow(snapshot, config) # {}
  \/ TooHigh(snapshot, config) # {}
  \/ OutOfDate(snapshot, config, now)
  \/ Flagged(snapshot)

Verdict(snapshot, score, config, now) ==
  IF HardRejected(snapshot, SignalConfig(config), now) THEN "REJECTED"
  ELSE IF score >= config.minScore THEN "QUALIFIED" ELSE "WATCH"

Assess(snapshot, score, config, now) ==
  [verdict |-> Verdict(snapshot, score, config, now), score |-> score, snapshot |-> snapshot]

-----------------------------------------------------------------------------

AtLeast(n, least) == IF n > least THEN n ELSE least
AtMost(n, most) == IF n < most THEN n ELSE most
Clamp(n, least, most) == AtMost(AtLeast(n, least), most)

(* What the mandate leaves out: a tenth of the capital for a trade, a      *)
(* fiftieth for the loss of a day.  The trades and the pause of a day are  *)
(* limited only where the mandate or the environment says so.              *)
NormalizeMandate(raw) ==
  LET capital == AtLeast(Known(raw.capital, 0), 0) IN
  [enabled      |-> raw.enabled,
   mode         |-> raw.mode,
   capital      |-> capital,
   available    |-> AtLeast(Known(raw.available, capital), 0),
   maxTrade     |-> AtLeast(Known(raw.maxTrade, capital \div 10), 0),
   allocation   |-> Clamp(Known(raw.allocation, 1000), 1, 10000),
   maxDailyLoss |-> AtLeast(Known(raw.maxDailyLoss, capital \div 50), 0),
   dailyPnl     |-> Known(raw.dailyPnl, 0),
   maxTrades    |-> AtLeast(Known(raw.maxTrades, 6), 1),
   tradesToday  |-> AtLeast(Known(raw.tradesToday, 0), 0),
   cooldown     |-> AtLeast(Known(raw.cooldown, 1800), 0),
   sinceLast    |-> raw.sinceLast,
   unlimited    |-> Known(raw.unlimited, ShadowUnlimited),
   maxSlippage  |-> AtLeast(Known(raw.maxSlippage, 100), 1),
   minScore     |-> Clamp(Known(raw.minScore, 82), 0, 100),
   stopLoss     |-> AtLeast(Known(raw.stopLoss, 500), 1),
   trailingStop |-> AtLeast(Known(raw.trailingStop, 350), 1),
   exitFloor    |-> Clamp(Known(raw.exitFloor, 55), 0, 100),
   allowed      |-> raw.allowed]

HasPosition(position) == position.size > 0

(* An unknown impact is unsafe. *)
WithinSlippage(assessment, mandate) ==
  LET impact == assessment.snapshot.numbers["impact"] IN
  impact # {} /\ Known(impact, 0) <= mandate.maxSlippage

SellPathSafe(assessment, mandate) ==
  assessment.snapshot.sellSimulationOk = "true" /\ WithinSlippage(assessment, mandate)

(* position.drawdown is the fall from the peak, peaked tells whether the   *)
(* peak is above the entry.                                                *)
ShouldExit(assessment, mandate, position) ==
  \/ position.pnl <= -mandate.stopLoss
  \/ position.drawdown <= -mandate.trailingStop /\ position.peaked
  \/ assessment.verdict = "REJECTED"
  \/ assessment.score < mandate.exitFloor
  \/ position.pnl > 100 /\ position.momentum5m <= -150 /\ position.momentum1h < 0

MayEnter(assessment, mandate) ==
  /\ assessment.verdict = "QUALIFIED"
  /\ assessment.score >= mandate.minScore
  /\ mandate.maxDailyLoss > 0 => mandate.dailyPnl > -mandate.maxDailyLoss
  /\ mandate.unlimited \/ mandate.tradesToday < mandate.maxTrades
  /\ mandate.unlimited \/ mandate.sinceLast = {} \/ Known(mandate.sinceLast, 0) >= mandate.cooldown
  /\ SellPathSafe(assessment, mandate)

Budget(mandate) ==
  AtMost(mandate.maxTrade, AtMost((mandate.capital * mandate.allocation) \div 10000, mandate.available))

(* Math.round(usd * 100) / 100 *)
ToCents(amount) == 100 * ((amount + 50) \div 100)

Decision(action, amount) == [action |-> action, amount |-> amount]

TokenAllowed(assessment, mandate) ==
  \/ mandate.allowed = {}
  \/ assessment.snapshot.mint # {} /\ assessment.snapshot.mint \subseteq mandate.allowed

Enter(assessment, mandate) ==
  IF MayEnter(assessment, mandate) /\ Budget(mandate) > 0
  THEN Decision("BUY", ToCents(Budget(mandate))) ELSE Decision("REJECT", 0)

Exit(assessment, mandate, position) ==
  IF ShouldExit(assessment, mandate, position) /\ SellPathSafe(assessment, mandate)
  THEN Decision("SELL", position.size) ELSE Decision("HOLD", 0)

EvaluateAutoTrade(assessment, raw, position, liveEnabled) ==
  LET mandate == NormalizeMandate(raw) IN
  CASE ~mandate.enabled -> Decision("HOLD", 0)
    [] mandate.enabled /\ (mandate.mode # "SHADOW" \/ liveEnabled) -> Decision("REJECT", 0)
    [] mandate.enabled /\ mandate.mode = "SHADOW" /\ ~liveEnabled ->
       IF ~TokenAllowed(assessment, mandate)
       THEN Decision(IF HasPosition(position) THEN "HOLD" ELSE "REJECT", 0)
       ELSE IF HasPosition(position) THEN Exit(assessment, mandate, position)
       ELSE Enter(assessment, mandate)

-----------------------------------------------------------------------------
(* A function that may throw yields a set: {} when it throws. *)

PolicyTypes == {"FIXED_USD", "PERCENT_EQUITY", "CAPPED_PROPORTIONAL"}

(* Whole cents; the code also refuses some of them, such as 1.1, whose     *)
(* binary fraction times 100 is no integer.                                *)
Money(amount) == amount % 100 = 0

(* The trader is copyable and in SHADOW mode now. *)
Copyable(row) ==
  /\ row.trader = [status |-> "ACTIVE", verified |-> TRUE, onboarding |-> "APPROVED", verification |-> "VERIFIED", published |-> TRUE]
  /\ row.traderMode = "SHADOW"

PersistedStatus(row) ==
  CASE row.status = "ACTIVE" -> IF row.enabled THEN {"ACTIVE"} ELSE {}
    [] row.status = "PAUSED" -> {"PAUSED"}
    [] row.status \in {"CANCELLED", "REVOKED"} -> {"REVOKED"}
    [] OTHER -> {}

(* createCopyMandate: a mandate of any status, in SHADOW mode only. *)
CreateCopyMandate(row, status) ==
  IF /\ row.policyType \in PolicyTypes
     /\ row.mode = "SHADOW" /\ ~row.live
     /\ row.consented
     /\ \A amount \in {row.value, row.maxCopy, row.maxPosition} : amount > 0 /\ Money(amount)
  THEN {[follower |-> row.follower, status |-> status, type |-> row.policyType, value |-> row.value,
         maxCopy |-> row.maxCopy, maxPosition |-> row.maxPosition]}
  ELSE {}

HydratePersistedCopyMandate(row) ==
  IF ~Copyable(row) THEN {}
  ELSE {m \in UNION {CreateCopyMandate(row, status) : status \in PersistedStatus(row)} : m.maxPosition >= m.maxCopy}

AllowsIntent(mandate, follower) == mandate.status = "ACTIVE" /\ mandate.follower = follower

(* A risk snapshot whose numbers are unknown or out of their bounds is     *)
(* refused; two of them may be left out.                                   *)
TrustedRuntimeRisk(risk) ==
  LET within(field, least, most) == \E n \in risk[field] : n >= least /\ n <= most
      maxInt == 2147483647
  IN IF /\ within("capital", 100, maxInt) /\ within("available", 0, maxInt)
        /\ Known(risk.available, 0) <= Known(risk.capital, 0)
        /\ \A field \in {"capital", "available", "dailyPnl"} : \A n \in risk[field] : Money(n)
        /\ \A n \in risk.tradesToday : n >= 0
        /\ within("maxTrades", 1, 1000)
        /\ within("cooldown", 0, 86400 * 30) /\ within("sinceLast", 0, 86400 * 365)
        /\ within("minScore", 0, 100) /\ within("exitFloor", 0, 100)
     THEN {risk} ELSE {}

PersistedBps(n, most) == n \in 1 .. most

BpsKept(row) ==
  /\ PersistedBps(row.allocation, 10000) /\ PersistedBps(row.slippage, 1000)
  /\ PersistedBps(row.dailyLoss, 5000) /\ PersistedBps(row.drawdown, 9000)

(* The stricter of the mandate and the snapshot bounds each amount; a      *)
(* small daily loss may round to 0, which the engine takes for none.       *)
EngineMandate(row, m, risk) ==
  LET capital == AtMost(Known(risk.capital, 0), m.maxPosition)
      available == AtMost(Known(risk.available, 0), capital)
  IN [enabled |-> TRUE, mode |-> "SHADOW", capital |-> {capital}, available |-> {available},
      maxTrade |-> {AtMost(AtMost(m.value, m.maxCopy), available)}, allocation |-> {row.allocation},
      maxDailyLoss |-> {ToCents((capital * row.dailyLoss) \div 10000)}, dailyPnl |-> {Known(risk.dailyPnl, 0)},
      maxTrades |-> risk.maxTrades, tradesToday |-> {Known(risk.tradesToday, 0)}, cooldown |-> risk.cooldown,
      sinceLast |-> risk.sinceLast, unlimited |-> {}, maxSlippage |-> {row.slippage}, minScore |-> risk.minScore,
      stopLoss |-> {row.drawdown}, trailingStop |-> {row.drawdown}, exitFloor |-> risk.exitFloor, allowed |-> risk.allowed]

BuildAutoTradeMandate(row, follower, risk) ==
  {EngineMandate(row, m, r) :
     m \in {m \in HydratePersistedCopyMandate(row) : AllowsIntent(m, follower) /\ m.type = "FIXED_USD" /\ BpsKept(row)},
     r \in TrustedRuntimeRisk(risk)}

-----------------------------------------------------------------------------
Dollars(n) == 10000 * n

QualifiedNumbers ==
  [liquidity |-> {5000000}, volume |-> {3000000}, edge |-> {25}, age |-> {240}, routes |-> {6}, sources |-> {5},
   spread |-> {8}, impact |-> {15}, top10 |-> {12}, volatility |-> {250}]

UnsafeNumbers ==
  [liquidity |-> {120000}, volume |-> {75000}, edge |-> {2}, age |-> {3}, routes |-> {1}, sources |-> {1},
   spread |-> {120}, impact |-> {240}, top10 |-> {61}, volatility |-> {2400}]

(* Prices in cents; the fall from the peak is rounded towards 0, which     *)
(* compares with a whole stop as the exact one does.                       *)
TrainingPosition(pnl, current, peak) ==
  [size |-> Dollars(50), pnl |-> pnl, drawdown |-> -(((peak - current) * 10000) \div peak), peaked |-> peak > 100,
   momentum5m |-> 300, momentum1h |-> 700]

TrainingPositions ==
  [qualified_entry |-> [TrainingPosition(0, 100, 100) EXCEPT !.size = 0],
   risk_reject |-> [TrainingPosition(0, 100, 100) EXCEPT !.size = 0],
   healthy_position |-> TrainingPosition(500, 105, 107),
   stop_loss_exit |-> TrainingPosition(-700, 93, 103),
   trailing_stop_exit |-> TrainingPosition(800, 108, 118)]

TrainingSnapshot(scenario, now) ==
  LET unsafe == scenario = "risk_reject" IN
  [numbers |-> IF unsafe THEN UnsafeNumbers ELSE QualifiedNumbers, observedAt |-> {now}, mint |-> {"TRAINING_FIXTURE_SOLANA"},
   costsIncluded |-> "true", sellSimulationOk |-> IF unsafe THEN "false" ELSE "true", transferable |-> "true",
   riskFlags |-> IF unsafe THEN {"TRAINING_UNSAFE_MARKET"} ELSE {}]

(* Every number a member sends is brought within its bounds. *)
TrainingMandate(input) ==
  LET capital == Clamp(Known(input.capital, Dollars(100)), Dollars(10), Dollars(100000)) IN
  [enabled |-> TRUE, mode |-> "SHADOW", capital |-> {capital}, available |-> {capital},
   maxTrade |-> {Clamp(Known(input.maxTrade, capital \div 10), Dollars(1), capital)},
   allocation |-> {Clamp(Known(input.allocation, 1000), 100, 10000)},
   maxDailyLoss |-> {Clamp(Known(input.dailyLoss, capital \div 50), 0, capital)}, dailyPnl |-> {0},
   maxTrades |-> {6}, tradesToday |-> {0}, cooldown |-> {1800}, sinceLast |-> {3600}, unlimited |-> {},
   maxSlippage |-> {Clamp(Known(input.slippage, 100), 1, 1000)}, minScore |-> {Clamp(Known(input.minScore, 82), 0, 100)},
   stopLoss |-> {Clamp(Known(input.stopLoss, 500), 1, 5000)}, trailingStop |-> {Clamp(Known(input.trailingStop, 350), 1, 5000)},
   exitFloor |-> {55}, allowed |-> {}]

RunAutoTradeTraining(scenario, input, score, config, now) ==
  EvaluateAutoTrade(Assess(TrainingSnapshot(scenario, now), score, config, now), TrainingMandate(input),
                    TrainingPositions[scenario], FALSE)
=============================================================================

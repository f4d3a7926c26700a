--------------------------- MODULE DecisionChecks ---------------------------
(***************************************************************************)
(* The pure decisions, evaluated over small sets of inputs: a snapshot, a  *)
(* mandate and a position on either side of each bound, the manifests of a *)
(* small directory, and every route with every method.                     *)
(***************************************************************************)
EXTENDS TradeEngine, Sequences

CONSTANT Malformed  \* a value of no type

Web == INSTANCE Gateway

LOCAL Numbers == [liquidity |-> {9}, volume |-> {9}, edge |-> {20}, age |-> {9}, routes |-> {9}, sources |-> {9},
                  spread |-> {1}, impact |-> {100}, top10 |-> {1}, volatility |-> {}]

LOCAL Config == [min |-> [f \in Minima |-> IF f = "edge" THEN 0 ELSE 9], max |-> [f \in Maxima |-> IF f = "impact" THEN 100 ELSE 1],
                 maxDataAge |-> 5000, minScore |-> 82]

LOCAL Good == [numbers |-> Numbers, observedAt |-> {10000}, mint |-> {"bonk"}, costsIncluded |-> "true",
               sellSimulationOk |-> "true", transferable |-> "absent", riskFlags |-> {}]

LOCAL Snapshots ==
  {Good} \cup {[Good EXCEPT !.numbers[f] = n] : f \in DOMAIN Numbers, n \in {{}, {0}, {1}, {9}, {19}, {20}, {21}, {100}, {101}}}
  \cup {[Good EXCEPT !.observedAt = t] : t \in {{}, {0}, {9000}, {12000}, {12001}}}
  \cup {[Good EXCEPT !.costsIncluded = "absent"], [Good EXCEPT !.sellSimulationOk = "false"], [Good EXCEPT !.transferable = "false"],
        [Good EXCEPT !.riskFlags = {"HONEYPOT"}], [Good EXCEPT !.mint = {}]}

LOCAL Assessments == {Assess(snapshot, score, Config, 10000) : snapshot \in Snapshots, score \in {54, 55, 81, 82, 95}}

LOCAL Raw == [enabled |-> TRUE, mode |-> "SHADOW", capital |-> {1000000}, available |-> {}, maxTrade |-> {}, allocation |-> {},
              maxDailyLoss |-> {}, dailyPnl |-> {}, maxTrades |-> {}, tradesToday |-> {}, cooldown |-> {}, sinceLast |-> {},
              unlimited |-> {FALSE}, maxSlippage |-> {}, minScore |-> {}, stopLoss |-> {}, trailingStop |-> {}, exitFloor |-> {}, allowed |-> {}]

LOCAL Raws ==
  {Raw, [Raw EXCEPT !.enabled = FALSE], [Raw EXCEPT !.mode = "LIVE"], [Raw EXCEPT !.allowed = {"wif"}], [Raw EXCEPT !.capital = {}],
   [Raw EXCEPT !.dailyPnl = {-20000}], [Raw EXCEPT !.tradesToday = {6}], [Raw EXCEPT !.sinceLast = {1799}], [Raw EXCEPT !.sinceLast = {1800}],
   [Raw EXCEPT !.maxSlippage = {99}], [Raw EXCEPT !.available = {49}], [Raw EXCEPT !.available = {150}], [Raw EXCEPT !.unlimited = {TRUE}, !.tradesToday = {6}],
   [Raw EXCEPT !.unlimited = {}, !.tradesToday = {6}]}

LOCAL Flat == [size |-> 0, pnl |-> 0, drawdown |-> 0, peaked |-> FALSE, momentum5m |-> 0, momentum1h |-> 0]

LOCAL Positions ==
  {Flat} \cup {[Flat EXCEPT !.size = 500, !.pnl = pnl, !.drawdown = fall, !.peaked = p, !.momentum5m = m, !.momentum1h = m] :
                 pnl \in {-500, -499, 101}, fall \in {-350, 0}, p \in BOOLEAN, m \in {-150, 0}}

(* A snapshot qualifies exactly when each of its numbers is on the right   *)
(* side of its bound, and never below the floor of the net edge, whatever  *)
(* the configuration says (evaluateSignalQuality).                         *)
ASSUME QualityByHand ==
  \A a \in Assessments :
    LET n == a.snapshot.numbers IN
    a.verdict = "QUALIFIED" <=>
      /\ a.score >= 82
      /\ \A f \in Minima : \E k \in n[f] : k >= (IF f = "edge" THEN 20 ELSE 9)
      /\ \A f \in Maxima \ {"volatility"} : \E k \in n[f] : k <= Config.max[f]
      /\ \A k \in n["volatility"] : k <= 1
      /\ a.snapshot.observedAt \in {{9000}, {10000}, {12000}}
      /\ a.snapshot.costsIncluded = "true" /\ a.snapshot.sellSimulationOk = "true" /\ a.snapshot.transferable # "false"
      /\ a.snapshot.riskFlags = {} /\ a.snapshot.mint # {}

(* A position is entered only flat, within the mandate and at least a cent *)
(* short of twice the least limit; it is left only when it has a reason to *)
(* and can be sold; LIVE does neither (evaluateAutoTrade).                 *)
ASSUME DecisionsByHand ==
  \A a \in Assessments, raw \in Raws, position \in Positions, live \in BOOLEAN :
    LET decision == EvaluateAutoTrade(a, raw, position, live)
        impact == a.snapshot.numbers["impact"]
        sellable == a.snapshot.sellSimulationOk = "true" /\ \E k \in impact : k <= (IF raw.maxSlippage = {} THEN 100 ELSE 99) IN
    /\ decision.action \in {"BUY", "SELL"} => raw.enabled /\ raw.mode = "SHADOW" /\ ~live /\ raw.allowed = {} /\ sellable
    /\ decision.action = "BUY" =>
         /\ position.size = 0 /\ a.verdict = "QUALIFIED"
         /\ Known(raw.unlimited, ShadowUnlimited) \/ (raw.tradesToday = {} /\ raw.sinceLast # {1799})
         /\ raw.dailyPnl = {} /\ raw.capital # {}
         /\ decision.amount <= 100000 /\ decision.amount <= Known(raw.available, 1000000) + 50
    /\ decision.action = "SELL" => position.size > 0 /\ decision.amount = position.size
    /\ position.size > 0 /\ position.pnl = -500 /\ raw.enabled /\ raw.mode = "SHADOW" /\ ~live /\ raw.allowed = {} =>
         (decision.action = "SELL" <=> sellable)

(* The amount is rounded to cents and may pass the budget by half a cent   *)
(* or become a purchase of nothing.                                        *)
ASSUME RoundingByHand ==
  /\ \E a \in Assessments : EvaluateAutoTrade(a, [Raw EXCEPT !.available = {150}], Flat, FALSE) = Decision("BUY", 200)
  /\ \E a \in Assessments : EvaluateAutoTrade(a, [Raw EXCEPT !.available = {49}], Flat, FALSE) = Decision("BUY", 0)

LOCAL Files == [a |-> {"da"}, b |-> {"db"}, c |-> {"dc"}, gone |-> {}]
LOCAL Unnamed(version) == version = "any"
LOCAL Digest(file) == Files[file]

Preflight == INSTANCE LivePreflight WITH Placeholder <- Unnamed, Content <- Digest

LOCAL Row(family, file) ==
  [target |-> <<family, "v1">>, source |-> "VERIFIED_ONCHAIN", positive |-> 30, negative |-> 10, falsePositives |-> 0,
   allPassed |-> "true", exactAmounts |-> "true", digest |-> "d" \o file, file |-> file]

LOCAL Rows == <<Row("jupiter", "a"), Row("raydium", "b"), Row("orca", "c")>>

LOCAL Manifest ==
  [secrets |-> FALSE, version |-> 1, class |-> "VERIFIED_ONCHAIN", required |-> [i \in 1 .. 3 |-> Rows[i].target],
   coverage |-> Rows, checks |-> [check \in Preflight!RequiredChecks |-> "true"]]

LOCAL Env == [mode |-> "SHADOW", liveEnabled |-> "false", fixtureGate |-> "true", operatorApproved |-> "true"]

(* One manifest passes; each change of it that the regression knows fails  *)
(* (validate_manifest).                                                    *)
ASSUME PreflightByHand ==
  /\ Preflight!Eligible(Env, Manifest)
  /\ \A env \in [DOMAIN Env -> {"SHADOW", "LIVE", "true", "false", "absent"}] : Preflight!Eligible(env, Manifest) <=> env = Env
  /\ \A i \in 1 .. 3 : \A row \in {[Rows[i] EXCEPT !.positive = 29], [Rows[i] EXCEPT !.negative = 9], [Rows[i] EXCEPT !.falsePositives = 1],
                                  [Rows[i] EXCEPT !.allPassed = "false"], [Rows[i] EXCEPT !.exactAmounts = "absent"],
                                  [Rows[i] EXCEPT !.digest = "dx"], [Rows[i] EXCEPT !.file = "gone"], [Rows[i] EXCEPT !.target[2] = "any"],
                                  Rows[1 + (i % 3)]} :
       ~Preflight!Eligible(Env, [Manifest EXCEPT !.coverage[i] = row])
  /\ ~Preflight!Eligible(Env, [Manifest EXCEPT !.coverage = SubSeq(@, 1, 2)])
  /\ ~Preflight!Eligible(Env, [Manifest EXCEPT !.coverage = SubSeq(@, 1, 2), !.required = SubSeq(@, 1, 2)])
  /\ \A check \in Preflight!RequiredChecks : ~Preflight!Eligible(Env, [Manifest EXCEPT !.checks[check] = "false"])

(* The primary serves the documented routes and asks for what they say;    *)
(* the edge forwards what is documented as open or of a session, blocks    *)
(* the rest, and the contract omits the two routes of the demo wallet.     *)
ASSUME ContractByHand ==
  /\ \A r \in Web!Documented.open : Web!Edge(r, FALSE, 0) = "FORWARD" /\ Web!Primary(r) = "OPEN"
  /\ \A r \in Web!Documented.session : Web!Edge(r, TRUE, 0) = "FORWARD_SESSION" /\ Web!Primary(r) = "SESSION"
  /\ \A r \in Web!Documented.token \cup Web!Documented.admin \cup Web!Documented.disabled :
       \A cookie \in BOOLEAN : Web!Edge(r, cookie, 0) = "403"
  /\ {r \in Web!Routes : Web!Edge(r, TRUE, 0) \in {"FORWARD", "FORWARD_SESSION"}}
       = Web!Documented.open \cup Web!Documented.session
         \cup {<<"GET", "/api/account/auto-strategy/demo">>, <<"POST", "/api/account/auto-strategy/simulate">>}

LOCAL PriceRows ==
  {[time |-> {t}, open |-> o, high |-> h, low |-> l, close |-> {2}, volume |-> v] :
     t \in {0, 3600, 14400}, o \in {{}, {1}, {-1}}, h \in {{2}, {3}}, l \in {{0}, {1}}, v \in {{}, {5}}}

LOCAL Pages == UNION {{<<a>>, <<a, b>>, <<b, a, b>>} : a \in PriceRows, b \in {[row EXCEPT !.open = {3}] : row \in PriceRows}}

(* The page draws every candle that is sent to it (normalizedCandles after *)
(* parseCandles and bucketCandles); candles of four hours begin at         *)
(* different times and keep the volume and the last close of the hours.    *)
ASSUME ChartByHand ==
  \A page \in Pages :
    LET hours == Web!ParseCandles(page)
        four == Web!BucketCandles(hours, 14400)
        volume(candles) == Web!FoldLeft(LAMBDA sum, c : sum + c.volume, 0, candles)
    IN /\ SelectSeq(hours, Web!WellShaped) = hours /\ SelectSeq(four, Web!WellShaped) = four
       /\ \A i \in 1 .. Len(four) - 1 : four[i].time < four[i + 1].time
       /\ volume(four) = volume(hours)
       /\ hours # <<>> => four[Len(four)].close = hours[Len(hours)].close /\ four[1].open = hours[1].open

LOCAL Market(base, quote, ok, liquidity, volume) ==
  [base |-> base, quote |-> quote, addressOk |-> ok, liquidity |-> liquidity, volume |-> volume]

LOCAL Responses(bodies) == [status : {200, 429}, late : BOOLEAN, body : bodies]

LOCAL Markets == {Market(base, "usdc", ok, l, v) : base \in {"bonk", "wif"}, ok \in BOOLEAN, l \in {{}, {-5}, {0}, {7}}, v \in {{}, {3}}}

(* A chart is of a pool of the token itself, with no more liquidity in any *)
(* other pool of it, and is refused rather than empty when the provider    *)
(* failed (pickPool, handler).                                             *)
ASSUME PoolByHand ==
  /\ \A a, b \in Markets : LET pools == <<a, b, Market("usdc", "wif", TRUE, {}, {})>>
                               own == {i \in 1 .. 3 : "bonk" \in {pools[i].base, pools[i].quote} /\ pools[i].addressOk}
                           IN Web!PickPool(pools, "bonk") \subseteq own /\ (own # {} => \E i \in own : Web!PickPool(pools, "bonk") = {i})
  /\ Web!PickPool(<<Market("bonk", "usdc", TRUE, {}, {9}), Market("sol", "bonk", TRUE, {0}, {}), Market("bonk", "usdc", FALSE, {7}, {})>>, "bonk") = {2}
  /\ \A frame \in {"", "h4", "h2"}, ok \in BOOLEAN,
        pools \in Responses({{}, {<<>>}, {<<Market("bonk", "usdc", TRUE, {1}, {1})>>}}), rows \in Responses({{}, {<<>>}}) :
       Web!Chart("GET", "bonk", frame, ok, pools, rows).status = 200
         <=> /\ ok /\ frame # "h2" /\ pools.body \notin {{}, {<<>>}} /\ rows.body # {}
             /\ \A response \in {pools, rows} : response.status = 200 /\ ~response.late

LOCAL Row0 ==
  [trader |-> [status |-> "ACTIVE", verified |-> TRUE, onboarding |-> "APPROVED", verification |-> "VERIFIED", published |-> TRUE],
   traderMode |-> "SHADOW", enabled |-> TRUE, status |-> "ACTIVE", mode |-> "SHADOW", live |-> FALSE, policyType |-> "FIXED_USD",
   consented |-> TRUE, follower |-> "ann", value |-> 30000, maxCopy |-> 20000, maxPosition |-> 50000,
   allocation |-> 3333, slippage |-> 100, dailyLoss |-> 200, drawdown |-> 500]

LOCAL BadRows ==
  {[Row0 EXCEPT !.trader.published = FALSE], [Row0 EXCEPT !.trader.status = "SUSPENDED"], [Row0 EXCEPT !.traderMode = "LIVE"],
   [Row0 EXCEPT !.enabled = FALSE], [Row0 EXCEPT !.status = "PAUSED"], [Row0 EXCEPT !.status = "CANCELLED"], [Row0 EXCEPT !.mode = "LIVE"],
   [Row0 EXCEPT !.live = TRUE], [Row0 EXCEPT !.policyType = "PERCENT_EQUITY"], [Row0 EXCEPT !.consented = FALSE],
   [Row0 EXCEPT !.follower = "bob"], [Row0 EXCEPT !.value = 0], [Row0 EXCEPT !.maxCopy = 150], [Row0 EXCEPT !.maxPosition = 19900],
   [Row0 EXCEPT !.allocation = 0], [Row0 EXCEPT !.slippage = 1001], [Row0 EXCEPT !.dailyLoss = 5001], [Row0 EXCEPT !.drawdown = 9001]}

LOCAL GoodRows ==
  {[Row0 EXCEPT !.value = v, !.maxCopy = c, !.maxPosition = p, !.allocation = a, !.dailyLoss = l] :
     v \in {100, 30000}, c \in {100, 20000}, p \in {20000, 50000}, a \in {1, 3333, 10000}, l \in {40, 200}}

LOCAL Risk == [capital |-> {100000}, available |-> {40000}, dailyPnl |-> {}, tradesToday |-> {}, maxTrades |-> {6}, cooldown |-> {1800},
               sinceLast |-> {3600}, minScore |-> {82}, exitFloor |-> {55}, allowed |-> {}]

LOCAL BadRisks ==
  {[Risk EXCEPT !.capital = {}], [Risk EXCEPT !.capital = {0}], [Risk EXCEPT !.available = {100100}], [Risk EXCEPT !.available = {50}],
   [Risk EXCEPT !.maxTrades = {}], [Risk EXCEPT !.maxTrades = {1001}], [Risk EXCEPT !.sinceLast = {}], [Risk EXCEPT !.tradesToday = {-1}],
   [Risk EXCEPT !.minScore = {101}], [Risk EXCEPT !.exitFloor = {-1}]}

LOCAL GoodRisks == {[Risk EXCEPT !.capital = {c}, !.available = {a}] : c \in {10000, 100000}, a \in {0, 100, 10000}}

(* A mandate reaches the engine only whole, active and the member's own,   *)
(* and what the engine then buys is within the amount of the policy, its   *)
(* limit of a copy and the capital left, rounding included                 *)
(* (buildAutoTradeMandateFromPersisted, evaluateAutoTrade).  A limit of    *)
(* the day's loss below half a cent becomes none.                          *)
ASSUME AdapterByHand ==
  /\ \A row \in BadRows : BuildAutoTradeMandate(row, "ann", Risk) = {}
  /\ \A risk \in BadRisks : BuildAutoTradeMandate(Row0, "ann", risk) = {}
  /\ \A row \in GoodRows, risk \in GoodRisks :
       /\ BuildAutoTradeMandate(row, "ann", risk) # {} <=> row.maxPosition >= row.maxCopy
       /\ \A m \in BuildAutoTradeMandate(row, "ann", risk), a \in Assessments :
            LET amount == EvaluateAutoTrade(a, m, Flat, FALSE).amount IN
            amount <= row.value /\ amount <= row.maxCopy /\ amount <= Known(risk.available, 0) /\ amount <= row.maxPosition
  /\ \E m \in BuildAutoTradeMandate([Row0 EXCEPT !.dailyLoss = 40], "ann", [Risk EXCEPT !.capital = {10000}, !.available = {10000}]) :
       m.maxDailyLoss = {0}

LOCAL Defaults ==
  [min |-> [liquidity |-> 500000, volume |-> 250000, edge |-> 20, age |-> 24, routes |-> 2, sources |-> 2],
   max |-> [spread |-> 50, impact |-> 100, top10 |-> 35, volatility |-> 1500], maxDataAge |-> 5000, minScore |-> 82]

LOCAL Nothing == [capital |-> {}, maxTrade |-> {}, allocation |-> {}, dailyLoss |-> {}, slippage |-> {}, minScore |-> {}, stopLoss |-> {}, trailingStop |-> {}]

(* An empty field is sent as 0. *)
LOCAL FromPage ==
  {[Nothing EXCEPT !.capital = {c}, !.maxTrade = {t}, !.allocation = {a}] :
     c \in {0, Dollars(10), Dollars(20)}, t \in {-1, 0, Dollars(7), Dollars(900)}, a \in {0, 1, 2500, 10000}}

LOCAL Labels == [qualified_entry |-> "BUY", healthy_position |-> "HOLD", stop_loss_exit |-> "SELL", trailing_stop_exit |-> "SELL",
                 risk_reject |-> "REJECT"]

(* Whatever a member types into the simulator, a scenario does what its    *)
(* label says (runAutoTradeTraining); a limit of slippage that only a      *)
(* direct call can send keeps a stopped position.                          *)
ASSUME TrainingByHand ==
  /\ \A input \in FromPage, scenario \in DOMAIN Labels, score \in {82, 95} :
       RunAutoTradeTraining(scenario, input, score, Defaults, 10000).action = Labels[scenario]
  /\ RunAutoTradeTraining("stop_loss_exit", [Nothing EXCEPT !.slippage = {1}], 95, Defaults, 10000).action = "HOLD"
=============================================================================

------------------------------ MODULE Gateway ------------------------------
(***************************************************************************)
(* What becomes of a request: the edge (api/index.mjs) answers it itself,  *)
(* forwards it to the primary (server.mjs) or refuses it; the primary asks *)
(* for a session, a token or nothing.  A route is a method and a path, and *)
(* ":id" stands for any one part of a path.  Of a request only what these  *)
(* decisions read is kept: whether it has a cookie, and the length of its  *)
(* body.  The chart (api/chart.mjs) is answered from pages of the market   *)
(* provider, whose numbers may be null, which is 0, or no number, {}.      *)
(***************************************************************************)
EXTENDS Integers, SequencesExt

On(method, paths) == {<<method, path>> : path \in paths}

MaxBody == 32768

PublicGet == On("GET", {"/api/health", "/api/readiness", "/api/version", "/api/execution/status", "/api/signals/config",
  "/api/autotrade/status", "/api/trades", "/api/traders", "/api/marketplace/fees", "/api/traders/:id"})

Markets == {"/api/market/discovery", "/api/market/token"}

AuthPost == On("POST", {"/api/auth/challenge", "/api/auth/verify", "/api/auth/logout"})

SessionGet == On("GET", {"/api/auth/session", "/api/account/wallet-portfolio", "/api/account/trader", "/api/account/copy-mandates",
  "/api/account/copy-trades", "/api/account/positions", "/api/account/auto-strategy/demo"})

SessionPost == On("POST", {"/api/account/trader/challenge", "/api/account/trader/apply", "/api/account/copy-mandates",
  "/api/account/autotrade/evaluate", "/api/account/auto-strategy/simulate"})

SessionPatch == On("PATCH", {"/api/account/copy-mandates/:id"})

Session == SessionGet \cup SessionPost \cup SessionPatch

Paths(routes) == {route[2] : route \in routes}

(* A body is read before the call, and a logout sends none.                *)
ReadsBody(route) == route \in SessionPost \cup SessionPatch \cup (AuthPost \ On("POST", {"/api/auth/logout"}))

(* What the edge does.  LOCAL is answered from MarketCache.                *)
Edge(route, cookie, size) ==
  CASE route \in On("GET", Markets) -> "LOCAL"
    [] route[2] \in Markets /\ route[1] # "GET" -> "405"
    [] route \in PublicGet -> "FORWARD"
    [] route \in Session /\ ~cookie -> "401"
    [] route = <<"POST", "/api/auth/logout">> -> IF cookie THEN "FORWARD_SESSION" ELSE "200"
    [] ReadsBody(route) /\ (route \in Session => cookie) ->
         IF size > MaxBody THEN "413" ELSE IF route \in Session THEN "FORWARD_SESSION" ELSE "FORWARD"
    [] route \in SessionGet /\ cookie -> "FORWARD_SESSION"
    [] OTHER -> IF route[2] \in Paths(AuthPost \cup Session) THEN "405" ELSE "403"

(* Whom the primary asks for, before the handler of a route.               *)
PrimarySession == Session \cup On("POST", {"/api/auth/logout"})

PrimaryToken ==
  On("POST", {"/api/signals/evaluate", "/api/shadow/simulate", "/api/execution/rental", "/api/executions",
              "/api/internal/traders/:id/reconciled-trades"})
  \cup On("GET", {"/api/signals/recent", "/api/autotrade/decisions", "/api/execution/rental/status", "/api/execution/rentals",
                  "/api/executions", "/api/internal/traders/:id/reconciled-trades"})
  \cup On("PATCH", {"/api/execution/rental/payment"})

PrimaryAdmin ==
  On("GET", {"/api/admin/wallets", "/api/admin/wallets/readiness", "/api/admin/risk", "/api/admin/audit",
             "/api/admin/traders/applications", "/api/admin/traders/:id/evidence/collections",
             "/api/admin/traders/:id/evidence", "/api/admin/copy-policies", "/api/admin/rentals", "/api/admin/billing/ledger"})
  \cup On("POST", {"/api/admin/traders/:id/evidence/collect", "/api/admin/traders/:id/evidence/reconcile",
                   "/api/admin/traders/:id/evidence"})
  \cup On("PATCH", {"/api/admin/traders/:id/review", "/api/admin/traders/:id/verification",
                    "/api/admin/traders/:id/publication", "/api/admin/copy-policies/:id", "/api/admin/fees"})
  \cup On("PUT", {"/api/admin/wallets/:id"})

PrimaryOpen == PublicGet \cup (AuthPost \ On("POST", {"/api/auth/logout"}))

(* Routes of the members' handlers, which refuse other methods. *)
MemberPaths == {"/api/account/positions", "/api/account/autotrade/evaluate",
                "/api/account/auto-strategy/demo", "/api/account/auto-strategy/simulate"}

Primary(route) ==
  CASE route \in PrimaryOpen -> "OPEN"
    [] route \in PrimarySession -> "SESSION"
    [] route \in PrimaryToken -> "TOKEN"
    [] route \in PrimaryAdmin -> "ADMIN"
    [] route = <<"POST", "/api/autotrade/evaluate">> -> "410"
    [] OTHER -> IF route[2] \in MemberPaths THEN "405" ELSE IF route[2] \in Paths(PrimaryAdmin) THEN "ADMIN" ELSE "404"

(* API_CONTRACT. *)
Documented ==
  [edge |-> On("GET", {"/api/market/token"}),
   open |-> PublicGet \cup On("POST", {"/api/auth/challenge", "/api/auth/verify"}),
   session |-> On("GET", {"/api/auth/session", "/api/account/wallet-portfolio", "/api/account/trader", "/api/account/copy-mandates",
                          "/api/account/copy-trades", "/api/account/positions"})
               \cup On("POST", {"/api/auth/logout", "/api/account/trader/challenge", "/api/account/trader/apply",
                                "/api/account/copy-mandates", "/api/account/autotrade/evaluate"})
               \cup SessionPatch,
   token |-> PrimaryToken,
   admin |-> PrimaryAdmin,
   disabled |-> On("POST", {"/api/autotrade/evaluate"})]

Routes == UNION {On(method, Markets \cup Paths(PrimaryOpen \cup PrimarySession \cup PrimaryToken \cup PrimaryAdmin)
                            \cup {"/api/autotrade/evaluate"}) : method \in {"GET", "POST", "PATCH", "PUT", "DELETE"}}

-----------------------------------------------------------------------------
(* The chart of a token. *)

TimeFrames ==
  [m5 |-> [period |-> "minute", aggregate |-> 5, bucket |-> 0], m15 |-> [period |-> "minute", aggregate |-> 15, bucket |-> 0],
   h1 |-> [period |-> "hour", aggregate |-> 1, bucket |-> 0], h4 |-> [period |-> "hour", aggregate |-> 1, bucket |-> 14400],
   d1 |-> [period |-> "day", aggregate |-> 1, bucket |-> 0], w1 |-> [period |-> "day", aggregate |-> 1, bucket |-> 604800]]

NormalizeTimeframe(asked) == IF asked = "" THEN {"m15"} ELSE {asked} \cap DOMAIN TimeFrames

FiniteNonNegative(number) == {n \in number : n >= 0}

Side(row, mint) == IF row.base = mint THEN "base" ELSE IF row.quote = mint THEN "quote" ELSE "none"

(* Most liquid first, then most traded; an unknown number is less than 0.  *)
PickPool(rows, mint) ==
  LET known(number) == CHOOSE n \in FiniteNonNegative(number) \cup {-1} : \A k \in FiniteNonNegative(number) : n = k
      usable == {i \in DOMAIN rows : Side(rows[i], mint) # "none" /\ rows[i].addressOk}
      above(i, j) == LET l(k) == known(rows[k].liquidity)  v(k) == known(rows[k].volume)
                     IN l(i) > l(j) \/ (l(i) = l(j) /\ (v(i) > v(j) \/ (v(i) = v(j) /\ i <= j)))
  IN {i \in usable : \A j \in usable : above(i, j)}

(* A candle with an impossible shape is left out. *)
WellShaped(c) ==
  /\ c.high >= c.low
  /\ c.high >= c.open /\ c.high >= c.close
  /\ c.low <= c.open /\ c.low <= c.close

Sorted(candles) ==
  LET order == SetToSortSeq(DOMAIN candles, LAMBDA i, j : candles[i].time < candles[j].time \/ (candles[i].time = candles[j].time /\ i < j))
  IN [i \in DOMAIN order |-> candles[order[i]]]

(* A volume that is no number is 0. *)
ParseCandles(rows) ==
  LET prices == {"open", "high", "low", "close"}
      complete(row) == row.time # {} /\ \A p \in prices : FiniteNonNegative(row[p]) # {}
      candle(row) == [f \in prices \cup {"time", "volume"} |->
                        IF f = "volume" /\ FiniteNonNegative(row[f]) = {} THEN 0 ELSE CHOOSE n \in row[f] : TRUE]
      parsed == SelectSeq(rows, complete)
  IN Sorted(SelectSeq([i \in DOMAIN parsed |-> candle(parsed[i])], WellShaped))

LastOf(candles, limit) == SubSeq(candles, IF Len(candles) > limit THEN Len(candles) - limit + 1 ELSE 1, Len(candles))

ChartLimit == 96

(* The candles of a bucket become one: the first opens it, the last closes *)
(* it.  The oldest bucket has what the provider's page holds of it.        *)
BucketCandles(candles, seconds) ==
  LET start(c) == (c.time \div seconds) * seconds
      merge(seq, c) ==
        IF seq # <<>> /\ Last(seq).time = start(c)
        THEN [seq EXCEPT ![Len(seq)] = [@ EXCEPT !.high = IF c.high > @ THEN c.high ELSE @, !.low = IF c.low < @ THEN c.low ELSE @,
                                                 !.close = c.close, !.volume = @ + c.volume]]
        ELSE Append(seq, [c EXCEPT !.time = start(c)])
  IN IF seconds = 0 THEN LastOf(candles, ChartLimit) ELSE LastOf(FoldLeft(merge, <<>>, candles), ChartLimit)

(* What the provider answered: nothing when it is late, refuses, or sends  *)
(* no object.                                                              *)
ProviderGet(response) == IF response.late \/ response.status # 200 THEN {} ELSE response.body

(* The answer to a request, given two responses of the provider. *)
Chart(method, mint, asked, mintOk, poolsResponse, rowsResponse) ==
  LET frame == NormalizeTimeframe(asked)
      pools == ProviderGet(poolsResponse)
      rows == ProviderGet(rowsResponse)
      picked == UNION {PickPool(page, mint) : page \in pools}
  IN CASE method # "GET" -> [status |-> 405]
       [] method = "GET" /\ (~mintOk \/ frame = {}) -> [status |-> 400]
       [] method = "GET" /\ mintOk /\ frame # {} /\ pools # {} /\ picked = {} -> [status |-> 404]
       [] method = "GET" /\ mintOk /\ frame # {} /\ (pools = {} \/ (picked # {} /\ rows = {})) -> [status |-> 503]
       [] OTHER -> LET f == CHOOSE f \in frame : TRUE IN
            [status |-> 200, mint |-> mint, timeframe |-> f,
             candles |-> BucketCandles(ParseCandles(CHOOSE page \in rows : TRUE), TimeFrames[f].bucket)]

(* What the page draws of an answer: candles of its shape, if two.         *)
Drawable(candles) ==
  LET drawn == SelectSeq(candles, WellShaped) IN IF Len(drawn) < 2 THEN <<>> ELSE LastOf(drawn, 72)
=============================================================================

# AETHER in TLA+

AETHER is a SHADOW-mode social trading platform: followers log in with a Solana
wallet, give mandates to copy listed traders, and a decision engine simulates
trades for them. One Node.js process (`services/api/src/server.mjs`) serves
every request behind an edge function (`api/index.mjs`); PostgreSQL keeps the state. No code path submits a transaction
to a chain.

The hard behaviour is the same everywhere: handlers of one process interleave at
every `await`, and many of their operations are several SQL statements, some in a
transaction and some not. A handler can therefore act on a row it read earlier,
lose a race on a unique index, wait for another handler's lock or connection, or
stop half-way. Every module here models handlers at that grain: **one action is
one statement that other handlers can observe or be delayed by** (with the
computation that follows it), and what a handler remembers between two statements is a state variable.

## Inventory

| component | state | operations | interacts with | hard behaviour | correct when |
|---|---|---|---|---|---|
| Trader marketplace (`repositories/marketplace.mjs`, migrations 014, 016) | `traders`, `trader_verification_evidence`, `audit_events` | apply, review, record evidence, verify or refuse, publish, unpublish | the listing, mandates and the auto-trade check read its five gate columns | an admin decides on a row that another one changes before the `UPDATE` | a listed trader satisfies the whole gate and his figures are backed by his own evidence; the events of the trigger give the state of every row |
| Copy mandates (`repositories/core.mjs`, `repositories/admin.mjs`, migrations 002, 014, 016) | `copy_policies`, `audit_events` | create, edit, PAUSE/RESUME/CANCEL, admin edit | reads the marketplace; read by the simulator and by auto-trading | read-check-write without a transaction; racing creations | one mandate per pair, limits in order, enabled only while ACTIVE |
| Wallet login (`wallet-auth.mjs`, migration 012, `api/index.mjs`) | challenges, accounts, wallets, consents, sessions, the browser's cookie | issue a challenge, verify a login, verify ownership, read or revoke a session | every authenticated route | replayed and concurrent verifications, first logins racing on unique indexes, deadlock on consents, answers of several tabs out of order | a challenge is used once, a wallet has one account, a session is for the wallet challenged, a logout is final |
| Auto-trade pipeline (`member-autotrade-route.mjs` and the files it calls, `auto-trade-engine.mjs`) | `auto_trade_decisions`, audit events, the connection pool | evaluate a mandate and record the decision | mandates, traders, risk history, follower accounting | nested connections of one pool, limits counted before the decision is stored, midnight | decision and audit together, limits exceeded boundedly, nobody waits for ever while a connection is free |
| Demo wallet (`member-autotrade-demo.mjs`, `demo-autotrade-ledger.mjs`, migration 021) | demo accounts and trades | view, step (buy, sell, hold) | the platform fee | a step overwrites cash and adds to profit; two steps at a time; rounding | worth = initial + realized; balances of the trades form a chain |
| Shadow positions (`shadow-position-lifecycle.mjs`, its bridge, migration 020) | positions, their events, the accounting cursor | open, mark, close, each idempotent by key | called by the bridge with a decision; read by the follower accounting | retries in flight, unique-index races, clocks read before locks, lock order | one open position per slot, settled once, events in order; an event is not dated before a cursor already shown |
| Follower position accounting (`follower-position-accounting.mjs`) | none | readiness, daily P&L, positions | reads the shadow positions | three reads without a transaction | what is counted is closed, today, and by the cursor |
| Execution requests and shadow simulation (`repositories/execution-requests.mjs`, `repositories/trade-events.mjs`, `shadow-simulator.mjs`) | `execution_requests`, `trade_events`, `risk_decisions` | create by key, simulate | mandates, rentals | a simulation that stops half-way on a snapshot of the policies | the trail of a simulation can be trusted wherever it stops |
| Execution rental (`execution-rental-gate.mjs`, routes of `server.mjs`, migrations 005, 007) | rentals, billing ledger | rent, pay, check | execution requests | two statements without a transaction, partial unique index | never two paid periods, no request let in unpaid |
| Execution boundary and live gate (`execution-boundary.mjs`, `execution-audit.mjs`, `live-execution-gate.mjs`, `admin-live-control.mjs`, `auto-trade-intent.mjs`) | none (values) | build an intent, dispatch through hooks, audit; decide on LIVE | the hooks of the dispatcher | risk that changes between reading and dispatch, hooks that refuse or throw | every dispatch follows the transition table and is audited once |
| Fee control (`fee-control.mjs`) | none (frozen documents) | propose, approve, apply | no route | documents kept and used again | three distinct persons behind a change |
| Reconciliation and evidence (`reconciliation-runtime-service.mjs`, `reconciled-performance-service.mjs`, `automatic-evidence-service.mjs`, migration 017) | reconciled trades, collections, evidence | reconcile, replay, build evidence, collect signatures | the marketplace uses its evidence | snapshots older than the lock, RPC inside the transaction, builds in several reads | a row per event and transaction, complete evidence |
| Reconciliation accounting (`packages/reconciliation-accounting`) | none | FIFO lots, fees, equity, promotion | called by the reconciliation | late events reorder the history | rows recorded from one view of the past charge no unit of a lot twice |
| Migration runner (`migration-runner.mjs`, `db.mjs`) | `schema_migrations` | run the files | start of the process | instances starting together, lost answers of COMMIT, files that commit themselves | files in order; once each, where the runner commits |
| Signal and market intelligence (`signal-intelligence.mjs`, `market-intelligence.mjs`, `cross-venue-net-edge.mjs`) | caches | assess, fetch and cache, net edge | the pipeline, the probes | fetches of one key overtaking each other; JavaScript conversions | an answer is as young as its label says; costs are proven |
| Chain and quote readers (`solana-*.mjs`, `jupiter-*.mjs`, `wallet-portfolio.mjs`) | portfolio cache | read pages, quotes, simulations | evidence collection, probes | the chain grows between pages; rate limits | a collection has no gap |
| Deployment and operation scripts (`scripts/vm-*`, `preflight_live.py`) | checkout, image, Caddyfile | deploy, apply routing, probe, preflight | all of the above | a script that fails at any line, traps that do or do not run | main runs only approved, tested, backed up |
| Vercel functions (`api/*.mjs`) | none | forward, refuse, set cookies; choose a pool and serve its candles | server, GeckoTerminal | which route asks for what; unknown numbers | documented routes reach a guarded route; a chart is of the token asked for |
| Web pages (`public/market.html`, `market-timeframes.js`, `account-auto-strategy.js`, `account-wallet-portfolio.js`) | chart, details, demo, consent, lists of one page | look up a token, choose a timeframe, run and repeat a demo step, consent and create, refresh | server, chart function | answers in any order, timers, double clicks, reloads | what is shown is what was asked last |
| Risk engine, wallet infrastructure records, ingestion worker and decoders, execution simulator, first-generation handlers, infrastructure | see `PROJECT.json` | | | pure, single statements, or not imported by the server | |

`PROJECT.json` lists every component with its status, the hazards with
their lines, and the properties that catch each.

## Modules

| module | models | proved in |
|---|---|---|
| `ListingGate` | what the public listing promises: a trader is listed only after a verification decision, on the backing of that decision | |
| `TraderMarketplace` | the marketplace; implements `ListingGate` | `TraderMarketplaceProofs` |
| `CopyMandates` | mandates of followers | `CopyMandatesProofs` |
| `WalletAuth` | challenges, logins, ownership proofs | `WalletAuthProofs` |
| `WebSessions` | sessions of a browser through the edge | `ControlProofs` |
| `AutoTradePipeline` | evaluations on one connection pool | `AutoTradePipelineProofs` |
| `TradeEngine` | signal gates, a stored mandate on its way to the engine, the decision and the training scenarios, as functions | `CopyMandatesProofs` |
| `DemoLedger` | demo wallets and their settlement arithmetic | `ControlProofs` |
| `ShadowPositions` | positions, events, cursor | `ShadowPositionsProofs` |
| `FollowerSnapshot` | the reads of a follower's accounting | `ServicesProofs` |
| `ShadowSimulation` | a simulation, statement by statement | `ServicesProofs` |
| `Rental` | rentals, payment, bills, the gate | `ControlProofs` |
| `ExecutionLifecycle` | what an execution promises: histories along the transition table, one audit | |
| `ExecutionDispatch` | the audited dispatcher; implements `ExecutionLifecycle` | `ServicesProofs` |
| `LiveGate`, `LivePreflight` | the gate of LIVE and the preflight, as functions | `ControlProofs` |
| `Gateway` | the routes and the candles of the chart function, as functions | |
| `WebPages` | two pages of the browser while answers are on their way | `ServicesProofs` |
| `FeeControl`, `Migrations` | changes of fees; the migration runner | `ControlProofs` |
| `FifoAccounting`, `ReconciliationSources` | lots and sources of a reconciliation, as functions | |
| `TradeLedger` | what the ledger promises: rows once per event and transaction, never changed | |
| `ReconciledLedger` | reconciliations and builds of evidence on the two above; implements `TradeLedger` | `ReconciledLedgerProofs` |
| `EvidenceCollection` | collection of signatures in pages | `ServicesProofs` |
| `MarketCache` | token, discovery and portfolio caches | `ServicesProofs` |
| `NetEdge`, `NetEdgeProbe` | the net edge, and the probe that feeds it | `NetEdge` in `CopyMandatesProofs` |
| `MarketProbe` | the market shadow probe | `ServicesProofs` |
| `Rollout` | the deployment scripts | `ServicesProofs` |
| `DecisionChecks` | the decisions by functions, evaluated over bounded inputs | |
| `MC...` | the instances that TLC checks | |

Common conventions. `Handlers` (or `Calls`, `Requests`, `Clerks`, `Askers`) are the requests in flight; the
variable `task`, `req`, `tx` or `calls` holds for each of them the statement it is about
to send and the values it has read. A READ COMMITTED transaction keeps what it
has written in its own record until `Commit` publishes it; meanwhile others wait
for its row locks and unique-index entries (an external rule of PostgreSQL,
written in `Blocks`, `BlockedOn`, `Holds`, `HoldsRow`). `Fail` is a lost
connection or process at any point; it rolls back a transaction and, between the
statements of an operation without one, leaves what is already committed. `None` is
SQL NULL or no row; where arithmetic follows, an optional value is a set of at most one element.
An operator whose comment begins with "Mutant" is a plausible
bug of the operator below it; nothing else uses it.

### TraderMarketplace and ListingGate

`traders` and `evidence` are tables. Of `audit_events` two things are kept: `trail`, what the last event of the
audit trigger says of each trader, and `submitted`, whose application has an event. A handler first
reads (`Review`, `ReviewVerification`, `SetPublished`...), then writes
(`WriteReview`, `CommitVerify`, `WritePublished`...). `UpdateTrader` is every
`UPDATE`: the guard trigger of migration 016 (`GuardAccepts`) and the audit trigger
(`Kind`, the columns that decide whether and which event is written) run inside the statement. A change of other columns
(another evidence verified for a trader who is verified already) writes no event of the trigger. An application is an
`INSERT`, which no trigger audits: `AppendSubmitted` is the statement of the route that follows it, and a crash between
the two loses the event, since a second application is refused. `TrailReplays` says that the trail is enough all the
same: without an event of the trigger a row is absent or a new application, and otherwise the last event gives its state. The events of the
other routes (review, verification, publication) repeat what the trigger wrote and are not kept. The verification and the refusal are one
transaction each, so they are one action after the evidence has been read. Texts, amounts
and figures are not kept: a verification is the evidence it names.

`ListingGate` sees only who is listed and on which evidence. The refinement maps
`listed` to the published rows and `backing` to the evidence of a row whose gate is open.

### CopyMandates

`copyable` is whether a trader passes the check of `createForFollower`: the
marketplace may change it at any time, so `ListingChanges` is unconstrained. An
edit reads the row, computes the whole new row (`Acted`, `Edited`) and `WriteMandate` stores it later, over
whatever the row has become. `LookForPair` and `InsertMandate` are the two
statements of a creation; the unique index refuses the second of two.

### WalletAuth

`issueChallenge` is `CountRecent` then `InsertChallenge`. A verification is a
transaction: `Begin`, `LockChallenge`, `LookupUser`, `RegisterWallet`,
`RecordConsent` once per document, then `CommitLogin` or `CommitOwnership`, or
`Refuse`. `Age` moves a challenge through its life (recent, then valid but out
of the rate window, then expired) and stands for time. `BreakDeadlock` is the
abort PostgreSQL chooses when transactions wait in a circle. The signature is valid or not by choice of the request. `uses` and
the challenge in a session are history variables: the code does not store them, the
properties need them.

### AutoTradePipeline

A handler is at a stage, needs some queries and has some connections open. `Acquire` gives it
one connection of the pool, `Answer` answers the query, and the handler moves on when all queries of
the stage are answered; the queries of the runtime risk are asked together
(`Promise.all`). `InTransaction` handlers hold a connection all the while, until `Release` (`finally`), a step after COMMIT
or ROLLBACK. When one query of a `Promise.all` fails (`Fail`), the request ends and its other queries go on without it:
`left` counts those that wait for a connection and those that have one (`AcquireLeft`, `AnswerLeft`). `today`
counts decisions, purchases and audit events since midnight UTC; `recent` says
which were within the cooldown. `Environment` is what other code and time do: the
mandate changes, the accounting becomes ready or stale, the cooldown passes, a new day
begins. Of the engine only its answer (`MayBuy`) is kept: the decision itself is in
`TradeEngine`, with the same constant `ShadowUnlimited`.

### DemoLedger

A request is a transaction: `EnsureAccount` (`INSERT ... ON CONFLICT DO NOTHING`),
`LockAccount` (`SELECT ... FOR UPDATE`), `ReadFee`, then `Buy`, `Sell` or `Keep`
settle by the formulas of `settleDemoAction`, and `Write` stores the account
and the trade. The code writes cash as an absolute value and adds to profit and counters; as
the row is locked, both are written from the row read. Money is in integer units, tenths of USDC in the run and
1e-8 USDC in the code, and a sale's gross result and fee are rounded to a unit as `Math.round` does
(`Share`). The theorems hold for every amount and so for the code's unit, but for the
binary representation of its decimal fractions, which is not modelled.
The training scenario (`RunAutoTradeTraining` of `TradeEngine`) chooses the action and its size; the ledger
is checked for any `Amounts` and `Returns`, those of the scenarios among them. `FeeChanges` is `updateFeeConfig`: the only writer of the
configuration in the code, though no route calls it (PATCH /api/admin/fees answers
409). A change by a database operator looks the same.

### ShadowPositions

One follower's calls, as `shadow-autotrade-lifecycle-bridge.mjs` makes them: the
idempotency key of an open is the decision (the mandate is in the slot), that of
a mark or a close is the position and the decision. `Then` is the order of the
statements. `LookUpKey` is the early answer to a retry, `LookUpSlot` the `FOR
UPDATE` read that locks nothing when there is no row, `InsertPosition` the insert
that waits on the partial unique index, `UpdatePosition` the locked read and the
update of a mark or a close, `InsertEvent` the insert on the key, `ReadNow` and
`MarkReady` the cursor. The clock is read where the code reads it: a mark before
its row lock, an open and a close after theirs, the cursor before its upsert.
Nothing in the server calls the bridge yet; its regression test does.

### WebSessions

One browser. A tab's call is in `sends` with its work at the primary
(`VerifyLogin`, `RefuseLogin`, `GetSession` then `HandleRoute`, `RevokeSession`)
and with whether the edge still waits for it: `GiveUp` is the edge's timeout of 7 s or a
lost call, after which the primary may still do the work. `ReceiveAnswer` brings
the answers of several tabs back in any order, each with its `Set-Cookie`
(`NewCookie`). `left` and `late` are history variables: what the browser was told
of a logout, and whether a session was accepted after that.

### FollowerSnapshot

`getFollowerSnapshot` is `StartReading` (it takes the clock first), `AccountingState`,
`DailyRealizedPnl` and `ReadPositions`, while positions open, are marked, and
close. `LockHolding` and `CommitClose` are the two ends of the close of
`ShadowPositions`: the time of the close is read under the lock, the cursor some time
later. Profits are not kept: `counted` are the positions whose profit is in the
sum, `shown` the page, `fresh` the marks by which it values positions. One unit of time is the
tolerance of 2 s for clocks that run ahead.

### ShadowSimulation and Rental

A simulation reads the policies once and then writes, for each of them, a decision, a
request (only if approved) and an audit event, each a statement of its own: `Decide`,
`SimulateRequest`, `AuditPolicy`, and `CloseSimulation` at the end. `FailSimulation` stops it anywhere.
The trader and the policies change meanwhile (`TraderChanges`, `PolicyChanges`).

In `Rental`, `Rent` and `Pay` are the first statement of their routes and `Bill`
the second (`INSERT` or `UPDATE` of the ledger row); `Execute` is the gate and
`CreateRequest` the request it lets in. `OnlyActive` is the partial unique index. The
property is about what the gate and the index guarantee together, not about what
one of them compares.

### ExecutionLifecycle and ExecutionDispatch

`ExecutionLifecycle` keeps `STATES`, `TRANSITIONS` and the audit only.
`ExecutionDispatch` is `dispatch` with one action per hook answer (`Answer`,
`RefuseHook`, `Throw`). `BuildIntent` and `ReadRisk` come before; the facts change
(`Change`) and the intent expires (`PassTime`) in between. The dispatcher of the code
builds its trace by hand and never calls `transitionExecution`, so that it follows
the table is a theorem and not a definition. The refinement maps a dispatch to its
trace with the refused state appended (`Histories`) and to its audit envelope (`Audits`).

### FeeControl and Migrations

A change of fees is a frozen document. `changes` holds every copy ever made, as
nothing takes one back: a copy can be approved, or applied, again. `audits` are
the answers of `applyApprovedFeeConfig`.

In `Migrations` an instance reads the applied versions once (`StartServer`), then `RunFile`,
`InsertVersion` (waits for an uncommitted equal key, `WaitsForVersion`; `RefuseVersion` when it is there) and
`CommitFile` for every missing file. The SQL of 005, 006 and 007 (`SelfCommitting`) ends with a `COMMIT` of its own, which
ends the runner's transaction: its effect is there with `RunFile`, and `InsertAlone` adds the version without a
transaction, unless the process ends first or another instance has it. `LoseCommit` is a COMMIT whose answer is lost: the file is
applied, the process ends. The statements are sent to the pool rather than to one client; before the
server listens nothing else uses the pool, so they take its one idle connection, and `db.mjs`
ends the process when that is lost.

### FifoAccounting, ReconciliationSources, ReconciledLedger and TradeLedger

The first two are functions of the set of trade events: lots booked in the order of the chain
(`Book`, `ConsumeFifo`, recursive functions over the histories of trades and over the lots), and what the network fee, the additional fees and the equity must say for a
candidate to be promoted (`Coordinated`). `ReconciledLedger` is the
concurrent part. A reconciliation is a REPEATABLE READ transaction whose snapshot
(`seen`, `rows`) is taken by `Begin`, before `Lock` has waited for the trader's row. `CollectFee` is
the call to the chain that the code makes inside the transaction, `Insert` the row with the limit trigger
(`BelowLimit`, on the snapshot) and the unique indexes (`Unique`, on what is committed). A build of evidence is
`LoadTrader`, `ReadLedger`, `LookUp`, `WriteCollection`. Late events (`Ingest`) may be older than what was recorded.

`TradeLedger` is the promise: a row is added once per event and per transaction and
stays, and evidence sums rows of the ledger. The mapping takes the rows of `ledger` (`Rows`) and
the rows that each collection counts (`Sums`).

### EvidenceCollection and MarketCache

A collection of signatures reads pages from the newest to the oldest (`FetchPage`) while
the chain grows (`Arrive`). Signatures are numbered as they reach the chain, two per slot.

`MarketCache` models three caches of different policy: tokens (limited, evicting the oldest
insertion), discovery and portfolios. `Ask` hits or starts a
fetch, `SourceReads` is the moment the source reads its data, `Deliver` stores
it under the time of the request (or, for portfolios, of the answer), `FailFetch` falls back
on the entry looked up at the start. The value of an entry is the time it was read, so its age can be compared with its label.

### NetEdge, NetEdgeProbe and MarketProbe

`NetEdge` is the arithmetic with JavaScript's conversions: an unknown number is `{}`,
and `Number` makes it 0 as `Number(null)` does. `NetEdgeProbe` takes one candidate through the
stages of `vm-cross-venue-net-edge-probe.mjs`; `MarketProbe` takes a list of
candidates through the gates of `vm-real-market-shadow-probe.mjs` with its retries
and its limit of simulations. Every request of either may fail.

### WebPages

Two pages of the browser; `view` names the panel that a behaviour follows. On the market page a token is looked up
(`Analyze`, then `TokenHead`, `TokenBody` or `TokenLost`) and a timeframe chosen (`ChooseFrame`);
`market-timeframes.js` wraps the analysis of the page and adds a request of its own (`EnhancedAnalyze`,
`LoadChart`, answered by `ChartAnswer`). The analysis a page is opened with begins before that wrapper is
installed. The follower page has the simulator (`ClickRun`, `ClickAuto`, `Tick`, `StepAnswer`),
the consent to a mandate (`ToggleConsent`, `ClickCreate`, `CreateAnswer`, `ReloadPage`) and three lists
that are read at any time (`Poll`, `ClickRefresh`, `Visibility`, `ListAnswer`). Answers come in any order. What a
page draws is reduced to the request it is from.

### Rollout

Each script of `scripts/vm-*.sh` is a list of steps (`Steps`). The state is what
the checkout, the container, `/etc/caddy/Caddyfile` and the loaded configuration
hold, as commits of main; `Push` moves main meanwhile. `Err` is a failing command: `set -Eeuo
pipefail` runs the ERR trap. `FailCheck` is a check that ends in `|| fail`: `exit 1` runs no ERR
trap. `Terminate` is a signal; where a script's trap cleans up and lets it go on (`Trapped`), it changes nothing here.

### Decisions without state

`TradeEngine` (hard gates of a snapshot, the mandate the engine is given, the decision, the training
scenarios), `LiveGate`, `LivePreflight` and `Gateway` (which route is answered, forwarded or refused and
what it asks for; how a chart chooses its pool and makes its candles) are functions. `DecisionChecks` evaluates them over every
combination of a small set of inputs on both sides of each bound, in assumptions that TLC
evaluates with the run `services`: `QualityByHand`, `DecisionsByHand`,
`RoundingByHand`, `PreflightByHand`, `ContractByHand`, `ChartByHand`, `PoolByHand`, `AdapterByHand`,
`TrainingByHand`. Each compares the translated function with a
reference written independently of the order in which the code tests things.

## Runs

| run | question | result |
|---|---|---|
| `marketplace` | does any interleaving of two admins open the listing, detach figures from evidence or change a row behind the trail? do racing creations and edits keep mandates consistent? | `PublishedIsGated`, `TrailReplays`, `VerifiedIsBacked`, `OneMandatePerPair`, `EnabledMeansActive`, `LimitsOrdered` hold, `ListingGate` is implemented |
| `mandate_cancel` | is a cancelled mandate final? | violated: CANCEL, PAUSE, RESUME |
| `request_races` | do racing logins verify once, register once, record consents and stay within the rate limit plus those in flight? how far can the daily limit of trades be exceeded? | all hold; the limit is passed, by one trade of two evaluations |
| `progress` | does a failure split decision and audit, and who waits for ever? | no; a request waits for ever only when every connection is held by an evaluation, whatever queries failed ones left behind; every verification ends, although two can deadlock |
| `trade_midnight` | is the cooldown kept? | violated across midnight UTC |
| `shadow_positions` | one position per slot, settled once, events in order, no circle of waits? | all hold |
| `shadow_cursor` | is the accounting complete through its cursor? | violated: a call dates its event, another one commits a later cursor, the event appears |
| `reconciliation` | can rows of one view charge a lot twice, the limit be passed by more than those in flight, evidence miss a row, one snapshot be collected again and again? | no; `TradeLedger` is implemented |
| `row_limit` | is the limit of rows kept when reconciliations race, as migration 017 says? | violated: the lock is taken after the snapshot that is counted |
| `services` | do the thirteen small components keep what they promise? | all fourteen properties hold |
| `net_edge` | is a candidate that passes the net edge gate proven to cover its costs? | violated: an unknown fee counts as zero |
| `routing_rollback` | is a failed routing change rolled back? | violated: `exit` runs no ERR trap |

`MCServices` puts thirteen components that share no state in one instance: `part` names
the one that acts in a behaviour, the others keep their initial state. So the state space is the
sum of theirs and not the product, and a property of one component is checked on all its behaviours. `MCMarketplace`
(`side`) does the same for traders and mandates, `MCRequestRaces` and `MCProgress` for logins and evaluations.

### Findings

- `core.mjs:101` refuses to RESUME a cancelled mandate, but PAUSE first makes it
  PAUSED, and it can then be resumed. The HTTP test expects a cancelled mandate not to be resumed.
- `trusted-autotrade-runtime-risk.mjs:110` looks for the last trade among those of the
  current UTC day, so a trade just before midnight starts no cooldown.
- `shadow-position-lifecycle.mjs:43` overwrites `complete_through` with the clock of
  whichever call comes last. A call still in flight may commit an event dated
  before it; daily P&L "up to the cursor" then changes after it was shown as complete.
- Migration 017 counts a trader's rows under an advisory lock and says that the cap is deterministic therefore. The service
  inserts in a REPEATABLE READ transaction (`reconciliation-runtime-service.mjs:266`), whose snapshot is older than the
  lock: a row committed while it waited is not counted, and the cap is passed.
- `cross-venue-net-edge.mjs:92` converts the fee by `Number`, and `Number(null)` is 0: a round trip
  whose simulation failed, or whose fee the RPC does not know, has "proven" costs of zero.
- `vm-apply-routing.sh:13`: `fail` calls `exit 1`, which runs no ERR trap, so a verification that
  fails after the reload leaves the new routing in place, although `docs/DEPLOYMENT_TOPOLOGY.md` promises a rollback.

Other behaviour that the models show:

- The pool can be exhausted by as many evaluations as connections; `ServedUnlessExhausted` states
  exactly that this is the only way.
- The later of two edits of a mandate overwrites the earlier; an older mark may replace a newer one; a close retried
  while its first attempt runs is answered `shadow_position_closed` and not `idempotent`.
- An application may lack its event in the audit trail for good, when the process stops between the row and the event.
- A row recorded before an event of its past arrived, and one recorded after, may charge the same purchase: `LedgerConserves`
  speaks of the rows that agree on the past, and nothing corrects an earlier row.
- 005, 006 and 007 may run again when an instance stops before it has inserted their version, or when two start together:
  the `UPDATE` of `platform_fee_config` in 005 and 006 then sets the fees back to their first values.
- A late 401 of one tab clears the cookie of another tab's newer session, and a handler
  may finish after its session was revoked.
- The conversion of `null` to 0 is also in `vm-real-market-shadow-probe.mjs:33` (hence `RowsProven`
  excepts an unknown price impact), `vm-cross-venue-stage-diagnostic.mjs:115` and `signal-intelligence.mjs` (in `TradeEngine` a `null` reads as `{0}`).
- The market probe counts a simulation as attempted for candidates for which there is no service.
- `automatic-evidence-corroboration-v4.mjs:62` asks for a schema `.v1` and the Solscan source writes `.v2`: a corroboration never succeeds.
- The engine rounds an amount to cents and may pass the budget by half a cent or buy 0.00 (`RoundingByHand`); for a stored
  mandate every limit is of whole cents, and then rounding passes none (`PurchaseWithinMandate`).
- The adapter of stored mandates leaves `shadow_unlimited` out, so the trades and the pause of a day bind only where
  `AUTOTRADE_SHADOW_UNLIMITED` is set to false; unset it is true (`NormalizeMandate`).
- A daily loss limit below half a cent rounds to 0, which the engine reads as no limit (`AdapterByHand`).
- A stop loss does not sell while the price impact is above the mandate's slippage: a mandate with a slippage of one
  basis point keeps a stopped position (`TrainingByHand`, and exactly in `StoppedPositionIsSold`).
- On the pages: after an analysis that was superseded, or that failed, the chart may be of another token than the details;
  a page opened with a timeframe may end with 15-minute candles under that timeframe; a second click while the
  demo starts leaves a repetition that no click stops; ticking the consent again lets a second creation be sent; an older
  answer of a list overwrites a newer one. `PagesCurrent` states what does hold.
- The edge serves two demo-wallet routes that the API contract omits (`ContractByHand`).
- `ACTIVATE_LIVE` asks for no earlier `REQUEST_LIVE` and clears the kill switch itself (`LiveGate`).
- An approved change of fees may be applied again, and an old one after a newer one (`FeeControl`).

### Bounds, and why they are enough

Every race in this code is between two statements of one request and one
other request, so two handlers make each happen. The named bounds are:

- `marketplace`: two traders and two pieces of evidence, so that evidence may be of the wrong trader or be decided twice.
  Of mandates: two policy identifiers for one pair, so that a duplicate could exist; one of the two traders is the follower's own; amounts 1 to `MaxAmount` = 2, enough for limits to cross.
- `request_races`: two wallets, so that one may be presented with the challenge of the other; a spare user identifier for an account that should not be created; lists of consents complete, incomplete and empty; `RateLimit` 1. Two evaluations on three connections with a limit of one trade: with two
  connections nobody could count while another is past its count, with three one trade is made past the limit.
- `progress`: two evaluations on two connections, the least that exhausts a pool; one trade a day, and `MaxDecisions` = 3 stops a day's decisions (it counts those in flight); a request arrives only when no more than
  `MaxLeft` = 0 queries of failed ones are under way. Logins start from a registered user who is asked to accept new versions of two documents in either order, the least that deadlocks.
- `trade_midnight`: one request and a limit of two trades a day, so that the cooldown and not the limit decides.
- `shadow_positions`, `shadow_cursor`: two positions of one slot (one after the other, or refused), two decisions so that a retry and a new call differ, a clock of two readings (`MaxTime` = 1), one mark (`MaxMarks`) besides its retries, prices that win and break even.
- `reconciliation`, `row_limit`: one purchase and four sales, the last two of one transaction; four events are there from the start and one is late; two requests; `RowLimit` 1, so that the limit is passed. Two builders and at most `MaxBuilds` = 3 builds, so that two collect one snapshot and one comes after them; `EvidenceRows` 2, so that a collection is of one row or of both. No request begins while a build is under way, and the clock moves only without builds: a build races with the commits of requests, which remain free. A ledger longer than `EvidenceRows` does not occur (it has at most two rows); `EvidenceIsWhole` covers it.
- `services`: demo wallets with three trades, amounts below and at the initial balance, gains, losses and fees with and without rounding up to the whole profit; rentals of one trader, two and with a period that ends; two collections of two pages of two over six signatures, so that the chain outgrows them; caches of one token entry with two tokens, times up to past every label; two dispatches of an intent that may expire; three commits and three scripts, so that a script can leave files of an older commit under a newer one; one simulation of two policies; two positions and a page of one, with days of two units so that a snapshot crosses midnight; two instances, three files, of which the second commits itself, four starts; two tabs and two sessions; three officers with two roles each, five documents; two candidates and one slot of simulation, or no limit.
  For the pages: two tokens looked up at most twice and three requests for a chart, so that an answer may be superseded by one of another token and by one of the same; two repetitions of the demo; two readings of each list.
- `net_edge`: one candidate with amounts that lose, break even and win; `routing_rollback`: two commits, two scripts.

Symmetry is used in runs that check invariants and, in `marketplace`, `reconciliation` and
`services`, step properties; there requests, builders, applicants, evidence and policies are permuted, which the
properties count or quantify over and do not tell apart. No run that checks liveness uses it. `CHECK_DEADLOCK FALSE` is set in
`services`, `net_edge` and `routing_rollback`, whose behaviours end (scripts, probes, bounded clocks).

### Fairness

Only `progress` assumes fairness. Strong fairness of each login's progress and weak
fairness of deadlock detection: PostgreSQL grants a lock or an index wait in the
order of the requests, so a statement that can run again and again does run, and
its deadlock detector runs after `deadlock_timeout`. Strong fairness of `Serve` (the steps of one request: `Acquire`, `Answer` and the statements after them): `pg` keeps waiting queries in a queue. No fairness is
assumed of requests arriving, of failures or of the environment. All other
runs are of safety properties, without fairness.

## Proofs

The theorems hold for every value of the constants that satisfies the modules'
assumptions: any number of traders, followers, members, requests, pages, files, scripts and trades.
The assumptions say only that bounds are natural numbers, that maps of constants have the right domain, and that
`None` and its like are not values of another kind. TLC evaluates them with the runs.
Each proof follows the same argument: an inductive invariant, the lemma that
`Init` implies it, one lemma per action (or group of actions) that it is
preserved, and a last temporal step.

| module | theorems | invariant, and why the properties are not inductive on their own |
|---|---|---|
| `TraderMarketplaceProofs` | `TypeCorrect`, `PublicationGated`, `VerificationBacked`, `TrailStandsAlone`, `MarketplaceImplementsListing` | a handler that has read evidence must still own it when it writes (`DecisionOwnsEvidence`), and must name a row (`TaskNamed`). The refinement uses the same invariant: each write is a step of `ListingGate` or a stutter |
| `CopyMandatesProofs` | `TypeCorrect`, `MandateUnique`, `LimitsStayOrdered`, `OnlyActiveEnabled`; of the functions `QualifiedIsProven`, `PurchaseWithinLimits`, `StoppedPositionIsSold`, `PurchaseWithinMandate`, `PassedRoundTripGains` | the row an edit is about to write must itself be in order and enabled only if ACTIVE. The functions have no invariant: see below |
| `WalletAuthProofs` | `TypeCorrect`, `ChallengeConsumedOnce`, `AccountUnique`, `SessionForWallet`, `AccountsConsented`, `RateStaysBounded` | a transaction past `LockChallenge` holds its row alone (`RowsHeld`), and the account it makes is its own until it commits (`NewAccounts`); `RateBounded` itself counts the recent challenges together with the requests that have counted and not inserted, and so is inductive beside them |
| `AutoTradePipelineProofs` | `TypeCorrect`, `DecisionsAudited`, `OvershootIsBounded` | a request that has read a count below the limit holds its transaction's connection, and held another while it read, so those that can overshoot are fewer than requests and connections |
| `ShadowPositionsProofs` | `TypeCorrect`, `SlotsHoldOne`, `SettledOnce`, `DatesInOrder`, `NeverWaitInCircle` | what each transaction has written must be in the order of its statements (`InOrder`), supplied (`Supplied`) and not contradicted by the tables (`Rightful`), and two transactions must be `Apart`: they never hold the same row, slot, key or the state row. `History` adds what the events of a position say of it. The circle is excluded because the resources are taken in one order |
| `ReconciledLedgerProofs` | `PastChargedOnce`, `CostsConserved`, `LimitPassedByFlightOnly`, `EvidenceIsWhole`, `SnapshotPerBuild`, `LedgerImplementsTradeLedger` | `LedgerInv`: rows of distinct events and transactions (`Distinct`), room for the rows of the requests whose snapshot is below the limit (`Room`), what a build has read is whole (`AllWhole`), and copies of a snapshot are fewer than the builds that have not looked for it (`Once`). That the oldest rows are as many as they may is an argument by rank: among finitely many rows one has exactly k before it |
| `ControlProofs` | `FeesByThreePersons`, `FilesRunInOrder`, `PaidOnce`, `LogoutIsFinal`, `DemoTyped`, `WorthAccounted`, `TradesChain`; of the functions `ActivationAddsNoReadiness`, `EligibleIsProven` | `FeeInv`: every document is what its status says. `MigrationInv`: two instances never hold one uncommitted version, every file before an instance's next one is applied, and one that commits itself has run before its version is inserted. `RentalInv`: a paid period under way is of an ACTIVE rental, of which a trader has one. `SessionInv`: a token that was left is not the cookie's, its row is revoked if the browser was told so, and the token of a login under way is known to nobody else. `DemoInv`: the row a request has locked is still the account's, and no two lock one; the settlement lemmas bound the rounded fee by the gross result, so that worth moves by the net result |
| `ServicesProofs` | `AnswersAreAged`, `CollectionsAreComplete`, `ReportedRowsProven`, `DeploysAreTested`, `TrailsAreComplete`, `CountsTheClosed`, `DispatchesLifecycle`, `PagesAreCurrent` | `CacheInv`: an entry is as old as its request, and a request in flight is younger than a fetch. `CollectionInv`: the pages read so far are the newest signatures of the first page's moment without a gap. `ProbeInv`: a row says how far its candidate came. `RolloutInv`: what a script of main has in the checkout, step by step. `TrailInv`: what a run has written of its current policy, and the number it has left. `SnapshotInv`: what was counted stays closed, as a closed position never changes. `DispatchInv`: the trace is a walk along the table that ends where the awaited hook begins, so each answer is a transition. `PagesKept`: requests are numbered up to the last one asked and the chart is of the last one answered or of an analysis; a step is under way exactly while the button says so |

### The lots of a reconciliation

`LedgerConserves` (the rows recorded from one view of the past charge no unit of a purchase twice: for any row, what the rows that knew the
same past as it does charge for its token never exceeds what the purchases in that past were worth) compares sums over books of a history of any
length. The functions it is made of are recursive functions, not RECURSIVE operators, so the
argument can be made inside the logic, with a *set* as induction hypothesis where the library's theorems
take an operator:

1. `HistoryInduction`: a set of histories that holds the empty one, and each whose part before its latest trade it holds,
   holds all. `Recursion`, `HistoryRecursion`: a function with a given step along a chain that descends exists, so the
   functions of the model satisfy the equations that define them.
2. `ShareBounded`: the rounded cost of a part of a lot is no more than the lot's. `TakeConserves`,
   `ConsumeConserves`: what a sale takes from the lots and what they still cost is what they cost before.
3. `BookStep`, `CostsConserved`: by induction along a history, costs booked plus costs left are at most
   what was bought. `EarlierCosts`: trades that come after a sale in the order of the chain do not change what it cost.
4. `TotalMonotone`, `CostInv`: what was recorded of a sale was computed from a snapshot, a part of the
   trades now known; together with `LedgerInv` (rows of distinct events) this gives `PastChargedOnce`.

### The decisions

Theorems about functions, for all inputs. `QualifiedIsProven` says what a qualified snapshot shows.
`PurchaseWithinLimits` follows a purchase back through the guards of the engine; `NormalizedMandate` gives
that numbers left out or out of range still give numbers, `CentsBounded` what rounding may add.
`PurchaseWithinMandate` joins it with the adapter (`MandateBuilt`: what the engine is given of a stored row).
`PassedRoundTripGains` undoes the truncating divisions of the net edge. `EligibleIsProven` and
`ActivationAddsNoReadiness` are the gates before LIVE.

### Assumptions

Beside those named above: `TradesNat` (slots, times and the integer amounts of a trade are naturals, as `validateEvent` asks of a valid one) and `EarlierFinite` (finitely many
events are stored when a behaviour starts), `BaseFrameIsOne` (the 15-minute frame is one of the buttons),
`UnlimitedIsBoolean`. `NetEdge` computes its fee exactly where the code uses floating point, and `Money` takes every whole number of cents
where the code also refuses some whose binary fraction times 100 is no integer (1.1): the theorems are about the exact numbers.

### Only model-checked

The liveness properties `VerificationEnds` and
`ServedUnlessExhausted` (`ENABLED` and fairness are beyond the prover), and the
assumptions of `DecisionChecks` and `MCReconciledLedger` (`DrawdownIsWorstFall`, `SoldAsBought`), which are statements about bounded
inputs: the parsing and bucketing of candles and the matrix of routes in particular. Every safety property of a passing run
is stated by a theorem. The six violated properties are of course not theorems. Type correctness is a theorem of each of these
modules or a conjunct of its invariant. No module declares a RECURSIVE operator.

## Not modelled

- Numeric scoring (weights of the signal score): the score is an input of `TradeEngine`.
- Parsing of chain data, quotes and HTTP answers, hashes and canonical JSON: one comparison or one failure in the models.
- `live-execution-boundary.mjs`, which sends nothing, and the status updates of `execution-requests.mjs`, which no route calls.
- The corroboration of evidence (`automatic-evidence-corroboration-v4.mjs`), a comparison of two documents that no state depends on.
- The risk engine, the execution simulator, the ingestion worker and decoders and the first-generation handlers: pure, or
  not imported by the server. Wallet infrastructure records are one upsert and two reads.
- Containers, continuous integration and the rest of the pages (administration, public lists, login forms), which draw one answer of
  one request.
- The choice between several environments: numbers the environment may set (limits of trades, scores, pauses) have their
  default value in `TradeEngine`; `AUTOTRADE_SHADOW_UNLIMITED` is a constant.
- The two statements of many routes of `server.mjs` (a change, then its audit event of the route) are modelled where the
  change has a trigger or property of its own; elsewhere a crash between them loses the event.

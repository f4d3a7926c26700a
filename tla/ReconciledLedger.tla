------------------------- MODULE ReconciledLedger -------------------------
(***************************************************************************)
(* The reconciled trades of one trader and the performance evidence made   *)
(* of them (reconciliation-runtime-service.mjs,                            *)
(* reconciled-performance-service.mjs, migrations/017).                    *)
(*                                                                         *)
(* A reconciliation is a REPEATABLE READ transaction.  Its snapshot is     *)
(* taken by its first statement, the SELECT ... FOR UPDATE of the trader,  *)
(* before that statement waits for the row, so what it reads after the     *)
(* wait may be older than what the previous holder committed; the unique   *)
(* indexes compare with what is committed.  A build of evidence is a       *)
(* sequence of statements of its own.                                      *)
(***************************************************************************)
EXTENDS ReconciliationSources

CONSTANTS
  Requests,    \* reconciliations served at the same time
  Earlier,     \* events that arrived before the behaviour starts
  Builders,    \* builds of evidence served at the same time
  OfferKinds,  \* what callers may pass: the part of an offer they choose
  MaxEvents,   \* MAX_ACCOUNTING_EVENTS
  RowLimit,    \* the trigger's limit on the rows of a trader
  EvidenceRows,\* MAX_EVIDENCE_ROWS
  MinTrades,   \* MIN_REPUTATION_TRADES
  MaxNow       \* bound: the last time of the clock

ASSUME LimitsNat == RowLimit \in Nat \ {0} /\ EvidenceRows \in Nat \ {0} /\ MinTrades \in Nat \ {0}
ASSUME BoundsNat == MaxEvents \in Nat /\ MaxNow \in Nat
ASSUME FiniteRequests == IsFiniteSet(Requests) /\ IsFiniteSet(Builders)
ASSUME EarlierFinite == IsFiniteSet(Earlier)
ASSUME EarlierEvents == \A e \in Earlier : e \in EventIds /\ Trade[e].at = 0
ASSUME KindsOfOffers == OfferKinds \subseteq
  [scan : {"none", "partial", "complete"}, inventory : {"none", "partial", "complete"},
   valued : SUBSET Assets, fees : Seq(Nat)]

VARIABLES
  now,
  events,       \* trade_events of the trader's wallet
  approved,     \* the trader is APPROVED, SHADOW and has an owner
  ledger,       \* trader_reconciled_trades, in the order of the commits
  collections,  \* trader_evidence_collection_runs of INTERNAL_RECONCILIATION,
                \* a RECORDED one with its trader_verification_evidence
  tx,           \* the transaction of each request
  build         \* what each build has read

vars == <<now, events, approved, ledger, collections, tx, build>>

NoOffer == [scan |-> "none"]
Idle == [pc |-> "idle", event |-> 0, offer |-> NoOffer, seen |-> {}, rows |-> 0, feeAt |-> 0]
NoBuild == [pc |-> "idle", rows |-> {}, read |-> 0]

Init ==
  /\ now = 0
  /\ events = Earlier
  /\ approved = TRUE
  /\ ledger = <<>>
  /\ collections = <<>>
  /\ tx = [r \in Requests |-> Idle]
  /\ build = [b \in Builders |-> NoBuild]

At(r, pc) == tx[r].pc = pc
Holds(r) == tx[r].pc \in {"collect", "record"}
Free == \A r \in Requests : ~Holds(r)

-----------------------------------------------------------------------------
Tick ==
  /\ now < MaxNow
  /\ now' = now + 1
  /\ UNCHANGED <<events, approved, ledger, collections, tx, build>>

(* The trade event repository: an event may arrive after later ones. *)
Ingest(e) ==
  /\ e \notin events /\ Trade[e].at <= now
  /\ events' = events \cup {e}
  /\ UNCHANGED <<now, approved, ledger, collections, tx, build>>

(* An administrator suspends the trader: the review writes its row, and    *)
(* waits for it.  A suspended trader is not approved again.                *)
Suspend ==
  /\ Free /\ approved
  /\ approved' = FALSE
  /\ UNCHANGED <<now, events, ledger, collections, tx, build>>

Become(r, t) ==
  /\ tx' = [tx EXCEPT ![r] = t]
  /\ UNCHANGED <<now, events, approved, ledger, collections, build>>

(* ROLLBACK, or COMMIT of nothing: an answer that is not ready, a conflict *)
(* with the recorded row, a replay that reuses it, a failing statement, a  *)
(* lost connection.                                                        *)
End(r) == tx[r].pc # "idle" /\ Become(r, Idle)

Sale(known, e) == e \in known /\ HasCandidate(known, e)

(* The caller computes the cost of the sale e, gathers the sources and     *)
(* calls; the snapshot is taken.  Of an event that is no sale now, every   *)
(* later step only ends the transaction.                                   *)
Begin(r, e, kind) ==
  /\ tx[r].pc = "idle"
  /\ Sale(events, e)
  /\ LET offer == [scan |-> kind.scan, inventory |-> kind.inventory, trade |-> e,
                   basis |-> CostBasis(events, e), valued |-> kind.valued, fees |-> kind.fees, at |-> now] IN
     Become(r, [pc |-> "lock", event |-> e, offer |-> offer, seen |-> events,
                rows |-> Len(ledger), feeAt |-> 0])

(* The trader's row is granted, and the sale has a candidate. *)
Lock(r) ==
  /\ At(r, "lock") /\ Free
  /\ approved
  /\ Cardinality(History(tx[r].seen, tx[r].event)) <= MaxEvents
  /\ Sale(tx[r].seen, tx[r].event)
  /\ Become(r, [tx[r] EXCEPT !.pc = "collect"])

(* collectAutomaticNetworkFeeSnapshot is ready; its time is that of the    *)
(* call.                                                                   *)
CollectFee(r) ==
  /\ At(r, "collect")
  /\ FeeKnown(tx[r].event)
  /\ Become(r, [tx[r] EXCEPT !.pc = "record", !.feeAt = now])

Ready(t) == Coordinated(t.event, CostBasis(t.seen, t.event), t.offer, t.feeAt)

Recorded(t) == \E i \in 1 .. t.rows : ledger[i].event = t.event

(* Mutant: the count includes the row being inserted. *)
LimitAllowsOneMore(t) == t.rows <= RowLimit

(* aether_guard_reconciled_trade_limit counts in the transaction's         *)
(* snapshot, whatever its advisory lock waited for.                        *)
BelowLimit(t) == t.rows < RowLimit

(* Mutant: UNIQUE (trader_id, source_signature) is not there. *)
UniqueEvent(e) == \A i \in DOMAIN ledger : ledger[i].event # e

Unique(e) == \A i \in DOMAIN ledger : ledger[i].event # e /\ ledger[i].tx # Trade[e].tx

(* buildCoordinatedLedgerRecord. *)
Row(t) ==
  LET cost == CostBasis(t.seen, t.event) IN
  [event |-> t.event, tx |-> Trade[t.event].tx, at |-> Trade[t.event].at, history |-> History(t.seen, t.event),
   cost |-> cost, pnl |-> RealizedPnl(t.event, cost, t.offer), equity |-> Equity(t.event)]

(* INSERT and COMMIT. *)
Insert(r) ==
  /\ At(r, "record")
  /\ Ready(tx[r]) /\ ~Recorded(tx[r])
  /\ BelowLimit(tx[r]) /\ Unique(tx[r].event)
  /\ ledger' = Append(ledger, Row(tx[r]))
  /\ tx' = [tx EXCEPT ![r] = Idle]
  /\ UNCHANGED <<now, events, approved, collections, build>>

-----------------------------------------------------------------------------
Remember(b, x) ==
  /\ build' = [build EXCEPT ![b] = x]
  /\ UNCHANGED <<now, events, approved, ledger, collections, tx>>

LoadTrader(b) ==
  /\ build[b].pc = "idle" /\ approved
  /\ Remember(b, [NoBuild EXCEPT !.pc = "read"])

(* ORDER BY executed_at, trade_event_id. *)
Sooner(x, y) == x.at < y.at \/ (x.at = y.at /\ x.event < y.event)

(* Those of the first n rows that fewer than k others precede. *)
First(k, n) ==
  LET rows == Range(SubSeq(ledger, 1, n)) IN
  {r.event : r \in {x \in rows : Cardinality({y \in rows : Sooner(y, x)}) < k}}

(* Mutant: one row less. *)
OldestButOne(n) == First(EvidenceRows - 1, n)

(* LIMIT MAX_EVIDENCE_ROWS. *)
Oldest(n) == First(EvidenceRows, n)

ReadLedger(b) ==
  /\ build[b].pc = "read"
  /\ Remember(b, [pc |-> "lookup", rows |-> Oldest(Len(ledger)), read |-> Len(ledger)])

(* Mutant: a collection of the same snapshot is not looked for. *)
NeverCollected(rows) == FALSE

(* The ledger_snapshot_hash of the rows is already in a collection. *)
Collected(rows) == \E i \in DOMAIN collections : collections[i].rows = rows

LookUp(b) ==
  /\ build[b].pc = "lookup"
  /\ Remember(b, IF Collected(build[b].rows) THEN NoBuild ELSE [build[b] EXCEPT !.pc = "write"])

RowOf(e) == CHOOSE r \in Range(ledger) : r.event = e

Rounded(a, b) == (2 * a + b) \div (2 * b)

Fall(acc, equity) ==
  LET peak == IF equity > acc.peak THEN equity ELSE acc.peak
      fall == Rounded((peak - equity) * 10000, peak) IN
  [peak |-> peak, worst |-> IF fall > acc.worst THEN fall ELSE acc.worst]

(* drawdown_bps. *)
Drawdown(equities) == FoldLeft(Fall, [peak |-> equities[1], worst |-> 0], equities).worst

(* calculateReconciledMetrics. *)
Metrics(rows) ==
  LET s == SetToSortSeq({RowOf(e) : e \in rows}, Sooner)
      sum(f(_)) == FoldLeft(LAMBDA n, r : n + f(r), 0, s) IN
  [count |-> Len(s),
   return |-> Rounded(sum(LAMBDA r : r.pnl) * 10000, sum(LAMBDA r : r.cost)),
   wins |-> Rounded(sum(LAMBDA r : IF r.pnl > 0 THEN 1 ELSE 0) * 10000, Len(s)),
   drawdown |-> Drawdown([i \in DOMAIN s |-> s[i].equity])]

NoMetrics == [count |-> 0, return |-> 0, wins |-> 0, drawdown |-> 0]

(* PENDING_DATA, or RECORDED together with an evidence in one transaction. *)
WriteCollection(b) ==
  /\ build[b].pc = "write"
  /\ LET rows == build[b].rows IN
     collections' = Append(collections,
       [rows |-> rows, read |-> build[b].read, recorded |-> Cardinality(rows) >= MinTrades,
        figures |-> IF rows = {} THEN NoMetrics ELSE Metrics(rows)])
  /\ build' = [build EXCEPT ![b] = NoBuild]
  /\ UNCHANGED <<now, events, approved, ledger, tx>>

(* A failing statement, before the collection is committed. *)
FailBuild(b) == build[b].pc # "idle" /\ Remember(b, NoBuild)

-----------------------------------------------------------------------------
Reconcile(r) ==
  \/ \E e \in EventIds, kind \in OfferKinds : Begin(r, e, kind)
  \/ Lock(r)
  \/ CollectFee(r)
  \/ Insert(r)
  \/ End(r)

Build(b) == LoadTrader(b) \/ ReadLedger(b) \/ LookUp(b) \/ WriteCollection(b) \/ FailBuild(b)

Next ==
  \/ Tick
  \/ Suspend
  \/ \E e \in EventIds : Ingest(e)
  \/ \E r \in Requests : Reconcile(r)
  \/ \E b \in Builders : Build(b)

Spec == Init /\ [][Next]_vars

-----------------------------------------------------------------------------
(* The rows that were recorded from what the row r knew of the past. *)
Agreeing(r) ==
  {x \in Range(ledger) : x.event \in r.history /\ x.history = History(r.history, x.event)}

(* What the sales of a token cost by these rows, and what the purchases of *)
(* it were worth.                                                          *)
Charged(rows, mint) == [e \in EventIds |->
  IF BaseMint(e) = mint /\ \E r \in rows : r.event = e THEN RowOf(e).cost ELSE 0]
Paid(mint) == [e \in EventIds |->
  IF BaseMint(e) = mint /\ Buys(e) /\ ~QuotePair(e) THEN Trade[e].usd ELSE 0]

(* Only an event that arrives late lets a purchase be used up twice: the   *)
(* rows recorded from one past, overtaken since or not, cost no more than  *)
(* what the purchases of their token in it were worth, in whatever order   *)
(* they were recorded, from whatever snapshots, and however the lots were  *)
(* cut (buildFifoAccountingCandidates).                                    *)
LedgerConserves == \A r \in Range(ledger) :
  LET mint == BaseMint(r.event) IN
  Total(Charged(Agreeing(r), mint))[r.history] <= Total(Paid(mint))[r.history]

(* The trigger's count is as old as the snapshot, so the limit can be      *)
(* passed, but only by the other requests in flight                        *)
(* (aether_guard_reconciled_trade_limit).                                  *)
LedgerBounded == Len(ledger) <= RowLimit + Cardinality(Requests) - 1

(* migrations/017_reconciled_performance_evidence.sql:35: the cap holds    *)
(* even if several reconciliations arrive at once.                         *)
CapKept == Len(ledger) <= RowLimit

(* A collection misses no row that was committed when its ledger was read, *)
(* unless it is full, and never counts a row of later                      *)
(* (buildPerformanceEvidence).                                             *)
EvidenceComplete == \A i \in DOMAIN collections :
  LET c == collections[i]
      committed == {ledger[j].event : j \in 1 .. c.read} IN
  /\ c.rows \subseteq committed
  /\ c.rows = committed \/ Cardinality(c.rows) = EvidenceRows

(* Builds of one ledger make one collection, and racing builds at most one *)
(* each (buildPerformanceEvidence).                                        *)
SnapshotOnce == \A i \in DOMAIN collections :
  Cardinality({j \in DOMAIN collections : collections[j].rows = collections[i].rows})
    <= Cardinality(Builders)

Rows == Range(ledger)
Sums == {{RowOf(e) : e \in collections[i].rows} : i \in DOMAIN collections}

Abstract == INSTANCE TradeLedger WITH rows <- Rows, collected <- Sums

(* The ledger only grows, by rows of distinct events and transactions, and *)
(* evidence only sums its rows: ReconciledLedger implements TradeLedger.   *)
LedgerImplemented == Abstract!Spec
=============================================================================
